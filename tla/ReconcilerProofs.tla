-------------------------- MODULE ReconcilerProofs --------------------------
(***************************************************************************)
(* Theorems about Reconciler, for every set of clusters, every placement   *)
(* of hosts and namespaces and every environment.                          *)
(***************************************************************************)
EXTENDS ReconcilerProperties, TLAPS

-----------------------------------------------------------------------------
(* Facts about the operators.                                              *)

\* A spec that validateSpec accepts has one primary, and primaryClusterName returns it.
LEMMA ValidPrimary ==
  ASSUME NEW s, validateSpec(s)
  PROVE  /\ primaryClusterName(s) \in Cluster
         /\ Primaries(s) = {primaryClusterName(s)}
<1>1. PICK p \in Cluster : Primaries(s) = {p}
  BY DEF validateSpec
<1>2. IsFirst(p, Primaries(s))
  BY <1>1, PositionAssumption DEF IsFirst
<1>3. \A c \in Cluster : IsFirst(c, Primaries(s)) => c = p
  BY <1>1 DEF IsFirst
<1>4. primaryClusterName(s) = CHOOSE c \in Cluster : IsFirst(c, Primaries(s))
  BY <1>1 DEF primaryClusterName
<1>5. primaryClusterName(s) = p
  BY <1>2, <1>3, <1>4
<1> QED
  BY <1>1, <1>5

\* The roll-up always returns one of the phases.
LEMMA AggregateType ==
  ASSUME NEW E, NEW R, NEW f \in BOOLEAN
  PROVE  Aggregate(E, R, f) \in Phase
<1>1. CASE f
  BY <1>1 DEF Aggregate, Phase
<1>2. CASE ~f /\ E = {}
  BY <1>2 DEF Aggregate, Phase
<1>3. CASE ~f /\ E # {}
  BY <1>3 DEF Aggregate, Phase
<1> QED
  BY <1>1, <1>2, <1>3

\* Every outcome of EnsurePrimaryAlias, an interrupted one included, is an alias.
LEMMA AliasType ==
  ASSUME NEW a \in Alias, NEW h \in Host
  PROVE  /\ EnsurePrimaryAlias(a, h) \in Alias
         /\ InterruptedAlias(a, h) \subseteq Alias
         /\ DeleteAlias(a) \in Alias
<1>1. HeadlessServiceOnly(a) \in Alias
  BY DEF HeadlessServiceOnly, Alias
<1>2. ensureHeadlessWithEndpoints(a, h) \in Alias
  BY <1>1 DEF ensureHeadlessWithEndpoints, Alias
<1>3. ensureExternalName(a, h) \in Alias
  BY DEF ensureExternalName, Alias
<1>4. EnsurePrimaryAlias(a, h) \in Alias
  BY <1>2, <1>3 DEF EnsurePrimaryAlias
<1>5. InterruptedAlias(a, h) \subseteq Alias
  BY <1>1, <1>4 DEF InterruptedAlias
<1>6. DeleteAlias(a) \in Alias
  BY DEF DeleteAlias, NoAlias, Alias, Host
<1> QED
  BY <1>4, <1>5, <1>6

\* The counter stays within its bound.
LEMMA BumpType ==
  ASSUME NEW n \in 0..Threshold
  PROVE  Bump(n) \in 0..Threshold
BY ThresholdAssumption DEF Bump

-----------------------------------------------------------------------------
(* Type correctness.                                                       *)

\* TypeOK with what its preservation rests on: the normal pass works on a spec that was
\* validated, and a failover that has a plan has a cluster to demote and one to promote.
TypeInv ==
  /\ TypeOK
  /\ pc \in NormalStage => validateSpec(mc.spec)
  /\ pc \in PlannedStage => newPrimary \in Cluster /\ OldPrimary \in Cluster

LEMMA TypeInit == Init => TypeInv
<1> SUFFICES ASSUME Init PROVE TypeInv
  OBVIOUS
<1>1. NoStatus \in StatusType
  BY ThresholdAssumption DEF NoStatus, StatusType, Phase
<1>2. NoMC \in PassType
  BY <1>1 DEF NoMC, PassType, NoSpec, SpecType
<1> QED
  BY <1>1, <1>2, SpecAssumption
     DEF Init, TypeInv, TypeOK, Stage, NormalStage, PlannedStage, NoPostgresql, NoAlias, Alias, Host

LEMMA TypeReturn ==
  ASSUME TypeInv, Return
  PROVE  /\ pc' \in Stage /\ mc' \in PassType /\ fresh' \in BOOLEAN
         /\ clients' \subseteq Cluster /\ todo' \subseteq Cluster
         /\ newPrimary' \in Cluster \cup {None}
         /\ pc' = "idle"
<1>1. NoStatus \in StatusType
  BY ThresholdAssumption DEF NoStatus, StatusType, Phase
<1>2. NoMC \in PassType
  BY <1>1 DEF NoMC, PassType, NoSpec, SpecType
<1> QED
  BY <1>2 DEF Return, Stage

LEMMA TypeStart ==
  ASSUME TypeInv, StartPass
  PROVE  TypeInv'
<1> USE DEF TypeInv, TypeOK
<1>1. CASE AddFinalizer
  BY <1>1 DEF AddFinalizer, workload, world, pass, OldPrimary
<1>2. CASE RejectSpec
  BY <1>2 DEF RejectSpec, workload, world, pass, OldPrimary, StatusType, Phase
<1>3. CASE StartFailover
  BY <1>3 DEF StartFailover, Read, object, workload, world, StatusType, Stage, PassType, ensureClusterStatusRoles, Targets, NormalStage, PlannedStage
<1>4. ASSUME StartReconcile \/ StartAutoFailover
      PROVE  StatusRead \in StatusType
  <2>1. FailureCount \in 0..Threshold
    BY BumpType, ThresholdAssumption DEF FailureCount, StatusType
  <2> QED
    BY <2>1 DEF StatusRead, StatusType, ensureClusterStatusRoles, Targets
<1>5. CASE StartReconcile
  BY <1>4, <1>5 DEF StartReconcile, Reconcilable, Read, object, workload, world, Stage, PassType, Reachable, Targets, NormalStage, PlannedStage
<1>6. CASE StartAutoFailover
  BY <1>4, <1>6 DEF StartAutoFailover, Read, object, workload, world, Stage, PassType, Reachable, Targets, NormalStage, PlannedStage
<1>7. CASE StartDeletion
  BY <1>7 DEF StartDeletion, Read, object, workload, world, Stage, PassType, Targets, NormalStage, PlannedStage
<1> QED
  BY <1>1, <1>2, <1>3, <1>5, <1>6, <1>7 DEF StartPass

LEMMA TypeNormal ==
  ASSUME TypeInv, NormalStep
  PROVE  TypeInv'
<1> USE DEF TypeInv, TypeOK
<1>1. pc \in NormalStage => SpecPrimary \in Cluster
  BY ValidPrimary DEF SpecPrimary
<1>2. ASSUME NEW c \in Cluster, EnsureService(c)
      PROVE  TypeInv'
  BY <1>2 DEF EnsureService, Ensure, Goto, object, world, StatusType, PassType, Stage, NormalStage, PlannedStage
<1>3. CASE reconcilePrimary
  BY <1>1, <1>3 DEF reconcilePrimary, Goto, GotoReady, Primary, object, world, StatusType, PassType, Stage, NormalStage, PlannedStage
<1>4. CASE CheckSecrets
  BY <1>1, <1>4 DEF CheckSecrets, Goto, GotoReady, object, world, workload, StatusType, PassType, Stage, NormalStage, PlannedStage
<1>5. CASE reconcileCredentials
  BY <1>5 DEF reconcileCredentials, SyncFromPrimary, Goto, ReachableStandbys, object, world, StatusType, PassType, Stage, NormalStage, PlannedStage
<1>6. ASSUME NEW c \in Cluster, reconcileStandby(c)
      PROVE  TypeInv'
  <2>1. pc = "standby" /\ SpecPrimary \in Cluster
    BY <1>1, <1>6 DEF reconcileStandby, NormalStage
  <2>2. alias' \in [Cluster -> Alias]
    <3>1. /\ EnsurePrimaryAlias(alias[c], SpecPrimary) \in Alias
          /\ InterruptedAlias(alias[c], SpecPrimary) \subseteq Alias
      BY <2>1, AliasType DEF Host
    <3> QED
      BY <3>1, <1>6 DEF reconcileStandby
  <2>3. StandbyOf(NamespaceOf[c]) \in [mode : {"absent", "primary", "standby"},
                                      from : Cluster \cup Namespace \cup {None}]
    BY NamespaceAssumption DEF StandbyOf
  <2>4. pg' \in [Cluster -> [mode : {"absent", "primary", "standby"},
                            from : Cluster \cup Namespace \cup {None}]]
    BY <2>3, <1>6 DEF reconcileStandby
  <2>5. mc' \in PassType /\ mc'.spec = mc.spec /\ todo' \subseteq Cluster /\ pc' = "standby"
        /\ UNCHANGED <<meta, spec, observed, status, svc, secrets, up, kubeconfig, settled,
                       fresh, clients, newPrimary>>
    BY <2>1, <1>6 DEF reconcileStandby, Goto, GotoReady, object, world, StatusType, PassType
  <2> QED
    BY <2>1, <2>2, <2>4, <2>5 DEF Stage, NormalStage, PlannedStage
<1>7. CASE UpdateStatus
  <2>1. SpecPrimary \in Cluster
    BY <1>1, <1>7 DEF UpdateStatus, PassDone, NormalStage
  <2>2. FinalPhase \in Phase
    BY AggregateType DEF FinalPhase, Phase
  <2>3. status' \in StatusType /\ observed' \in BOOLEAN
    BY <1>7, <2>1, <2>2 DEF UpdateStatus, StatusType, PassType
  <2> QED
    BY <1>7, <2>3, TypeReturn DEF UpdateStatus, workload, world, NormalStage, PlannedStage
<1> QED
  BY <1>2, <1>3, <1>4, <1>5, <1>6, <1>7 DEF NormalStep

\* The type of the postgresql resources survives Apply.
LEMMA TypeApply ==
  ASSUME TypeInv, NEW c \in Cluster \cup {None}, NEW s \in Stage \ NormalStage, NEW T \in SUBSET Cluster,
         NEW p \in [mode : {"absent", "primary", "standby"}, from : Cluster \cup Namespace \cup {None}],
         pc \in PlannedStage, Apply(c, p, s, T)
  PROVE  TypeInv'
<1> USE DEF TypeInv, TypeOK
<1>1. pg' \in [Cluster -> [mode : {"absent", "primary", "standby"},
                          from : Cluster \cup Namespace \cup {None}]]
  BY DEF Apply
<1>2. UNCHANGED <<meta, spec, observed, status, up, kubeconfig, settled, alias, svc, secrets>>
  BY DEF Apply, object, world
<1>3. CASE Return
  BY <1>1, <1>2, <1>3, TypeReturn DEF NormalStage, PlannedStage
<1>4. CASE Goto(s, T) /\ UNCHANGED mc
  BY <1>1, <1>2, <1>4 DEF Goto, OldPrimary, NormalStage, PlannedStage
<1> QED
  BY <1>3, <1>4 DEF Apply

LEMMA TypeFailover ==
  ASSUME TypeInv, FailoverStep
  PROVE  TypeInv'
<1> USE DEF TypeInv, TypeOK
<1> DEFINE Postgresql == [mode : {"absent", "primary", "standby"},
                          from : Cluster \cup Namespace \cup {None}]
<1>1. CASE FailoverBegin
  <2> DEFINE st == [mc.status EXCEPT !.phase = "FailingOver", !.failingOver = TRUE]
  <2>1. st \in StatusType
    BY DEF StatusType, PassType, Phase
  <2>2. /\ status' \in {st, status}
        /\ mc' \in {[spec |-> spec, status |-> st], [mc EXCEPT !.status = st]}
    BY <1>1 DEF FailoverBegin
  <2>3. mc' \in PassType /\ status' \in StatusType
    BY <2>1, <2>2 DEF PassType
  <2> QED
    BY <1>1, <2>3 DEF FailoverBegin, Goto, workload, world, Stage, NormalStage, PlannedStage
<1>2. CASE FailoverPlan
  BY <1>2 DEF FailoverPlan, Planned, Targets, OldPrimary, object, workload, world, Stage, NormalStage, PlannedStage
<1>3. CASE FailoverRefused
  BY <1>3, TypeReturn DEF FailoverRefused, object, workload, world, NormalStage, PlannedStage
<1>4. \A T \in SUBSET Cluster :
        pc \in PlannedStage => ToVisit(T) \in SUBSET Cluster /\ AfterRepoint(T) \in Stage \ NormalStage
  BY DEF Others, Targets, ToVisit, AfterRepoint, Stage, NormalStage
<1>5. CASE demoteCluster
  <2>1. StandbyOf(newPrimary) \in Postgresql
    BY DEF StandbyOf
  <2> QED
    BY <1>5, <2>1, TypeApply DEF demoteCluster, Stage, NormalStage, PlannedStage
<1>6. CASE promoteCluster
  <2>1. Primary \in Postgresql
    BY DEF Primary
  <2>2. Others \in SUBSET Cluster
    BY DEF Others, Targets
  <2> QED
    BY <1>4, <1>6, <2>1, <2>2, TypeApply DEF promoteCluster, PlannedStage
<1>7. ASSUME NEW c \in Cluster, repoint(c)
      PROVE  TypeInv'
  <2>1. newPrimary \in Cluster
    BY <1>7 DEF repoint, PlannedStage
  <2>2. StandbyOf(NamespaceOf[newPrimary]) \in Postgresql
    BY <2>1, NamespaceAssumption DEF StandbyOf
  <2> QED
    BY <1>4, <1>7, <2>2, TypeApply DEF repoint, PlannedStage
<1>8. ASSUME NEW c \in Cluster, UpdateAlias(c)
      PROVE  TypeInv'
  <2>1. /\ EnsurePrimaryAlias(alias[c], newPrimary) \in Alias
        /\ InterruptedAlias(alias[c], newPrimary) \subseteq Alias
    BY AliasType DEF Host
  <2>2. alias' \in [Cluster -> Alias]
    BY <1>8, <2>1 DEF UpdateAlias
  <2>3. UNCHANGED <<meta, spec, observed, status, up, kubeconfig, settled, pg, svc, secrets>>
    BY <1>8 DEF UpdateAlias, object, world
  <2>4. CASE Return
    BY <2>2, <2>3, <2>4, TypeReturn DEF NormalStage, PlannedStage
  <2>5. CASE pc = "alias" /\ Goto("alias", todo \ {c}) /\ UNCHANGED mc
    BY <2>2, <2>3, <2>5 DEF Goto, OldPrimary, Stage, NormalStage, PlannedStage
  <2> QED
    BY <1>8, <2>4, <2>5 DEF UpdateAlias
<1>9. CASE FailoverCommit
  <2>1. status' \in StatusType
    BY <1>9 DEF FailoverCommit, StatusType, Phase
  <2> QED
    BY <1>9, <2>1, TypeReturn DEF FailoverCommit, workload, world, NormalStage, PlannedStage
<1> QED
  BY <1>1, <1>2, <1>3, <1>5, <1>6, <1>7, <1>8, <1>9 DEF FailoverStep

LEMMA TypeAutoFailover ==
  ASSUME TypeInv, AutoFailoverStep
  PROVE  TypeInv'
<1> USE DEF TypeInv, TypeOK
<1>1. mc.status \in StatusType /\ mc.spec \in SpecType
  BY DEF PassType
<1>2. CASE AutoFailoverWaits
  BY <1>1, <1>2, TypeReturn DEF AutoFailoverWaits, workload, world, NormalStage, PlannedStage
<1>3. CASE PatchSpec
  <2>1. spec' \in SpecType
    BY <1>1, <1>3 DEF PatchSpec, PromoteInSpec, RewriteRoles, SpecType
  <2>2. CASE Return /\ observed' \in {observed, FALSE}
    BY <1>3, <2>1, <2>2, TypeReturn DEF PatchSpec, workload, world, NormalStage, PlannedStage
  <2>3. CASE Goto("autoStatus", {}) /\ mc' = [mc EXCEPT !.status.failures = 0] /\ observed' = FALSE
    <3>1. mc' \in PassType
      BY <2>3, ThresholdAssumption DEF StatusType, PassType
    <3> QED
      BY <1>3, <2>1, <2>3, <3>1
         DEF PatchSpec, Goto, workload, world, Stage, NormalStage, PlannedStage
  <2> QED
    BY <1>3, <2>2, <2>3 DEF PatchSpec, PromoteInSpec
<1>4. CASE ResetFailureCount
  BY <1>1, <1>4, TypeReturn DEF ResetFailureCount, workload, world, NormalStage, PlannedStage
<1> QED
  BY <1>2, <1>3, <1>4 DEF AutoFailoverStep

LEMMA TypeDeletion ==
  ASSUME TypeInv, DeletionStep
  PROVE  TypeInv'
<1> USE DEF TypeInv, TypeOK
<1>1. CASE RemoveFinalizer
  BY <1>1, TypeReturn DEF RemoveFinalizer, workload, world, NormalStage, PlannedStage
<1>2. ASSUME NEW c \in Cluster, DeleteTarget(c)
      PROVE  TypeInv'
  <2>1. AliasRemoved(c) \in [Cluster -> Alias]
    BY AliasType DEF AliasRemoved, DeleteAlias, NoAlias, Alias, Host
  <2>2. /\ pg' \in [Cluster -> [mode : {"absent", "primary", "standby"},
                               from : Cluster \cup Namespace \cup {None}]]
        /\ alias' \in [Cluster -> Alias]
        /\ svc' \subseteq Cluster
    BY <1>2, <2>1 DEF DeleteTarget, NoPostgresql
  <2>3. UNCHANGED <<meta, spec, observed, status, up, kubeconfig, settled, secrets>>
    BY <1>2 DEF DeleteTarget, object, world
  <2>4. CASE Return
    BY <2>2, <2>3, <2>4, TypeReturn DEF NormalStage, PlannedStage
  <2>5. CASE Goto("delete", todo \ {c}) /\ UNCHANGED mc
    BY <2>2, <2>3, <2>5 DEF Goto, Stage, NormalStage, PlannedStage
  <2> QED
    BY <1>2, <2>4, <2>5 DEF DeleteTarget
<1> QED
  BY <1>1, <1>2 DEF DeletionStep

LEMMA TypeEnvironment ==
  ASSUME TypeInv, ZalandoStep \/ EnvironmentStep
  PROVE  TypeInv'
<1> USE DEF TypeInv, TypeOK
<1>1. CASE ZalandoStep
  BY <1>1 DEF ZalandoStep, ZalandoSecrets, object, world, pass, OldPrimary
<1>2. CASE Crash
  BY <1>2, TypeReturn DEF Crash, object, workload, world, NormalStage, PlannedStage
<1>3. CASE UserEdit
  BY <1>3, SpecAssumption DEF UserEdit, workload, world, OldPrimary
<1>4. CASE UserDelete
  BY <1>4 DEF UserDelete, workload, world, pass, OldPrimary
<1>5. CASE Settle
  BY <1>5 DEF Settle, object, workload, pass, OldPrimary
<1>6. ASSUME NEW c \in Cluster, Outage(c) \/ Recover(c) \/ KubeconfigLost(c) \/ KubeconfigRestored(c)
      PROVE  TypeInv'
  BY <1>6 DEF Outage, Recover, KubeconfigLost, KubeconfigRestored, object, workload, pass, OldPrimary
<1> QED
  BY <1>1, <1>2, <1>3, <1>4, <1>5, <1>6 DEF EnvironmentStep

\* Every step, and every stutter, preserves the strengthened type invariant.
LEMMA TypeStep == TypeInv /\ [Next]_vars => TypeInv'
<1>1. CASE UNCHANGED vars
  BY <1>1 DEF vars, TypeInv, TypeOK, OldPrimary
<1> QED
  BY <1>1, TypeStart, TypeNormal, TypeFailover, TypeAutoFailover, TypeDeletion, TypeEnvironment
     DEF Next, OperatorStep

\* Type correctness of the reconciler for every set of clusters and every environment.
THEOREM TypeInvariance == Spec => []TypeInv
<1> QED
  BY TypeInit, TypeStep, PTL DEF Spec

THEOREM TypeCorrect == Spec => []TypeOK
<1>1. TypeInv => TypeOK
  BY DEF TypeInv
<1> QED
  BY <1>1, TypeInvariance, PTL

-----------------------------------------------------------------------------
(* No split brain, for users who wait for a failover before the next edit  *)
(* and a threshold that takes more than one miss.                          *)

\* No cluster becomes writable but, possibly, p.
Adds(p) == \A d \in Cluster : pg'[d].mode = "primary" => pg[d].mode = "primary" \/ d = p

\* No cluster becomes writable.
Shrinks == \A d \in Cluster : pg'[d].mode = "primary" => pg[d].mode = "primary"

LEMMA SwitchInit == Init => SwitchInv
<1> SUFFICES ASSUME Init PROVE SwitchInv
  OBVIOUS
<1>1. pc = "idle" /\ status.failures = 0 /\ status.currentPrimary = None
  BY DEF Init, NoStatus
<1>2. \A d \in Cluster : pg[d].mode # "primary"
  BY DEF Init, NoPostgresql
<1>3. ObjectInv
  BY <1>1, <1>2 DEF ObjectInv
<1>4. CopyInv /\ PlanInv
  BY <1>1 DEF CopyInv, PlanInv, NormalStage, AutoStage, FailoverStage
<1> QED
  BY <1>3, <1>4 DEF SwitchInv

\* ObjectInv survives a step that moves neither the roles nor the record of the primary.
LEMMA ObjectFrame ==
  ASSUME ObjectInv, Shrinks, UNCHANGED spec,
         status'.currentPrimary = status.currentPrimary,
         status'.failures = status.failures \/ status'.failures = 0 \/ status.currentPrimary # None
  PROVE  ObjectInv'
<1>1. (status.failures > 0 => status.currentPrimary # None)'
  BY DEF ObjectInv
<1>2. (status.currentPrimary = None =>
         \A d \in Cluster : pg[d].mode = "primary" => Primaries(spec) = {d})'
  BY DEF ObjectInv, Shrinks
<1>3. \A c : OnlyPrimary(pg, c) => OnlyPrimary(pg', c)
  BY DEF Shrinks, OnlyPrimary
<1>4. (status.currentPrimary # None =>
         \/ OnlyPrimary(pg, status.currentPrimary)
         \/ validateSpec(spec) /\ OnlyPrimary(pg, primaryClusterName(spec)))'
  BY <1>3 DEF ObjectInv
<1> QED
  BY <1>1, <1>2, <1>4 DEF ObjectInv

\* A pass that returns leaves only ObjectInv to show.
LEMMA ReturnFrame ==
  ASSUME ObjectInv', Return
  PROVE  SwitchInv'
BY DEF SwitchInv, CopyInv, PlanInv, Return, NormalStage, AutoStage, FailoverStage

\* A step of the normal pass makes no cluster writable but the primary of its copy.
LEMMA NormalFrame ==
  ASSUME SwitchInv, pc \in NormalStage, Adds(SpecPrimary), UNCHANGED <<spec, status>>
  PROVE  /\ ObjectInv'
         /\ OnlyPrimary(pg', SpecPrimary)
<1>1. validateSpec(mc.spec) /\ OnlyPrimary(pg, SpecPrimary)
      /\ status.currentPrimary \in {None, SpecPrimary}
      /\ (status.currentPrimary = None => spec = mc.spec)
  BY DEF SwitchInv, CopyInv, SpecPrimary
<1>2. OnlyPrimary(pg', SpecPrimary)
  BY <1>1 DEF OnlyPrimary, Adds
<1>3. Primaries(mc.spec) = {SpecPrimary}
  BY <1>1, ValidPrimary DEF SpecPrimary
<1>4. ASSUME status.currentPrimary = None, NEW d \in Cluster, pg'[d].mode = "primary"
      PROVE  Primaries(spec) = {d}
  BY <1>1, <1>2, <1>3, <1>4 DEF OnlyPrimary
<1> QED
  BY <1>1, <1>2, <1>4 DEF ObjectInv, SwitchInv

\* The normal pass goes on with the copy it has.
LEMMA NormalGoesOn ==
  ASSUME SwitchInv, pc \in NormalStage, Adds(SpecPrimary), UNCHANGED <<spec, status>>,
         pc' \in NormalStage, mc'.spec = mc.spec,
         mc'.status.currentPrimary = mc.status.currentPrimary
  PROVE  SwitchInv'
<1>1. ObjectInv' /\ OnlyPrimary(pg', SpecPrimary)
  BY NormalFrame
<1>2. CopyInv'
  BY <1>1 DEF SwitchInv, CopyInv, SpecPrimary
<1>3. PlanInv'
  BY DEF PlanInv, NormalStage, FailoverStage
<1> QED
  BY <1>1, <1>2, <1>3 DEF SwitchInv

\* An auto-failover waits for a second miss, so that a primary is on record when it comes.
SafeThreshold == AutoFailover => Threshold >= 2

LEMMA SwitchStart ==
  ASSUME TypeInv, SwitchInv, StartPass, SafeThreshold
  PROVE  SwitchInv'
<1> USE DEF TypeInv, TypeOK
<1>1. CASE AddFinalizer
  BY <1>1 DEF AddFinalizer, workload, world, pass, SwitchInv, ObjectInv, CopyInv, PlanInv
<1>2. CASE RejectSpec
  BY <1>2 DEF RejectSpec, Idle, workload, world, pass, SwitchInv, ObjectInv, CopyInv, PlanInv,
              StatusType, NormalStage, AutoStage, FailoverStage
<1>3. CASE StartFailover
  <2>1. UNCHANGED <<spec, status, pg>> /\ pc' = "begin" /\ mc'.spec = spec
        /\ mc'.status.currentPrimary = status.currentPrimary
        /\ validateSpec(spec)
        /\ status.currentPrimary # None /\ status.currentPrimary # primaryClusterName(spec)
    BY <1>3 DEF StartFailover, Reconcilable, Read, FailoverPending, object, workload, StatusType
  <2>2. ObjectInv'
    BY <2>1 DEF SwitchInv, ObjectInv, OnlyPrimary
  <2> QED
    BY <2>1, <2>2 DEF SwitchInv, CopyInv, PlanInv, NormalStage, AutoStage, FailoverStage, PlannedStage
<1>4. ASSUME StartReconcile \/ StartAutoFailover
      PROVE  SwitchInv'
  <2>0. StatusRead.currentPrimary = status.currentPrimary
    BY DEF StatusRead, StatusType
  <2>1. UNCHANGED <<spec, status, pg>> /\ pc' \in {"ensure", "auto"} /\ mc'.spec = spec
        /\ mc'.status.currentPrimary = status.currentPrimary
        /\ validateSpec(spec)
        /\ status.currentPrimary \in {None, primaryClusterName(spec)}
    BY <1>4, <2>0 DEF StartReconcile, StartAutoFailover, Reconcilable, Read, FailoverPending, object, workload
  <2>2. OnlyPrimary(pg, primaryClusterName(spec))
    <3>1. Primaries(spec) = {primaryClusterName(spec)}
      BY <2>1, ValidPrimary
    <3> QED
      BY <2>1, <3>1 DEF SwitchInv, ObjectInv, OnlyPrimary
  <2>3. StartAutoFailover => status.currentPrimary # None
    <3>1. StartAutoFailover => AutoFailover /\ Bump(status.failures) >= Threshold
      BY DEF StartAutoFailover, AutoFailoverDue, FailureCount
    <3>2. status.failures \in 0..Threshold
      BY DEF StatusType
    <3>3. StartAutoFailover => status.failures > 0
      BY <3>1, <3>2, ThresholdAssumption, SafeThreshold DEF SafeThreshold, Bump
    <3> QED
      BY <3>3 DEF SwitchInv, ObjectInv
  <2>4. StartReconcile => pc' \in NormalStage
    BY DEF StartReconcile, Read, NormalStage
  <2>5. CopyInv'
    BY <1>4, <2>1, <2>2, <2>3, <2>4 DEF CopyInv
  <2>6. ObjectInv'
    BY <2>1 DEF SwitchInv, ObjectInv, OnlyPrimary
  <2> QED
    BY <2>1, <2>5, <2>6 DEF SwitchInv, PlanInv, FailoverStage
<1>5. CASE StartDeletion
  <2>1. UNCHANGED <<spec, status, pg>> /\ pc' = "delete"
    BY <1>5 DEF StartDeletion, Read, object, workload
  <2>2. ObjectInv'
    BY <2>1 DEF SwitchInv, ObjectInv, OnlyPrimary
  <2> QED
    BY <2>1, <2>2 DEF SwitchInv, CopyInv, PlanInv, NormalStage, AutoStage, FailoverStage
<1> QED
  BY <1>1, <1>2, <1>3, <1>4, <1>5 DEF StartPass

LEMMA SwitchNormal ==
  ASSUME TypeInv, SwitchInv, NormalStep
  PROVE  SwitchInv'
<1> USE DEF TypeInv, TypeOK
<1>1. ASSUME NEW c \in Cluster, EnsureService(c)
      PROVE  SwitchInv'
  <2>1. /\ UNCHANGED <<spec, status, pg>> /\ pc = "ensure" /\ pc' = "ensure"
        /\ mc'.spec = mc.spec /\ mc'.status.currentPrimary = mc.status.currentPrimary
    BY <1>1 DEF EnsureService, Goto, object, PassType, StatusType
  <2> QED
    BY <2>1, NormalGoesOn DEF Adds, NormalStage
<1>2. CASE reconcilePrimary
  <2>1. /\ UNCHANGED <<spec, status>> /\ pc = "ensure" /\ pc' \in {"secrets", "standby"}
        /\ mc'.spec = mc.spec /\ mc'.status.currentPrimary = mc.status.currentPrimary
    BY <1>2 DEF reconcilePrimary, Goto, GotoReady, object, PassType, StatusType
  <2>2. Adds(SpecPrimary)
    BY <1>2 DEF reconcilePrimary, Adds
  <2> QED
    BY <2>1, <2>2, NormalGoesOn DEF NormalStage
<1>3. CASE CheckSecrets
  <2>1. /\ UNCHANGED <<spec, status, pg>> /\ pc = "secrets" /\ pc' \in {"creds", "standby"}
        /\ mc'.spec = mc.spec /\ mc'.status.currentPrimary = mc.status.currentPrimary
    BY <1>3 DEF CheckSecrets, Goto, GotoReady, object, workload, PassType, StatusType
  <2> QED
    BY <2>1, NormalGoesOn DEF Adds, NormalStage
<1>4. CASE reconcileCredentials
  <2>1. UNCHANGED <<spec, status, pg, mc>> /\ pc = "creds" /\ pc' = "standby"
    BY <1>4 DEF reconcileCredentials, Goto, object
  <2> QED
    BY <2>1, NormalGoesOn DEF Adds, NormalStage
<1>5. ASSUME NEW c \in Cluster, reconcileStandby(c)
      PROVE  SwitchInv'
  <2>1. /\ UNCHANGED <<spec, status>> /\ pc = "standby" /\ pc' = "standby"
        /\ mc'.spec = mc.spec /\ mc'.status.currentPrimary = mc.status.currentPrimary
    BY <1>5 DEF reconcileStandby, Goto, GotoReady, object, PassType, StatusType
  <2>2. pg' \in {pg, [pg EXCEPT ![c] = StandbyOf(NamespaceOf[c])]}
    BY <1>5 DEF reconcileStandby
  <2>3. Adds(SpecPrimary)
    BY <2>2 DEF Adds, StandbyOf
  <2> QED
    BY <2>1, <2>3, NormalGoesOn DEF NormalStage
<1>6. CASE UpdateStatus
  <2>1. UNCHANGED <<spec, pg>> /\ Return /\ pc \in NormalStage
    BY <1>6 DEF UpdateStatus, PassDone, workload, NormalStage
  <2>2. CASE UNCHANGED status
    <3>1. ObjectInv'
      BY <2>1, <2>2, NormalFrame DEF Adds
    <3> QED
      BY <2>1, <3>1, ReturnFrame
  <2>3. CASE status' = [mc.status EXCEPT !.currentPrimary = SpecPrimary, !.phase = FinalPhase]
    <3>1. SpecPrimary \in Cluster
      BY <2>1, ValidPrimary DEF SpecPrimary
    <3>2. status'.currentPrimary = SpecPrimary
      BY <2>3 DEF PassType, StatusType
    <3>3. OnlyPrimary(pg, SpecPrimary)
      BY <2>1 DEF SwitchInv, CopyInv, SpecPrimary
    <3>4. ObjectInv'
      BY <2>1, <3>1, <3>2, <3>3, NoneAssumption DEF ObjectInv, OnlyPrimary
    <3> QED
      BY <2>1, <3>4, ReturnFrame
  <2> QED
    BY <1>6, <2>2, <2>3 DEF UpdateStatus
<1> QED
  BY <1>1, <1>2, <1>3, <1>4, <1>5, <1>6 DEF NormalStep

LEMMA SwitchFailover ==
  ASSUME TypeInv, SwitchInv, FailoverStep
  PROVE  SwitchInv'
<1> USE DEF TypeInv, TypeOK
<1>1. pc \in FailoverStage
  BY DEF FailoverStep, FailoverBegin, FailoverPlan, FailoverRefused, demoteCluster, promoteCluster,
         FailoverCommit, repoint, UpdateAlias, FailoverStage
<1>2. /\ mc.spec = spec /\ validateSpec(spec)
      /\ OldPrimary = status.currentPrimary
      /\ status.currentPrimary # None
      /\ status.currentPrimary # primaryClusterName(spec)
  BY <1>1 DEF SwitchInv, PlanInv, OldPrimary
<1>3. Primaries(spec) = {primaryClusterName(spec)}
  BY <1>2, ValidPrimary
\* A step that makes no cluster writable and leaves the record alone.
<1>4. ASSUME Return, Shrinks, UNCHANGED <<spec, status>>
      PROVE  SwitchInv'
  <2>1. ObjectInv'
    BY <1>4, ObjectFrame DEF SwitchInv
  <2> QED
    BY <1>4, <2>1, ReturnFrame
<1>5. ASSUME Shrinks, UNCHANGED <<spec, status, mc, newPrimary>>, pc \in PlannedStage,
             pc' \in {"repoint", "alias"}, pc # "demote"
      PROVE  SwitchInv'
  <2>1. ObjectInv'
    BY <1>5, ObjectFrame DEF SwitchInv
  <2>2. PlanInv'
    BY <1>5 DEF SwitchInv, PlanInv, FailoverStage, PlannedStage, OnlyPrimary, Shrinks
  <2> QED
    BY <1>5, <2>1, <2>2 DEF SwitchInv, CopyInv, NormalStage, AutoStage
<1>6. CASE FailoverBegin
  <2>1. /\ UNCHANGED <<spec, pg>> /\ pc' = "plan" /\ mc'.spec = spec
        /\ mc'.status.currentPrimary = status.currentPrimary
        /\ status'.currentPrimary = status.currentPrimary
    <3> DEFINE st == [mc.status EXCEPT !.phase = "FailingOver", !.failingOver = TRUE]
    <3>1. st.currentPrimary = status.currentPrimary
      BY <1>2 DEF OldPrimary, PassType, StatusType
    <3>2. /\ status' \in {st, status}
          /\ mc' \in {[spec |-> spec, status |-> st], [mc EXCEPT !.status = st]}
      BY <1>6 DEF FailoverBegin
    <3>3. mc'.spec = spec /\ mc'.status = st
      BY <1>2, <3>2 DEF PassType
    <3> QED
      BY <1>6, <3>1, <3>2, <3>3 DEF FailoverBegin, Goto, workload
  <2>2. ObjectInv'
    BY <1>2, <2>1, ObjectFrame DEF SwitchInv, Shrinks
  <2> QED
    BY <1>2, <2>1, <2>2
       DEF SwitchInv, CopyInv, PlanInv, NormalStage, AutoStage, FailoverStage, PlannedStage
<1>7. CASE FailoverPlan
  <2>1. UNCHANGED <<spec, status, pg, mc>> /\ pc' = "demote"
    BY <1>7 DEF FailoverPlan, object, workload
  <2>2. newPrimary' = primaryClusterName(spec)
    BY <1>2, <1>3, <1>7 DEF FailoverPlan, Planned, IsLast
  <2>3. ObjectInv'
    BY <2>1, ObjectFrame DEF SwitchInv, Shrinks
  <2> QED
    BY <1>2, <2>1, <2>2, <2>3
       DEF SwitchInv, CopyInv, PlanInv, OldPrimary, NormalStage, AutoStage, FailoverStage, PlannedStage
<1>8. CASE FailoverRefused
  BY <1>4, <1>8 DEF FailoverRefused, Shrinks, object, workload
<1>9. CASE demoteCluster
  <2>1. /\ pc = "demote" /\ newPrimary = primaryClusterName(spec)
        /\ UNCHANGED <<spec, status>>
        /\ pg' \in {pg, [pg EXCEPT ![OldPrimary] = StandbyOf(newPrimary)]}
    BY <1>9 DEF demoteCluster, Apply, object, SwitchInv, PlanInv, FailoverStage, PlannedStage
  <2>2. Shrinks
    BY <2>1 DEF Shrinks, StandbyOf
  <2>3. CASE Return
    BY <1>4, <2>1, <2>2, <2>3
  <2>4. CASE /\ pg' = [pg EXCEPT ![OldPrimary] = StandbyOf(newPrimary)]
             /\ Goto("promote", {}) /\ UNCHANGED mc
    <3>1. ObjectInv'
      BY <2>1, <2>2, ObjectFrame DEF SwitchInv
    <3>2. pg'[OldPrimary].mode = "standby"
      BY <2>1, <2>4 DEF StandbyOf, PlannedStage
    <3>3. OnlyPrimary(pg, OldPrimary) \/ OnlyPrimary(pg, newPrimary)
      BY <1>2, <2>1 DEF SwitchInv, ObjectInv
    <3>4. OnlyPrimary(pg', newPrimary)
      BY <2>2, <3>2, <3>3 DEF OnlyPrimary, Shrinks
    <3> QED
      BY <1>2, <2>1, <2>4, <3>1, <3>4
         DEF SwitchInv, CopyInv, PlanInv, Goto, OldPrimary, NormalStage, AutoStage, FailoverStage, PlannedStage
  <2> QED
    BY <1>9, <2>3, <2>4 DEF demoteCluster, Apply
<1>10. CASE promoteCluster
  <2>1. /\ pc = "promote" /\ newPrimary = primaryClusterName(spec)
        /\ OnlyPrimary(pg, newPrimary)
        /\ UNCHANGED <<spec, status>>
        /\ pg' \in {pg, [pg EXCEPT ![newPrimary] = Primary]}
    BY <1>10 DEF promoteCluster, Apply, object, SwitchInv, PlanInv, FailoverStage, PlannedStage
  <2>2. OnlyPrimary(pg', newPrimary)
    BY <2>1 DEF OnlyPrimary
  <2>3. ObjectInv'
    BY <1>2, <2>1, <2>2 DEF SwitchInv, ObjectInv
  <2>4. CASE Return
    BY <2>3, <2>4, ReturnFrame
  <2>5. CASE Goto(AfterRepoint(Others), ToVisit(Others)) /\ UNCHANGED mc
    BY <1>2, <2>1, <2>2, <2>3, <2>5
       DEF SwitchInv, CopyInv, PlanInv, Goto, AfterRepoint, OldPrimary,
           NormalStage, AutoStage, FailoverStage, PlannedStage
  <2> QED
    BY <1>10, <2>4, <2>5 DEF promoteCluster, Apply
<1>11. ASSUME NEW c \in Cluster, repoint(c)
       PROVE  SwitchInv'
  <2>1. /\ pc = "repoint" /\ UNCHANGED <<spec, status>>
        /\ pg' \in {pg, [pg EXCEPT ![c] = StandbyOf(NamespaceOf[newPrimary])]}
    BY <1>11 DEF repoint, Apply, object
  <2>2. Shrinks
    BY <2>1 DEF Shrinks, StandbyOf
  <2>3. CASE Return
    BY <1>4, <2>1, <2>2, <2>3
  <2>4. CASE Goto(AfterRepoint(todo \ {c}), ToVisit(todo \ {c})) /\ UNCHANGED mc
    BY <1>5, <2>1, <2>2, <2>4 DEF Goto, AfterRepoint, PlannedStage
  <2> QED
    BY <1>11, <2>3, <2>4 DEF repoint, Apply
<1>12. ASSUME NEW c \in Cluster, UpdateAlias(c)
       PROVE  SwitchInv'
  <2>1. pc = "alias" /\ UNCHANGED <<spec, status, pg>> /\ Shrinks
    BY <1>12 DEF UpdateAlias, object, Shrinks
  <2>2. CASE Return
    BY <1>4, <2>1, <2>2
  <2>3. CASE Goto("alias", todo \ {c}) /\ UNCHANGED mc
    BY <1>5, <2>1, <2>3 DEF Goto, PlannedStage
  <2> QED
    BY <1>12, <2>2, <2>3 DEF UpdateAlias
<1>13. CASE FailoverCommit
  <2>1. UNCHANGED <<spec, pg>> /\ Return /\ pc = "alias" /\ Shrinks
    BY <1>13 DEF FailoverCommit, workload, Shrinks
  <2>2. newPrimary \in Cluster /\ OnlyPrimary(pg, newPrimary)
    BY <2>1 DEF SwitchInv, PlanInv, FailoverStage, PlannedStage
  <2>3. CASE UNCHANGED status
    BY <1>4, <2>1, <2>3
  <2>4. CASE status'.currentPrimary = newPrimary
    <3>1. ObjectInv'
      BY <2>1, <2>2, <2>4, NoneAssumption DEF ObjectInv, OnlyPrimary
    <3> QED
      BY <2>1, <3>1, ReturnFrame
  <2> QED
    BY <1>13, <2>3, <2>4 DEF FailoverCommit, StatusType
<1> QED
  BY <1>6, <1>7, <1>8, <1>9, <1>10, <1>11, <1>12, <1>13 DEF FailoverStep

LEMMA SwitchAutoFailover ==
  ASSUME TypeInv, SwitchInv, AutoFailoverStep
  PROVE  SwitchInv'
<1> USE DEF TypeInv, TypeOK
<1>1. pc \in AutoStage
  BY DEF AutoFailoverStep, AutoFailoverWaits, PatchSpec, ResetFailureCount, AutoStage
<1>2. /\ validateSpec(mc.spec) /\ OnlyPrimary(pg, SpecPrimary)
      /\ mc.status.currentPrimary = status.currentPrimary
      /\ status.currentPrimary = SpecPrimary /\ SpecPrimary # None
  <2>1. validateSpec(mc.spec) /\ OnlyPrimary(pg, SpecPrimary)
        /\ mc.status.currentPrimary = status.currentPrimary
        /\ status.currentPrimary \in {None, SpecPrimary}
        /\ status.currentPrimary # None
    BY <1>1 DEF SwitchInv, CopyInv, SpecPrimary, AutoStage, NormalStage
  <2> QED
    BY <2>1
<1>3. ASSUME Return, UNCHANGED <<spec, pg>>, status' \in {status, mc.status}
      PROVE  SwitchInv'
  <2>1. ObjectInv'
    BY <1>2, <1>3, ObjectFrame DEF SwitchInv, Shrinks
  <2> QED
    BY <1>3, <2>1, ReturnFrame
<1>4. CASE AutoFailoverWaits
  BY <1>3, <1>4 DEF AutoFailoverWaits, workload
<1>5. CASE ResetFailureCount
  BY <1>3, <1>5 DEF ResetFailureCount, workload
<1>6. CASE PatchSpec
  <2>1. UNCHANGED <<status, pg>>
    BY <1>6 DEF PatchSpec, workload
  <2>2. CASE Return
    <3>1. ObjectInv'
      BY <1>2, <2>1 DEF SwitchInv, ObjectInv
    <3> QED
      BY <2>2, <3>1, ReturnFrame
  <2>3. CASE Goto("autoStatus", {}) /\ mc' = [mc EXCEPT !.status.failures = 0]
    <3>1. mc'.spec = mc.spec /\ mc'.status.currentPrimary = mc.status.currentPrimary /\ pc' = "autoStatus"
      BY <2>3 DEF Goto, PassType, StatusType
    <3>2. ObjectInv'
      BY <1>2, <2>1 DEF ObjectInv
    <3>3. CopyInv'
      BY <1>2, <2>1, <3>1 DEF CopyInv, SpecPrimary
    <3> QED
      BY <3>1, <3>2, <3>3 DEF SwitchInv, PlanInv, FailoverStage
  <2> QED
    BY <1>6, <2>2, <2>3 DEF PatchSpec
<1> QED
  BY <1>4, <1>5, <1>6 DEF AutoFailoverStep

LEMMA SwitchDeletion ==
  ASSUME TypeInv, SwitchInv, DeletionStep
  PROVE  SwitchInv'
<1> USE DEF TypeInv, TypeOK
<1>1. UNCHANGED <<spec, status>> /\ Shrinks /\ pc' \in {"idle", "delete"}
  <2>1. CASE RemoveFinalizer
    BY <2>1 DEF RemoveFinalizer, Return, workload, Shrinks
  <2>2. ASSUME NEW c \in Cluster, DeleteTarget(c)
        PROVE  UNCHANGED <<spec, status>> /\ Shrinks /\ pc' \in {"idle", "delete"}
    <3>1. UNCHANGED <<spec, status>> /\ pc' \in {"idle", "delete"}
      BY <2>2 DEF DeleteTarget, Return, Goto, object
    <3>2. pg' \in {pg, [pg EXCEPT ![c] = NoPostgresql]}
      BY <2>2 DEF DeleteTarget
    <3> QED
      BY <3>1, <3>2 DEF Shrinks, NoPostgresql
  <2> QED
    BY <2>1, <2>2 DEF DeletionStep
<1>2. ObjectInv'
  BY <1>1, ObjectFrame DEF SwitchInv
<1> QED
  BY <1>1, <1>2 DEF SwitchInv, CopyInv, PlanInv, NormalStage, AutoStage, FailoverStage

LEMMA SwitchEnvironment ==
  ASSUME TypeInv, SwitchInv, ZalandoStep \/ EnvironmentStep, PatientUser
  PROVE  SwitchInv'
<1> USE DEF TypeInv, TypeOK
<1>1. ASSUME UNCHANGED <<spec, status, pg, pc, mc, newPrimary>>
      PROVE  SwitchInv'
  BY <1>1 DEF SwitchInv, ObjectInv, CopyInv, PlanInv, OnlyPrimary
<1>2. CASE ZalandoStep
  BY <1>1, <1>2 DEF ZalandoStep, ZalandoSecrets, object, pass
<1>3. CASE Crash
  <2>1. ObjectInv'
    BY <1>3, ObjectFrame DEF Crash, object, workload, Shrinks, SwitchInv
  <2> QED
    BY <1>3, <2>1, ReturnFrame DEF Crash
<1>4. CASE UserDelete
  BY <1>1, <1>4 DEF UserDelete, workload, pass
<1>5. CASE Settle
  BY <1>1, <1>5 DEF Settle, object, workload, pass
<1>6. ASSUME NEW c \in Cluster, Outage(c) \/ Recover(c) \/ KubeconfigLost(c) \/ KubeconfigRestored(c)
      PROVE  SwitchInv'
  BY <1>1, <1>6 DEF Outage, Recover, KubeconfigLost, KubeconfigRestored, object, workload, pass
<1>7. CASE UserEdit
  <2>1. UNCHANGED <<status, pg, pc, mc, newPrimary>>
    BY <1>7 DEF UserEdit, workload
  <2>2. \/ ~validateSpec(spec)
        \/ status.currentPrimary # None /\ status.currentPrimary = primaryClusterName(spec)
    BY <1>7, PatientUser DEF UserEdit, MayEdit, FailoverPending
  \* no failover pass is in flight
  <2>3. pc \notin FailoverStage
    BY <2>2 DEF SwitchInv, PlanInv
  \* a pass over an object without a recorded primary holds the very spec
  <2>4. pc \in NormalStage \cup AutoStage => status.currentPrimary # None
    BY <2>2 DEF SwitchInv, CopyInv
  <2>5. CopyInv'
    BY <2>1, <2>4 DEF SwitchInv, CopyInv
  <2>6. ObjectInv'
    <3>1. CASE status.currentPrimary = None
      <4>1. \A d \in Cluster : pg[d].mode # "primary"
        BY <2>2, <3>1 DEF SwitchInv, ObjectInv, validateSpec
      <4> QED
        BY <2>1, <3>1, <4>1 DEF SwitchInv, ObjectInv
    <3>2. CASE status.currentPrimary # None
      <4>1. OnlyPrimary(pg, status.currentPrimary)
        BY <2>2, <3>2 DEF SwitchInv, ObjectInv
      <4> QED
        BY <2>1, <3>2, <4>1 DEF ObjectInv
    <3> QED
      BY <3>1, <3>2
  <2> QED
    BY <2>1, <2>3, <2>5, <2>6 DEF SwitchInv, PlanInv
<1> QED
  BY <1>2, <1>3, <1>4, <1>5, <1>6, <1>7 DEF EnvironmentStep

\* What SwitchInv says of the recorded primary and the spec leaves room for one writable cluster.
LEMMA SwitchMeansOne == SwitchInv => NoSplitBrain
<1> SUFFICES ASSUME SwitchInv, NEW c \in Writable, NEW d \in Writable
             PROVE  c = d
  BY DEF NoSplitBrain
<1>1. CASE status.currentPrimary = None
  BY <1>1 DEF SwitchInv, ObjectInv, Writable
<1>2. CASE status.currentPrimary # None
  BY <1>2 DEF SwitchInv, ObjectInv, Writable, OnlyPrimary
<1> QED
  BY <1>1, <1>2

\* For patient users, and a threshold of at least two if auto-failover is on, the inductive
\* invariant holds in every reachable state, crashes, outages, lost Secrets and failing calls
\* included.
THEOREM SwitchInvariance ==
  ASSUME PatientUser, SafeThreshold
  PROVE  Spec => []SwitchInv
<1>1. TypeInv /\ SwitchInv /\ [Next]_vars => SwitchInv'
  <2>1. CASE UNCHANGED vars
    BY <2>1 DEF vars, SwitchInv, ObjectInv, CopyInv, PlanInv, OnlyPrimary
  <2> QED
    BY <2>1, SwitchStart, SwitchNormal, SwitchFailover, SwitchAutoFailover, SwitchDeletion,
       SwitchEnvironment, PatientUser, SafeThreshold
       DEF Next, OperatorStep
<1> QED
  BY <1>1, SwitchInit, TypeInvariance, PTL DEF Spec

\* Under the same two assumptions there are never two writable clusters.
THEOREM NoSplitBrainCorrect ==
  ASSUME PatientUser, SafeThreshold
  PROVE  Spec => []NoSplitBrain
<1> QED
  BY SwitchInvariance, SwitchMeansOne, PatientUser, SafeThreshold, PTL
=============================================================================
