--------------------------- MODULE TopologyProofs ---------------------------
(***************************************************************************)
(* The reconciler implements Topology, for patient users and a threshold   *)
(* of at least two: every step is a step of the abstract protocol, or      *)
(* changes none of its variables.                                          *)
(***************************************************************************)
EXTENDS ReconcilerProofs

-----------------------------------------------------------------------------
(* What the refinement needs beside SwitchInv.                             *)

\* The loop over the standbys never visits the primary of its copy.
StandbyLoop == pc = "standby" => SpecPrimary \notin todo

\* After the promotion the new primary is writable, and the loop over the others spares it.
Promoted ==
  /\ pc \in {"repoint", "alias"} => pg[newPrimary].mode = "primary"
  /\ pc = "repoint" => newPrimary \notin todo

\* Only an object whose deletion is stamped is torn down.
DeletionStamped == pc = "delete" => meta = "deleting"

StepInv == StandbyLoop /\ Promoted /\ DeletionStamped

\* A step outside the three loops leaves nothing to show.
LEMMA StepElsewhere ==
  ASSUME pc' \notin {"standby", "repoint", "alias", "delete"}
  PROVE  StepInv'
BY DEF StepInv, StandbyLoop, Promoted, DeletionStamped

LEMMA StepReturn ==
  ASSUME Return
  PROVE  StepInv'
BY StepElsewhere DEF Return

LEMMA StepInit == Init => StepInv
BY DEF Init, StepInv, StandbyLoop, Promoted, DeletionStamped

LEMMA StepStart ==
  ASSUME StepInv, StartPass
  PROVE  StepInv'
<1>1. CASE AddFinalizer
  BY <1>1, StepElsewhere DEF AddFinalizer, Idle, pass
<1>2. CASE RejectSpec
  BY <1>2, StepElsewhere DEF RejectSpec, Idle, pass
<1>3. CASE StartFailover
  BY <1>3, StepElsewhere DEF StartFailover, Read
<1>4. CASE StartReconcile
  BY <1>4, StepElsewhere DEF StartReconcile, Read
<1>5. CASE StartAutoFailover
  BY <1>5, StepElsewhere DEF StartAutoFailover, Read
<1>6. CASE StartDeletion
  BY <1>6 DEF StartDeletion, Idle, Read, object, StepInv, StandbyLoop, Promoted, DeletionStamped
<1> QED
  BY <1>1, <1>2, <1>3, <1>4, <1>5, <1>6 DEF StartPass

\* The standbys of a valid spec do not contain its primary.
LEMMA StandbyNotPrimary ==
  ASSUME NEW s, validateSpec(s)
  PROVE  /\ primaryClusterName(s) \notin Standbys(s)
         /\ s[primaryClusterName(s)] = "primary"
<1>1. primaryClusterName(s) \in Primaries(s)
  BY ValidPrimary
<1> QED
  BY <1>1 DEF Primaries, Standbys

LEMMA StepNormal ==
  ASSUME TypeInv, SwitchInv, StepInv, NormalStep
  PROVE  StepInv'
<1> USE DEF TypeInv, TypeOK
\* On its way to, and around, the loop over the standbys.
<1>1. ASSUME pc' = "standby", mc'.spec = mc.spec, SpecPrimary \notin todo'
      PROVE  StepInv'
  BY <1>1 DEF StepInv, StandbyLoop, Promoted, DeletionStamped, SpecPrimary
<1>2. ASSUME NEW c \in Cluster, EnsureService(c)
      PROVE  StepInv'
  BY <1>2, StepElsewhere DEF EnsureService, Goto
<1>3. CASE reconcilePrimary
  <2>1. CASE pc' = "secrets"
    BY <2>1, StepElsewhere
  <2>2. CASE pc' = "standby" /\ todo' = {} /\ mc'.spec = mc.spec
    BY <1>1, <2>2
  <2> QED
    BY <1>3, <2>1, <2>2 DEF reconcilePrimary, Goto, GotoReady, PassType
<1>4. CASE CheckSecrets
  <2>1. CASE pc' = "creds"
    BY <2>1, StepElsewhere
  <2>2. CASE pc' = "standby" /\ todo' = {} /\ mc'.spec = mc.spec
    BY <1>1, <2>2
  <2> QED
    BY <1>4, <2>1, <2>2 DEF CheckSecrets, Goto, GotoReady, PassType
<1>5. CASE reconcileCredentials
  <2>1. pc = "creds" /\ pc' = "standby" /\ todo' \subseteq Standbys(mc.spec) /\ UNCHANGED mc
    BY <1>5 DEF reconcileCredentials, Goto, ReachableStandbys
  <2>2. SpecPrimary \notin Standbys(mc.spec)
    BY <2>1, StandbyNotPrimary DEF NormalStage, SpecPrimary
  <2> QED
    BY <1>1, <2>1, <2>2
<1>6. ASSUME NEW c \in Cluster, reconcileStandby(c)
      PROVE  StepInv'
  <2>1. pc = "standby" /\ pc' = "standby" /\ todo' = todo \ {c} /\ mc'.spec = mc.spec
    BY <1>6 DEF reconcileStandby, Goto, GotoReady, PassType
  <2> QED
    BY <1>1, <2>1 DEF StepInv, StandbyLoop
<1>7. CASE UpdateStatus
  BY <1>7, StepReturn DEF UpdateStatus
<1> QED
  BY <1>2, <1>3, <1>4, <1>5, <1>6, <1>7 DEF NormalStep

LEMMA StepFailover ==
  ASSUME TypeInv, SwitchInv, StepInv, FailoverStep
  PROVE  StepInv'
<1> USE DEF TypeInv, TypeOK
<1>1. CASE FailoverBegin
  BY <1>1, StepElsewhere DEF FailoverBegin, Goto
<1>2. CASE FailoverPlan
  BY <1>2, StepElsewhere DEF FailoverPlan
<1>3. CASE FailoverRefused
  BY <1>3, StepReturn DEF FailoverRefused
<1>4. CASE demoteCluster
  <2>1. CASE Return
    BY <2>1, StepReturn
  <2>2. CASE Goto("promote", {})
    BY <2>2, StepElsewhere DEF Goto
  <2> QED
    BY <1>4, <2>1, <2>2 DEF demoteCluster, Apply
<1>5. CASE promoteCluster
  <2>1. CASE Return
    BY <2>1, StepReturn
  <2>2. CASE /\ pg' = [pg EXCEPT ![newPrimary] = Primary]
             /\ Goto(AfterRepoint(Others), ToVisit(Others))
    <3>1. pc = "promote" /\ newPrimary \in Cluster /\ UNCHANGED newPrimary
      BY <1>5, <2>2 DEF promoteCluster, Goto, PlannedStage
    <3>2. mc.spec[newPrimary] = "primary"
      BY <3>1, StandbyNotPrimary DEF SwitchInv, PlanInv, FailoverStage, PlannedStage
    <3>3. newPrimary \notin Others
      BY <3>2 DEF Others
    <3>4. pg'[newPrimary].mode = "primary"
      BY <2>2, <3>1 DEF Primary
    <3>5. pc' = "repoint" => todo' = Others
      BY <2>2 DEF Goto, AfterRepoint, ToVisit
    <3>6. pc' \in {"repoint", "alias"}
      BY <2>2 DEF Goto, AfterRepoint
    <3> QED
      BY <3>1, <3>3, <3>4, <3>5, <3>6 DEF StepInv, StandbyLoop, Promoted, DeletionStamped
  <2> QED
    BY <1>5, <2>1, <2>2 DEF promoteCluster, Apply
<1>6. ASSUME NEW c \in Cluster, repoint(c)
      PROVE  StepInv'
  <2>1. CASE Return
    BY <2>1, StepReturn
  <2>2. CASE /\ pg' = [pg EXCEPT ![c] = StandbyOf(NamespaceOf[newPrimary])]
             /\ Goto(AfterRepoint(todo \ {c}), ToVisit(todo \ {c}))
    <3>1. pc = "repoint" /\ c \in todo /\ newPrimary \in Cluster /\ UNCHANGED newPrimary
      BY <1>6, <2>2 DEF repoint, IsFirst, Goto, PlannedStage
    <3>2. newPrimary \notin todo /\ pg[newPrimary].mode = "primary"
      BY <3>1 DEF StepInv, Promoted
    <3>3. pg'[newPrimary].mode = "primary"
      BY <2>2, <3>1, <3>2
    <3>4. pc' \in {"repoint", "alias"} /\ (pc' = "repoint" => todo' = todo \ {c})
      BY <2>2 DEF Goto, AfterRepoint, ToVisit
    <3> QED
      BY <3>1, <3>2, <3>3, <3>4 DEF StepInv, StandbyLoop, Promoted, DeletionStamped
  <2> QED
    BY <1>6, <2>1, <2>2 DEF repoint, Apply
<1>7. ASSUME NEW c \in Cluster, UpdateAlias(c)
      PROVE  StepInv'
  <2>1. CASE Return
    BY <2>1, StepReturn
  <2>2. CASE Goto("alias", todo \ {c})
    BY <1>7, <2>2 DEF UpdateAlias, Goto, StepInv, StandbyLoop, Promoted, DeletionStamped
  <2> QED
    BY <1>7, <2>1, <2>2 DEF UpdateAlias
<1>8. CASE FailoverCommit
  BY <1>8, StepReturn DEF FailoverCommit
<1> QED
  BY <1>1, <1>2, <1>3, <1>4, <1>5, <1>6, <1>7, <1>8 DEF FailoverStep

LEMMA StepOther ==
  ASSUME StepInv, AutoFailoverStep \/ DeletionStep \/ ZalandoStep \/ EnvironmentStep
  PROVE  StepInv'
<1>1. ASSUME UNCHANGED <<pg, pc, mc, todo, newPrimary>>, pc = "delete" => UNCHANGED meta
      PROVE  StepInv'
  BY <1>1 DEF StepInv, StandbyLoop, Promoted, DeletionStamped, SpecPrimary
<1>2. CASE AutoFailoverStep
  <2>1. CASE Return
    BY <2>1, StepReturn
  <2>2. CASE Goto("autoStatus", {})
    BY <2>2, StepElsewhere DEF Goto
  <2> QED
    BY <1>2, <2>1, <2>2 DEF AutoFailoverStep, AutoFailoverWaits, PatchSpec, ResetFailureCount
<1>3. CASE DeletionStep
  <2>1. CASE Return
    BY <2>1, StepReturn
  <2>2. ASSUME NEW c \in Cluster, DeleteTarget(c), Goto("delete", todo \ {c})
        PROVE  StepInv'
    BY <2>2 DEF DeleteTarget, Goto, object, StepInv, StandbyLoop, Promoted, DeletionStamped
  <2> QED
    BY <1>3, <2>1, <2>2 DEF DeletionStep, RemoveFinalizer, DeleteTarget
<1>4. CASE ZalandoStep
  BY <1>1, <1>4 DEF ZalandoStep, ZalandoSecrets, object, pass
<1>5. CASE Crash
  BY <1>5, StepReturn DEF Crash
<1>6. CASE UserEdit
  BY <1>1, <1>6 DEF UserEdit, workload
<1>7. CASE UserDelete
  BY <1>1, <1>7 DEF UserDelete, workload, pass, StepInv, DeletionStamped
<1>8. CASE Settle
  BY <1>1, <1>8 DEF Settle, object, workload, pass
<1>9. ASSUME NEW c \in Cluster, Outage(c) \/ Recover(c) \/ KubeconfigLost(c) \/ KubeconfigRestored(c)
      PROVE  StepInv'
  BY <1>1, <1>9 DEF Outage, Recover, KubeconfigLost, KubeconfigRestored, object, workload, pass
<1> QED
  BY <1>2, <1>3, <1>4, <1>5, <1>6, <1>7, <1>8, <1>9 DEF EnvironmentStep

LEMMA StepStep == TypeInv /\ SwitchInv /\ StepInv /\ [Next]_vars => StepInv'
<1>1. CASE UNCHANGED vars
  BY <1>1 DEF vars, StepInv, StandbyLoop, Promoted, DeletionStamped, SpecPrimary
<1> QED
  BY <1>1, StepStart, StepNormal, StepFailover, StepOther DEF Next, OperatorStep

-----------------------------------------------------------------------------
(* Every step is an abstract step or leaves the abstract state alone.      *)

AbstractStep == [Abstract!Next]_(Abstract!tvars)

\* Neither the spec, nor the record, nor a writable cluster, nor the life of the object moves.
LEMMA AbstractStutter ==
  ASSUME UNCHANGED spec, status'.currentPrimary = status.currentPrimary,
         Writable' = Writable, UNCHANGED meta
  PROVE  AbstractStep
BY DEF AbstractStep, Abstract!tvars, Desired

\* The postgresql of c is written; every cluster that is writable before or after is c.
LEMMA GrantStep ==
  ASSUME TypeInv, NEW c \in Cluster,
         OnlyPrimary(pg, c), pg' = [pg EXCEPT ![c] = Primary],
         c \in {Desired(spec), status.currentPrimary},
         UNCHANGED <<spec, status, meta>>
  PROVE  AbstractStep
<1>1. Writable' = {c}
  BY DEF Writable, OnlyPrimary, Primary, TypeInv, TypeOK
<1>2. CASE c \in Writable
  <2>1. Writable = {c}
    BY <1>2 DEF Writable, OnlyPrimary
  <2> QED
    BY <1>1, <2>1, AbstractStutter
<1>3. CASE c \notin Writable
  <2>1. Writable = {}
    BY <1>3 DEF Writable, OnlyPrimary
  <2>2. Abstract!Grant(c)
    BY <1>1, <2>1 DEF Abstract!Grant, Desired
  <2> QED
    BY <2>2 DEF AbstractStep, Abstract!Next
<1> QED
  BY <1>2, <1>3

\* A cluster that is not writable is written, and is not writable afterwards.
LEMMA StandbyStep ==
  ASSUME TypeInv, NEW c \in Cluster, NEW p, p.mode # "primary", pg[c].mode # "primary",
         pg' \in {pg, [pg EXCEPT ![c] = p]},
         UNCHANGED <<spec, status, meta>>
  PROVE  AbstractStep
<1>1. Writable' = Writable
  BY DEF Writable, TypeInv, TypeOK
<1> QED
  BY <1>1, AbstractStutter

LEMMA RefineStart ==
  ASSUME TypeInv, StartPass
  PROVE  AbstractStep
<1>1. UNCHANGED <<spec, pg>> /\ status'.currentPrimary = status.currentPrimary
  BY DEF StartPass, AddFinalizer, RejectSpec, StartFailover, StartReconcile, StartAutoFailover,
         StartDeletion, object, workload, TypeInv, TypeOK, StatusType
<1>2. UNCHANGED meta \/ (meta = "new" /\ meta' = "active")
  BY DEF StartPass, AddFinalizer, RejectSpec, StartFailover, StartReconcile, StartAutoFailover,
         StartDeletion, Idle, object
<1>3. Writable' = Writable
  BY <1>1 DEF Writable
<1> QED
  BY <1>1, <1>2, <1>3 DEF AbstractStep, Abstract!tvars, Desired

LEMMA RefineNormal ==
  ASSUME TypeInv, SwitchInv, StepInv, NormalStep
  PROVE  AbstractStep
<1> USE DEF TypeInv, TypeOK
<1>1. pc \in NormalStage
  BY DEF NormalStep, reconcilePrimary, CheckSecrets, reconcileCredentials, UpdateStatus, PassDone,
         EnsureService, reconcileStandby, NormalStage
<1>2. /\ validateSpec(mc.spec)
      /\ OnlyPrimary(pg, SpecPrimary)
      /\ mc.status.currentPrimary = status.currentPrimary
      /\ status.currentPrimary \in {None, SpecPrimary}
      /\ status.currentPrimary = None => Desired(spec) = SpecPrimary
      /\ SpecPrimary \in Cluster
  BY <1>1, ValidPrimary DEF SwitchInv, CopyInv, SpecPrimary, Desired
<1>3. ASSUME UNCHANGED <<meta, spec, status, pg>>
      PROVE  AbstractStep
  BY <1>3, AbstractStutter DEF Writable
<1>4. ASSUME NEW c \in Cluster, EnsureService(c)
      PROVE  AbstractStep
  BY <1>3, <1>4 DEF EnsureService, object
<1>5. CASE reconcilePrimary
  <2>1. UNCHANGED <<meta, spec, status>> /\ pg' \in {pg, [pg EXCEPT ![SpecPrimary] = Primary]}
    BY <1>5 DEF reconcilePrimary, object
  <2> QED
    BY <1>2, <1>3, <2>1, GrantStep
<1>6. CASE CheckSecrets
  BY <1>3, <1>6 DEF CheckSecrets, object, workload
<1>7. CASE reconcileCredentials
  BY <1>3, <1>7 DEF reconcileCredentials, object
<1>8. ASSUME NEW c \in Cluster, reconcileStandby(c)
      PROVE  AbstractStep
  <2>1. /\ UNCHANGED <<meta, spec, status>> /\ pc = "standby" /\ c \in todo
        /\ pg' \in {pg, [pg EXCEPT ![c] = StandbyOf(NamespaceOf[c])]}
    BY <1>8 DEF reconcileStandby, IsFirst, object
  <2>2. pg[c].mode # "primary"
    BY <1>2, <2>1 DEF StepInv, StandbyLoop, OnlyPrimary
  <2> QED
    BY <2>1, <2>2, StandbyStep DEF StandbyOf
<1>9. CASE UpdateStatus
  <2>1. UNCHANGED <<meta, spec, pg>>
    BY <1>9 DEF UpdateStatus, workload
  <2>2. CASE UNCHANGED status
    BY <1>3, <2>1, <2>2
  <2>3. CASE status' = [mc.status EXCEPT !.currentPrimary = SpecPrimary, !.phase = FinalPhase]
    <3>1. status'.currentPrimary = SpecPrimary
      BY <2>3 DEF PassType, StatusType
    <3>2. Writable' = Writable /\ Writable \subseteq {SpecPrimary}
      BY <1>2, <2>1 DEF Writable, OnlyPrimary
    <3>3. CASE status.currentPrimary = SpecPrimary
      BY <2>1, <3>1, <3>2, <3>3, AbstractStutter
    <3>4. CASE status.currentPrimary = None
      <4>1. Abstract!Record
        BY <1>2, <2>1, <3>1, <3>2, <3>4, NoneAssumption DEF Abstract!Record, Desired
      <4> QED
        BY <4>1 DEF AbstractStep, Abstract!Next
    <3> QED
      BY <1>2, <3>3, <3>4
  <2> QED
    BY <1>9, <2>2, <2>3 DEF UpdateStatus
<1> QED
  BY <1>4, <1>5, <1>6, <1>7, <1>8, <1>9 DEF NormalStep

LEMMA RefineFailover ==
  ASSUME TypeInv, SwitchInv, StepInv, FailoverStep
  PROVE  AbstractStep
<1> USE DEF TypeInv, TypeOK
<1>1. pc \in FailoverStage
  BY DEF FailoverStep, FailoverBegin, FailoverPlan, FailoverRefused, demoteCluster, promoteCluster,
         FailoverCommit, repoint, UpdateAlias, FailoverStage
<1>2. /\ OldPrimary = status.currentPrimary
      /\ status.currentPrimary # None
      /\ Desired(spec) = primaryClusterName(spec)
      /\ status.currentPrimary # Desired(spec)
      /\ pc \in PlannedStage => newPrimary = Desired(spec)
      /\ pc \in PlannedStage \ {"demote"} => OnlyPrimary(pg, newPrimary)
  BY <1>1 DEF SwitchInv, PlanInv, OldPrimary, Desired
<1>3. ASSUME UNCHANGED <<meta, spec, pg>>, status'.currentPrimary = status.currentPrimary
      PROVE  AbstractStep
  BY <1>3, AbstractStutter DEF Writable
<1>4. CASE FailoverBegin
  <2>1. UNCHANGED <<meta, spec, pg>>
        /\ status' \in {status, [mc.status EXCEPT !.phase = "FailingOver", !.failingOver = TRUE]}
    BY <1>4 DEF FailoverBegin, workload
  <2>2. status'.currentPrimary = status.currentPrimary
    BY <1>2, <2>1 DEF OldPrimary, PassType, StatusType
  <2> QED
    BY <1>3, <2>1, <2>2
<1>5. CASE FailoverPlan \/ FailoverRefused
  BY <1>3, <1>5 DEF FailoverPlan, FailoverRefused, object, workload
<1>6. CASE demoteCluster
  <2>1. /\ pc = "demote" /\ UNCHANGED <<meta, spec, status>> /\ OldPrimary \in Cluster
        /\ pg' \in {pg, [pg EXCEPT ![OldPrimary] = StandbyOf(newPrimary)]}
    BY <1>6 DEF demoteCluster, Apply, object, PlannedStage
  <2>2. CASE UNCHANGED pg
    BY <1>3, <2>1, <2>2
  <2>3. CASE pg[OldPrimary].mode # "primary"
    BY <2>1, <2>3, StandbyStep DEF StandbyOf
  <2>4. CASE pg' = [pg EXCEPT ![OldPrimary] = StandbyOf(newPrimary)] /\ pg[OldPrimary].mode = "primary"
    <3>1. OnlyPrimary(pg, OldPrimary)
      BY <1>2, <2>1, <2>4 DEF SwitchInv, ObjectInv, OnlyPrimary
    <3>2. Writable = {OldPrimary}
      BY <2>1, <2>4, <3>1 DEF Writable, OnlyPrimary
    <3>3. Writable' = {}
      BY <2>1, <2>4, <3>1 DEF Writable, OnlyPrimary, StandbyOf
    <3>4. Abstract!Fence
      BY <1>2, <2>1, <3>2, <3>3 DEF Abstract!Fence, Desired
    <3> QED
      BY <3>4 DEF AbstractStep, Abstract!Next
  <2> QED
    BY <2>1, <2>2, <2>3, <2>4
<1>7. CASE promoteCluster
  <2>1. /\ pc = "promote" /\ UNCHANGED <<meta, spec, status>> /\ newPrimary \in Cluster
        /\ pg' \in {pg, [pg EXCEPT ![newPrimary] = Primary]}
    BY <1>7 DEF promoteCluster, Apply, object, PlannedStage
  <2> QED
    BY <1>2, <1>3, <2>1, GrantStep DEF PlannedStage
<1>8. ASSUME NEW c \in Cluster, repoint(c)
      PROVE  AbstractStep
  <2>1. /\ pc = "repoint" /\ UNCHANGED <<meta, spec, status>> /\ c \in todo
        /\ pg' \in {pg, [pg EXCEPT ![c] = StandbyOf(NamespaceOf[newPrimary])]}
    BY <1>8 DEF repoint, Apply, IsFirst, object
  <2>2. pg[c].mode # "primary"
    BY <1>2, <2>1 DEF StepInv, Promoted, OnlyPrimary, PlannedStage
  <2> QED
    BY <2>1, <2>2, StandbyStep DEF StandbyOf
<1>9. ASSUME NEW c \in Cluster, UpdateAlias(c)
      PROVE  AbstractStep
  BY <1>3, <1>9 DEF UpdateAlias, object
<1>10. CASE FailoverCommit
  <2>1. pc = "alias" /\ UNCHANGED <<meta, spec, pg>>
    BY <1>10 DEF FailoverCommit, workload
  <2>2. CASE UNCHANGED status
    BY <1>3, <2>1, <2>2
  <2>3. CASE status' = [status EXCEPT !.currentPrimary = newPrimary, !.phase = "Ready",
                                      !.failingOver = FALSE]
    <3>1. status'.currentPrimary = newPrimary
      BY <2>3 DEF StatusType
    <3>2. newPrimary \in Cluster /\ newPrimary = Desired(spec) /\ OnlyPrimary(pg, newPrimary)
          /\ pg[newPrimary].mode = "primary"
      BY <1>2, <2>1 DEF PlannedStage, StepInv, Promoted
    <3>3. Writable' = Writable /\ Writable = {newPrimary}
      BY <2>1, <3>2 DEF Writable, OnlyPrimary
    <3>4. Abstract!Record
      BY <1>2, <2>1, <3>1, <3>2, <3>3, NoneAssumption DEF Abstract!Record, Desired
    <3> QED
      BY <3>4 DEF AbstractStep, Abstract!Next
  <2> QED
    BY <1>10, <2>2, <2>3 DEF FailoverCommit
<1> QED
  BY <1>4, <1>5, <1>6, <1>7, <1>8, <1>9, <1>10 DEF FailoverStep

\* A new goal, set while nobody but the primary on record is writable.
LEMMA DesireStep ==
  ASSUME TypeInv, OnlyPrimary(pg, status.currentPrimary), UNCHANGED <<meta, status, pg>>
  PROVE  AbstractStep
<1>1. Writable' = Writable /\ Writable \subseteq {status.currentPrimary}
  BY DEF Writable, OnlyPrimary
<1>2. Desired(spec') \in Cluster \cup {None}
  BY ValidPrimary DEF Desired
<1>3. Abstract!Desire
  BY <1>1, <1>2 DEF Abstract!Desire, Desired
<1> QED
  BY <1>3 DEF AbstractStep, Abstract!Next

LEMMA RefineAutoFailover ==
  ASSUME TypeInv, SwitchInv, AutoFailoverStep
  PROVE  AbstractStep
<1>1. pc \in AutoStage
  BY DEF AutoFailoverStep, AutoFailoverWaits, PatchSpec, ResetFailureCount, AutoStage
<1>2. mc.status.currentPrimary = status.currentPrimary /\ OnlyPrimary(pg, status.currentPrimary)
  BY <1>1 DEF SwitchInv, CopyInv, AutoStage, NormalStage
<1>3. CASE PatchSpec
  BY <1>2, <1>3, DesireStep DEF PatchSpec, workload
<1>4. CASE AutoFailoverWaits \/ ResetFailureCount
  <2>1. UNCHANGED <<meta, spec, pg>> /\ status'.currentPrimary = status.currentPrimary
    BY <1>2, <1>4 DEF AutoFailoverWaits, ResetFailureCount, workload
  <2> QED
    BY <2>1, AbstractStutter DEF Writable
<1> QED
  BY <1>3, <1>4 DEF AutoFailoverStep

LEMMA RefineDeletion ==
  ASSUME TypeInv, SwitchInv, StepInv, DeletionStep
  PROVE  AbstractStep
<1> USE DEF TypeInv, TypeOK
<1>1. pc = "delete" /\ meta = "deleting"
  BY DEF DeletionStep, RemoveFinalizer, DeleteTarget, StepInv, DeletionStamped
<1>2. CASE RemoveFinalizer
  <2>1. UNCHANGED <<spec, status, pg>> /\ meta' \in {"gone", "deleting"}
    BY <1>1, <1>2 DEF RemoveFinalizer, workload
  <2> QED
    BY <1>1, <2>1 DEF AbstractStep, Abstract!tvars, Desired, Writable
<1>3. ASSUME NEW c \in Cluster, DeleteTarget(c)
      PROVE  AbstractStep
  <2>1. UNCHANGED <<meta, spec, status>> /\ pg' \in {pg, [pg EXCEPT ![c] = NoPostgresql]}
    BY <1>3 DEF DeleteTarget, object
  <2>2. CASE UNCHANGED pg
    BY <2>1, <2>2, AbstractStutter DEF Writable
  <2>3. CASE pg[c].mode # "primary"
    BY <2>1, <2>3, StandbyStep DEF NoPostgresql
  <2>4. CASE pg' = [pg EXCEPT ![c] = NoPostgresql] /\ pg[c].mode = "primary"
    <3>1. Writable' = {}
      BY <2>4, SwitchMeansOne DEF Writable, NoSplitBrain, NoPostgresql
    <3>2. Abstract!Teardown
      BY <1>1, <2>1, <3>1 DEF Abstract!Teardown, Desired
    <3> QED
      BY <3>2 DEF AbstractStep, Abstract!Next
  <2> QED
    BY <2>1, <2>2, <2>3, <2>4
<1> QED
  BY <1>2, <1>3 DEF DeletionStep

LEMMA RefineEnvironment ==
  ASSUME TypeInv, SwitchInv, ZalandoStep \/ EnvironmentStep, PatientUser
  PROVE  AbstractStep
<1>1. ASSUME UNCHANGED <<meta, spec, status, pg>>
      PROVE  AbstractStep
  BY <1>1, AbstractStutter DEF Writable
<1>2. CASE ZalandoStep
  BY <1>1, <1>2 DEF ZalandoStep, ZalandoSecrets, object
<1>3. CASE Crash \/ Settle
  BY <1>1, <1>3 DEF Crash, Settle, object, workload
<1>4. ASSUME NEW c \in Cluster, Outage(c) \/ Recover(c) \/ KubeconfigLost(c) \/ KubeconfigRestored(c)
      PROVE  AbstractStep
  BY <1>1, <1>4 DEF Outage, Recover, KubeconfigLost, KubeconfigRestored, object, workload
<1>5. CASE UserDelete
  <2>1. UNCHANGED <<spec, status, pg>> /\ meta \in {"new", "active"} /\ meta' \in {"gone", "deleting"}
    BY <1>5 DEF UserDelete, workload
  <2>2. Abstract!Retire
    BY <2>1 DEF Abstract!Retire, Desired, Writable
  <2> QED
    BY <2>2 DEF AbstractStep, Abstract!Next
<1>6. CASE UserEdit
  <2>1. UNCHANGED <<meta, status, pg>>
    BY <1>6 DEF UserEdit, workload
  <2>2. \/ ~validateSpec(spec)
        \/ status.currentPrimary # None /\ status.currentPrimary = primaryClusterName(spec)
    BY <1>6, PatientUser DEF UserEdit, MayEdit, FailoverPending
  <2>3. OnlyPrimary(pg, status.currentPrimary)
    BY <2>2 DEF SwitchInv, ObjectInv, OnlyPrimary, validateSpec
  <2> QED
    BY <2>1, <2>3, DesireStep
<1> QED
  BY <1>2, <1>3, <1>4, <1>5, <1>6 DEF EnvironmentStep

LEMMA RefineInit == Init => Abstract!Init
<1> SUFFICES ASSUME Init PROVE Abstract!Init
  OBVIOUS
<1>1. Desired(spec) \in Cluster \cup {None}
  BY ValidPrimary DEF Desired
<1>2. Writable = {}
  BY DEF Init, Writable, NoPostgresql
<1>3. status.currentPrimary = None /\ meta = "new"
  BY DEF Init, NoStatus
<1> QED
  BY <1>1, <1>2, <1>3 DEF Abstract!Init, Desired

\* For patient users and a safe threshold, the reconciler with its crashes, outages, failing
\* calls and concurrent edits implements the single-writer protocol.
THEOREM Implementation ==
  ASSUME PatientUser, SafeThreshold
  PROVE  Spec => ImplementsTopology
<1>1. Spec => []StepInv
  BY StepInit, StepStep, TypeInvariance, SwitchInvariance, PatientUser, SafeThreshold, PTL DEF Spec
<1>2. TypeInv /\ SwitchInv /\ StepInv /\ [Next]_vars => [Abstract!Next]_(Abstract!tvars)
  <2>1. CASE UNCHANGED vars
    BY <2>1, AbstractStutter DEF vars, Writable, AbstractStep
  <2> QED
    BY <2>1, RefineStart, RefineNormal, RefineFailover, RefineAutoFailover, RefineDeletion,
       RefineEnvironment, PatientUser DEF Next, OperatorStep, AbstractStep
<1> QED
  BY <1>1, <1>2, RefineInit, TypeInvariance, SwitchInvariance, PatientUser, SafeThreshold, PTL
     DEF Spec, ImplementsTopology, Abstract!Spec

-----------------------------------------------------------------------------
(* Auto-failover: the recorded primary is the one that is missed.          *)

\* Misses are on record only beside a primary, and a pass that replaces the primary of its
\* copy has found that one on record.
CountInv ==
  /\ status.failures > 0 => status.currentPrimary # None
  /\ pc \in AutoStage \cup FailoverStage => /\ mc.status.currentPrimary = status.currentPrimary
                                           /\ status.currentPrimary # None
  /\ pc \in AutoStage => validateSpec(mc.spec) /\ status.currentPrimary = SpecPrimary

LEMMA CountInit == Init => CountInv
<1> SUFFICES ASSUME Init PROVE CountInv
  OBVIOUS
<1>1. pc = "idle" /\ status.failures = 0
  BY DEF Init, NoStatus
<1> QED
  BY <1>1 DEF CountInv, AutoStage, FailoverStage

\* A step that leaves the record alone.
LEMMA CountFrame ==
  ASSUME CountInv, status' = status,
         \/ UNCHANGED <<pc, mc>>
         \/ pc \in FailoverStage /\ pc' \in FailoverStage /\ UNCHANGED mc
         \/ pc' \notin AutoStage \cup FailoverStage
  PROVE  CountInv'
BY DEF CountInv, SpecPrimary, AutoStage, FailoverStage

LEMMA CountStart ==
  ASSUME TypeInv, CountInv, SafeThreshold, StartPass
  PROVE  CountInv'
<1> USE DEF TypeInv, TypeOK
<1>1. CASE AddFinalizer \/ StartReconcile \/ StartDeletion
  BY <1>1, CountFrame DEF AddFinalizer, StartReconcile, StartDeletion, Read, object, pass, AutoStage, FailoverStage
<1>2. CASE RejectSpec
  <2>1. pc = "idle" /\ pc' = "idle" /\ status' = [status EXCEPT !.phase = "Failed"]
    BY <1>2 DEF RejectSpec, Idle, pass
  <2>2. status'.failures = status.failures /\ status'.currentPrimary = status.currentPrimary
    BY <2>1 DEF StatusType
  <2> QED
    BY <2>1, <2>2 DEF CountInv, AutoStage, FailoverStage
<1>3. CASE StartFailover
  <2>1. /\ pc' = "begin" /\ mc'.status.currentPrimary = status.currentPrimary /\ UNCHANGED status
        /\ status.currentPrimary # None
    BY <1>3 DEF StartFailover, FailoverPending, Read, object, StatusType
  <2> QED
    BY <2>1 DEF CountInv, AutoStage, FailoverStage
<1>4. CASE StartAutoFailover
  <2>1. AutoFailover /\ Bump(status.failures) >= Threshold
    BY <1>4 DEF StartAutoFailover, AutoFailoverDue, FailureCount
  <2>2. status.failures > 0
    <3>1. status.failures \in 0..Threshold
      BY DEF StatusType
    <3> QED
      BY <2>1, <3>1, ThresholdAssumption, SafeThreshold DEF SafeThreshold, Bump
  <2>3. StatusRead.currentPrimary = status.currentPrimary
    BY DEF StatusRead, StatusType
  <2>4. /\ pc' = "auto" /\ mc'.spec = spec /\ mc'.status.currentPrimary = status.currentPrimary
        /\ UNCHANGED status /\ validateSpec(spec)
        /\ status.currentPrimary \in {None, primaryClusterName(spec)}
    BY <1>4, <2>3 DEF StartAutoFailover, Reconcilable, Read, FailoverPending, object
  <2> QED
    BY <2>2, <2>4 DEF CountInv, SpecPrimary, AutoStage, FailoverStage
<1> QED
  BY <1>1, <1>2, <1>3, <1>4 DEF StartPass

LEMMA CountFailover ==
  ASSUME TypeInv, CountInv, FailoverStep
  PROVE  CountInv'
<1> USE DEF TypeInv, TypeOK
<1>1. CASE FailoverBegin
  <2> DEFINE st == [mc.status EXCEPT !.phase = "FailingOver", !.failingOver = TRUE]
  <2>1. /\ st.currentPrimary = mc.status.currentPrimary
        /\ mc.status.currentPrimary = status.currentPrimary /\ status.currentPrimary # None
    BY <1>1 DEF FailoverBegin, CountInv, FailoverStage, PassType, StatusType
  <2>2. mc'.status = st /\ status' \in {status, st} /\ pc' = "plan"
    BY <1>1 DEF FailoverBegin, Goto, PassType
  <2> HIDE DEF st
  <2> QED
    BY <2>1, <2>2 DEF CountInv, AutoStage, FailoverStage
<1>2. CASE FailoverCommit
  <2>1. pc' = "idle" /\ newPrimary \in Cluster
    BY <1>2 DEF FailoverCommit, Return, PlannedStage
  <2>2. status' = status \/ status'.currentPrimary = newPrimary
    BY <1>2 DEF FailoverCommit, StatusType
  <2> QED
    BY <2>1, <2>2, NoneAssumption DEF CountInv, AutoStage, FailoverStage
<1>3. CASE FailoverPlan \/ FailoverRefused
  BY <1>3, CountFrame DEF FailoverPlan, FailoverRefused, Return, object, AutoStage, FailoverStage
<1>4. ASSUME NEW c, NEW q, NEW T, NEW s \in FailoverStage, pc \in FailoverStage, Apply(c, q, s, T)
      PROVE  CountInv'
  BY <1>4, CountFrame DEF Apply, Goto, Return, object, AutoStage, FailoverStage
<1>5. /\ \A T : AfterRepoint(T) \in FailoverStage
      /\ "demote" \in FailoverStage /\ "promote" \in FailoverStage /\ "repoint" \in FailoverStage
  BY DEF AfterRepoint, FailoverStage
<1>6. CASE demoteCluster
  BY <1>4, <1>5, <1>6 DEF demoteCluster
<1>7. CASE promoteCluster
  BY <1>4, <1>5, <1>7 DEF promoteCluster
<1>8. ASSUME NEW c \in Cluster, repoint(c) PROVE CountInv'
  BY <1>4, <1>5, <1>8 DEF repoint
<1>9. ASSUME NEW c \in Cluster, UpdateAlias(c) PROVE CountInv'
  BY <1>9, CountFrame DEF UpdateAlias, Goto, Return, object, AutoStage, FailoverStage
<1> QED
  BY <1>1, <1>2, <1>3, <1>6, <1>7, <1>8, <1>9 DEF FailoverStep

LEMMA CountStep == SafeThreshold /\ TypeInv /\ CountInv /\ [Next]_vars => CountInv'
<1> SUFFICES ASSUME SafeThreshold, TypeInv, CountInv, [Next]_vars PROVE CountInv'
  OBVIOUS
<1> USE DEF TypeInv, TypeOK
<1>1. CASE UpdateStatus
  <2>1. SpecPrimary \in Cluster /\ pc' = "idle"
    <3>1. pc \in NormalStage
      BY <1>1 DEF UpdateStatus, PassDone, NormalStage
    <3> QED
      BY <1>1, <3>1, ValidPrimary DEF UpdateStatus, Return, SpecPrimary
  <2>2. status' = status \/ status'.currentPrimary = SpecPrimary
    BY <1>1 DEF UpdateStatus, PassType, StatusType
  <2> QED
    BY <2>1, <2>2, NoneAssumption DEF CountInv, AutoStage, FailoverStage
<1>2. CASE NormalStep
  BY <1>1, <1>2, CountFrame
     DEF NormalStep, reconcilePrimary, CheckSecrets, reconcileCredentials, EnsureService,
         reconcileStandby, Goto, GotoReady, Return, object, AutoStage, FailoverStage
<1>3. CASE AutoFailoverStep
  <2>1. /\ pc \in AutoStage /\ status' \in {status, mc.status}
        /\ pc' = "idle" \/ (pc' = "autoStatus" /\ mc' = [mc EXCEPT !.status.failures = 0] /\ status' = status)
    BY <1>3 DEF AutoFailoverStep, AutoFailoverWaits, PatchSpec, ResetFailureCount, AutoStage, Goto, Return
  <2>2. status'.currentPrimary = status.currentPrimary /\ status.currentPrimary # None
    BY <2>1 DEF CountInv
  <2>3. pc' = "autoStatus" => /\ mc'.spec = mc.spec
                              /\ mc'.status.currentPrimary = mc.status.currentPrimary
    BY <2>1 DEF PassType, StatusType
  <2>4. /\ validateSpec(mc.spec) /\ status.currentPrimary = SpecPrimary
        /\ mc.status.currentPrimary = status.currentPrimary
    BY <2>1 DEF CountInv
  <2>5. CASE pc' = "idle"
    BY <2>2, <2>5 DEF CountInv, AutoStage, FailoverStage
  <2>6. CASE pc' = "autoStatus"
    BY <2>2, <2>3, <2>4, <2>6 DEF CountInv, SpecPrimary, AutoStage, FailoverStage
  <2> QED
    BY <2>1, <2>5, <2>6
<1>4. CASE DeletionStep
  BY <1>4, CountFrame
     DEF DeletionStep, RemoveFinalizer, DeleteTarget, Goto, Return, object, AutoStage, FailoverStage
<1>5. CASE ZalandoStep \/ EnvironmentStep
  BY <1>5, CountFrame
     DEF ZalandoStep, ZalandoSecrets, EnvironmentStep, Crash, UserEdit, UserDelete, Settle, Outage,
         Recover, KubeconfigLost, KubeconfigRestored, Return, object, pass, AutoStage, FailoverStage
<1>6. CASE UNCHANGED vars
  BY <1>6, CountFrame DEF vars
<1> QED
  BY <1>2, <1>3, <1>4, <1>5, <1>6, CountStart, CountFailover DEF Next, OperatorStep

\* The spec patch of an auto-failover always leaves a failover pending, as its comment says: the
\* promoted standby is never the recorded primary, whatever users edit in the meantime.
THEOREM PatchLeadsToFailoverCorrect ==
  ASSUME SafeThreshold
  PROVE  Spec => PatchLeadsToFailover
<1>1. ASSUME TypeInv, CountInv, [Next]_vars, pc = "auto", pc' = "autoStatus"
      PROVE  FailoverPending(spec', status')
  <2>1. PatchSpec
    BY <1>1 DEF Next, OperatorStep, StartPass, AddFinalizer, RejectSpec, StartFailover, StartReconcile,
       StartAutoFailover, StartDeletion, Idle, Reconcilable, NormalStep, reconcilePrimary, CheckSecrets,
       reconcileCredentials, UpdateStatus, PassDone, EnsureService, reconcileStandby, FailoverStep,
       FailoverBegin, FailoverPlan, FailoverRefused, demoteCluster, promoteCluster, FailoverCommit,
       repoint, UpdateAlias, AutoFailoverStep, AutoFailoverWaits, ResetFailureCount, Return,
       DeletionStep, RemoveFinalizer, DeleteTarget, ZalandoStep, ZalandoSecrets, EnvironmentStep, Crash,
       UserEdit, UserDelete, Settle, Outage, Recover, KubeconfigLost, KubeconfigRestored, pass, vars
  <2>2. PICK b \in ReachableStandbys : spec' = RewriteRoles(mc.spec, b)
    BY <1>1, <2>1 DEF PatchSpec, PromoteInSpec, IsFirst, Return
  <2>3. b \in Cluster /\ mc.spec[b] = "standby"
    BY <2>2 DEF ReachableStandbys, Standbys
  <2>4. Primaries(spec') = {b}
    BY <2>2, <2>3 DEF RewriteRoles, Primaries
  <2>5. primaryClusterName(spec') = b
    BY <2>3, <2>4, ValidPrimary DEF validateSpec
  <2>6. validateSpec(mc.spec) /\ status.currentPrimary = SpecPrimary /\ status.currentPrimary # None
    BY <1>1 DEF CountInv, AutoStage
  <2>7. SpecPrimary # b
    BY <2>3, <2>6, StandbyNotPrimary DEF SpecPrimary
  <2>8. UNCHANGED status
    BY <2>1 DEF PatchSpec
  <2> QED
    BY <2>5, <2>6, <2>7, <2>8 DEF FailoverPending
<1>2. TypeInv /\ CountInv /\ [Next]_vars =>
        [pc = "auto" /\ pc' = "autoStatus" => FailoverPending(spec', status')]_vars
  BY <1>1
<1>3. Spec => []CountInv
  BY CountInit, CountStep, TypeInvariance, SafeThreshold, PTL DEF Spec
<1> QED
  BY <1>2, <1>3, TypeInvariance, PTL DEF Spec, PatchLeadsToFailover
=============================================================================
