-------------------------- MODULE ConvergenceProofs --------------------------
(***************************************************************************)
(* A status that says Ready tells the truth, and a recorded failover has   *)
(* settled, for any number of clusters whose hosts are all IP addresses or *)
(* all DNS names.                                                          *)
(***************************************************************************)
EXTENDS ReconcilerProofs

OneKind == \A c, d \in Cluster : HostKind[c] = HostKind[d]

-----------------------------------------------------------------------------
(* Aliases.                                                                *)

\* The type of a Service suits the hosts it is to lead to.
Suits(a) ==
  \A d \in Cluster : /\ a.type = "Headless" => HostKind[d] = "ip"
                     /\ a.type = "ExternalName" => HostKind[d] = "dns"

\* With hosts of one kind a written alias resolves to what was written, and an interrupted
\* write does not lead an alias astray that resolves to that host already.
LEMMA AliasResolves ==
  ASSUME OneKind, NEW a \in Alias, Suits(a), NEW h \in Cluster
  PROVE  /\ Suits(EnsurePrimaryAlias(a, h))
         /\ Resolve(EnsurePrimaryAlias(a, h)) = h
         /\ \A b \in InterruptedAlias(a, h) : Suits(b) /\ (Resolve(a) = h => Resolve(b) = h)
         /\ Suits(DeleteAlias(a))
<1>1. CASE HostKind[h] = "ip"
  <2>1. \A d \in Cluster : HostKind[d] = "ip"
    BY <1>1 DEF OneKind
  <2>2. a.type \in {"absent", "Headless"}
    BY <1>1 DEF Suits, Alias
  <2>3. /\ HeadlessServiceOnly(a).type = "Headless"
        /\ HeadlessServiceOnly(a) \in Alias
        /\ HeadlessServiceOnly(a).endpoints = a.endpoints
    BY <2>2 DEF HeadlessServiceOnly, Alias
  <2>4. /\ EnsurePrimaryAlias(a, h).type = "Headless"
        /\ EnsurePrimaryAlias(a, h).endpoints = h
    BY <1>1, <2>3 DEF EnsurePrimaryAlias, ensureHeadlessWithEndpoints, Alias
  <2>5. Resolve(EnsurePrimaryAlias(a, h)) = h
    BY <2>4 DEF Resolve
  <2>6. Resolve(a) = h => Resolve(HeadlessServiceOnly(a)) = h
    BY <2>2, <2>3, NoneAssumption DEF Resolve
  <2> QED
    BY <1>1, <2>1, <2>3, <2>4, <2>5, <2>6 DEF Suits, InterruptedAlias, DeleteAlias, NoAlias
<1>2. CASE HostKind[h] = "dns"
  <2>1. \A d \in Cluster : HostKind[d] = "dns"
    BY <1>2 DEF OneKind
  <2>2. a.type \in {"absent", "ExternalName"}
    BY <1>2 DEF Suits, Alias
  <2>3. /\ EnsurePrimaryAlias(a, h).type = "ExternalName"
        /\ EnsurePrimaryAlias(a, h).externalName = h
    BY <1>2, <2>2 DEF EnsurePrimaryAlias, ensureExternalName, Alias
  <2>4. Resolve(EnsurePrimaryAlias(a, h)) = h
    BY <2>3 DEF Resolve
  <2> QED
    BY <1>2, <2>1, <2>3, <2>4 DEF Suits, InterruptedAlias, DeleteAlias, NoAlias
<1> QED
  BY <1>1, <1>2, HostKindAssumption

AliasKind == \A c \in Cluster : Suits(alias[c])

LEMMA KindInit == Init => AliasKind
BY DEF Init, AliasKind, Suits, NoAlias

LEMMA KindStep == OneKind /\ TypeInv /\ AliasKind /\ [Next]_vars => AliasKind'
<1> SUFFICES ASSUME OneKind, TypeInv, AliasKind, [Next]_vars PROVE AliasKind'
  OBVIOUS
<1> USE DEF TypeInv, TypeOK
<1>1. ASSUME UNCHANGED alias PROVE AliasKind'
  BY <1>1 DEF AliasKind, Suits
<1>2. ASSUME NEW c \in Cluster, NEW a, Suits(a), alias' = [alias EXCEPT ![c] = a]
      PROVE  AliasKind'
  BY <1>2 DEF AliasKind, Suits
<1>3. CASE StartPass
  BY <1>1, <1>3 DEF StartPass, AddFinalizer, RejectSpec, StartFailover, StartReconcile,
                    StartAutoFailover, StartDeletion, workload
<1>4. ASSUME NEW c \in Cluster, reconcileStandby(c)
      PROVE  AliasKind'
  <2>1. SpecPrimary \in Cluster
    BY <1>4, ValidPrimary DEF reconcileStandby, NormalStage, SpecPrimary
  <2>2. \/ UNCHANGED alias
        \/ \E a \in InterruptedAlias(alias[c], SpecPrimary) \cup {EnsurePrimaryAlias(alias[c], SpecPrimary)} :
             alias' = [alias EXCEPT ![c] = a]
    BY <1>4 DEF reconcileStandby
  <2> QED
    BY <1>1, <1>2, <2>1, <2>2, AliasResolves DEF AliasKind
<1>5. CASE NormalStep
  BY <1>1, <1>4, <1>5 DEF NormalStep, reconcilePrimary, CheckSecrets, reconcileCredentials,
                          UpdateStatus, EnsureService, workload
<1>6. ASSUME NEW c \in Cluster, UpdateAlias(c)
      PROVE  AliasKind'
  <2>1. newPrimary \in Cluster
    BY <1>6 DEF UpdateAlias, PlannedStage
  <2>2. \/ UNCHANGED alias
        \/ \E a \in InterruptedAlias(alias[c], newPrimary) \cup {EnsurePrimaryAlias(alias[c], newPrimary)} :
             alias' = [alias EXCEPT ![c] = a]
    BY <1>6 DEF UpdateAlias
  <2> QED
    BY <1>1, <1>2, <2>1, <2>2, AliasResolves DEF AliasKind
<1>7. CASE FailoverStep
  BY <1>1, <1>6, <1>7 DEF FailoverStep, FailoverBegin, FailoverPlan, FailoverRefused, demoteCluster,
                          promoteCluster, repoint, FailoverCommit, Apply, workload
<1>8. CASE AutoFailoverStep
  BY <1>1, <1>8 DEF AutoFailoverStep, AutoFailoverWaits, PatchSpec, ResetFailureCount, workload
<1>9. CASE DeletionStep
  <2>1. ASSUME NEW c \in Cluster, DeleteTarget(c)
        PROVE  AliasKind'
    <3>1. UNCHANGED alias \/ alias' = [alias EXCEPT ![c] = NoAlias]
      BY <2>1 DEF DeleteTarget, AliasRemoved, DeleteAlias
    <3>2. Suits(NoAlias)
      BY DEF Suits, NoAlias
    <3> QED
      BY <1>1, <1>2, <3>1, <3>2
  <2> QED
    BY <1>1, <1>9, <2>1 DEF DeletionStep, RemoveFinalizer, workload
<1>10. CASE ZalandoStep \/ EnvironmentStep
  BY <1>1, <1>10 DEF ZalandoStep, ZalandoSecrets, EnvironmentStep, Crash, UserEdit, UserDelete, Settle,
                     Outage, Recover, KubeconfigLost, KubeconfigRestored, workload
<1>11. CASE UNCHANGED vars
  BY <1>1, <1>11 DEF vars
<1> QED
  BY <1>3, <1>5, <1>7, <1>8, <1>9, <1>10, <1>11 DEF Next, OperatorStep

-----------------------------------------------------------------------------
(* Where a standby replicates from.                                        *)

\* c is a standby of p by host, or by an alias of its own cluster that resolves to p.
Replicates(c, p) ==
  /\ pg[c].mode = "standby"
  /\ pg[c].from = p \/ (pg[c].from = NamespaceOf[c] /\ Resolve(alias[c]) = p)

LEMMA UpstreamIs == \A c, p \in Cluster : Upstream(c) = p <=> Replicates(c, p)
<1> SUFFICES ASSUME NEW c \in Cluster, NEW p \in Cluster
             PROVE  Upstream(c) = p <=> Replicates(c, p)
  OBVIOUS
<1>1. NamespaceOf[c] \in Namespace /\ NamespaceOf[c] \notin Cluster
  BY NamespaceAssumption
<1>2. CASE pg[c].mode = "standby" /\ pg[c].from \in Cluster
  BY <1>1, <1>2 DEF Upstream, Replicates
<1>3. CASE pg[c].mode = "standby" /\ pg[c].from = NamespaceOf[c]
  BY <1>1, <1>3 DEF Upstream, Replicates
<1>4. CASE ~(pg[c].mode = "standby" /\ (pg[c].from \in Cluster \/ pg[c].from = NamespaceOf[c]))
  BY <1>4, NoneAssumption DEF Upstream, Replicates
<1> QED
  BY <1>2, <1>3, <1>4

\* The same after a step.
LEMMA UpstreamWillBe == (\A c, p \in Cluster : Upstream(c) = p <=> Replicates(c, p))'
BY UpstreamIs, PTL

\* The standbys of a valid spec are its targets but the primary.
LEMMA StandbysOfValid ==
  ASSUME NEW s \in SpecType, validateSpec(s)
  PROVE  /\ Targets(s) = Standbys(s) \cup {primaryClusterName(s)}
         /\ primaryClusterName(s) \notin Standbys(s)
         /\ primaryClusterName(s) \in Cluster
<1>1. /\ Primaries(s) = {primaryClusterName(s)}
      /\ primaryClusterName(s) \in Cluster
  BY ValidPrimary
<1> QED
  BY <1>1 DEF Targets, Standbys, Primaries, SpecType

-----------------------------------------------------------------------------
(* The invariant behind ReadyMeansConverged.                               *)

\* The status of an observed generation belongs to a valid spec with no failover pending, and
\* a failover pass runs over a generation that is not observed.
ObservedInv ==
  /\ observed => validateSpec(spec) /\ status.currentPrimary = primaryClusterName(spec)
  /\ pc \in FailoverStage => ~observed
  /\ meta = "new" => pc = "idle" /\ ~observed
  /\ pc = "delete" => meta = "deleting"

\* A normal or auto-failover pass has the status it read, and the spec as long as the
\* generation has not moved.
ReadInv ==
  pc \in NormalStage \cup AutoStage =>
    /\ validateSpec(mc.spec)
    /\ mc.status.currentPrimary = status.currentPrimary
    /\ mc.status.phase = status.phase
    /\ status.currentPrimary \in {None, SpecPrimary}
    /\ pc \in NormalStage => /\ fresh \/ observed => mc.spec = spec
                             /\ Targets(mc.spec) \subseteq mc.status.entries

\* The postgresql of c replicates through the alias of c, which leads to the copy's primary.
Follows(c) == pg[c] = StandbyOf(NamespaceOf[c]) /\ Resolve(alias[c]) = SpecPrimary

\* What the Ready conditions of the copy mean once the pass has set them.
LoopInv ==
  /\ pc = "secrets" => pg[SpecPrimary].mode = "primary"
  /\ pc \in {"creds", "standby"} /\ SpecPrimary \in mc.status.ready => pg[SpecPrimary].mode = "primary"
  /\ pc = "standby" =>
       /\ todo \subseteq Standbys(mc.spec)
       /\ SpecPrimary \in mc.status.ready =>
            \A c \in (ReachableStandbys \cap mc.status.ready) \ todo : Follows(c)

ReadyInv == ObservedInv /\ ReadInv /\ LoopInv /\ ReadyMeansConverged

LEMMA ReadyInit == Init => ReadyInv
BY DEF Init, ReadyInv, ObservedInv, ReadInv, LoopInv, ReadyMeansConverged,
       FailoverStage, NormalStage, AutoStage

\* Outside the normal and the auto-failover pass only the object counts.
LEMMA ReadyElsewhere ==
  ASSUME ObservedInv', ReadyMeansConverged', pc' \notin NormalStage \cup AutoStage
  PROVE  ReadyInv'
BY DEF ReadyInv, ReadInv, LoopInv, NormalStage

\* Converged survives a step that leaves the resources alone.
LEMMA ConvergedFrame ==
  ASSUME ReadyMeansConverged, UNCHANGED <<pg, alias>>,
         observed' => observed /\ spec' = spec,
         status'.phase = "Ready" => status.phase = "Ready",
         meta' = "active" => meta = "active"
  PROVE  ReadyMeansConverged'
BY DEF ReadyMeansConverged, Converged, Upstream

LEMMA ReadyStart ==
  ASSUME TypeInv, ReadyInv, StartPass
  PROVE  ReadyInv'
<1> USE DEF TypeInv, TypeOK
<1>1. CASE AddFinalizer
  <2>1. /\ meta = "new" /\ meta' = "active" /\ UNCHANGED <<spec, observed, status, pg, alias, pc>>
    BY <1>1 DEF AddFinalizer, Idle, workload, pass
  <2>2. pc' = "idle" /\ ~observed'
    BY <2>1 DEF ReadyInv, ObservedInv
  <2> QED
    BY <2>1, <2>2, ReadyElsewhere
       DEF ObservedInv, ReadyMeansConverged, FailoverStage, NormalStage, AutoStage
<1>2. CASE RejectSpec
  <2>1. /\ pc = "idle" /\ pc' = "idle" /\ UNCHANGED <<meta, spec, observed>> /\ ~validateSpec(spec)
    BY <1>2 DEF RejectSpec, Idle, pass
  <2>2. ~observed'
    BY <2>1 DEF ReadyInv, ObservedInv
  <2> QED
    BY <2>1, <2>2, ReadyElsewhere
       DEF ObservedInv, ReadyMeansConverged, FailoverStage, NormalStage, AutoStage
<1>3. CASE StartFailover
  <2>1. /\ pc' = "begin" /\ meta = "active" /\ UNCHANGED <<meta, spec, observed, status>>
        /\ FailoverPending(spec, status)
    BY <1>3 DEF StartFailover, Reconcilable, Idle, Read, object
  <2>2. ~observed'
    BY <2>1 DEF ReadyInv, ObservedInv, FailoverPending
  <2> QED
    BY <2>1, <2>2, ReadyElsewhere
       DEF ObservedInv, ReadyMeansConverged, FailoverStage, NormalStage, AutoStage
<1>4. CASE StartReconcile \/ StartAutoFailover
  <2>1. /\ pc' \in {"ensure", "auto"} /\ meta = "active"
        /\ UNCHANGED <<meta, spec, observed, status, pg, alias>>
        /\ mc'.spec = spec /\ mc'.status = StatusRead
        /\ validateSpec(spec) /\ ~FailoverPending(spec, status)
    BY <1>4 DEF StartReconcile, StartAutoFailover, Reconcilable, Idle, Read, object, workload
  <2>2. /\ StatusRead.currentPrimary = status.currentPrimary
        /\ StatusRead.phase = status.phase
        /\ Targets(spec) \subseteq StatusRead.entries
    BY DEF StatusRead, StatusType, ensureClusterStatusRoles
  <2>3. ReadInv'
    BY <2>1, <2>2 DEF ReadInv, FailoverPending, SpecPrimary, Targets
  <2>4. ObservedInv'
    BY <2>1 DEF ReadyInv, ObservedInv, FailoverStage
  <2>5. ReadyMeansConverged'
    BY <2>1, ConvergedFrame DEF ReadyInv
  <2>6. LoopInv'
    BY <2>1 DEF LoopInv
  <2> QED
    BY <2>3, <2>4, <2>5, <2>6 DEF ReadyInv
<1>5. CASE StartDeletion
  <2>1. /\ pc' = "delete" /\ meta = "deleting" /\ UNCHANGED <<meta, spec, observed, status>>
    BY <1>5 DEF StartDeletion, Idle, Read, object
  <2>2. ObservedInv'
    BY <2>1 DEF ReadyInv, ObservedInv, FailoverStage
  <2> QED
    BY <2>1, <2>2, ReadyElsewhere DEF ReadyMeansConverged, NormalStage, AutoStage
<1> QED
  BY <1>1, <1>2, <1>3, <1>4, <1>5 DEF StartPass

\* A step of the normal pass that does not end it leaves the object and most of the copy alone.
NormalGoing ==
  /\ pc \in NormalStage /\ pc' \in NormalStage
  /\ UNCHANGED <<meta, spec, observed, status, fresh, clients>>
  /\ mc'.spec = mc.spec
  /\ mc'.status.currentPrimary = mc.status.currentPrimary
  /\ mc'.status.phase = mc.status.phase
  /\ mc'.status.entries = mc.status.entries

LEMMA NormalKeeps ==
  ASSUME ReadyInv, NormalGoing
  PROVE  ObservedInv' /\ ReadInv' /\ SpecPrimary' = SpecPrimary /\ ReachableStandbys' = ReachableStandbys
<1>1. ObservedInv'
  BY DEF ReadyInv, ObservedInv, NormalGoing, NormalStage, FailoverStage
<1>2. SpecPrimary' = SpecPrimary /\ ReachableStandbys' = ReachableStandbys
  BY DEF NormalGoing, SpecPrimary, ReachableStandbys, Standbys
<1>3. ReadInv'
  BY <1>2 DEF ReadyInv, ReadInv, NormalGoing, Targets
<1> QED
  BY <1>1, <1>2, <1>3

\* Converged survives a step that makes the spec's primary a primary again and keeps every
\* upstream that leads to it.
LEMMA ConvergedAgain ==
  ASSUME ReadyInv, NormalGoing,
         pg[SpecPrimary].mode = "primary" => pg'[SpecPrimary].mode = "primary",
         \A c \in Targets(mc.spec) \ {SpecPrimary} : Upstream(c) = SpecPrimary => Upstream(c)' = SpecPrimary
  PROVE  ReadyMeansConverged'
<1> SUFFICES ASSUME meta' = "active", status'.phase = "Ready", observed'
             PROVE  Converged(spec)'
  BY DEF ReadyMeansConverged
<1>1. observed /\ mc.spec = spec /\ spec' = spec /\ Converged(spec)
  BY DEF ReadyInv, ReadInv, ReadyMeansConverged, NormalGoing
<1>2. SpecPrimary = primaryClusterName(spec)
  BY <1>1 DEF SpecPrimary
<1> QED
  BY <1>1, <1>2 DEF Converged, Upstream

LEMMA ReadyNormal ==
  ASSUME OneKind, TypeInv, AliasKind, ReadyInv, NormalStep
  PROVE  ReadyInv'
<1> USE DEF TypeInv, TypeOK
<1>1. pc \in NormalStage
  BY DEF NormalStep, reconcilePrimary, CheckSecrets, reconcileCredentials, UpdateStatus, PassDone,
         EnsureService, reconcileStandby, NormalStage
<1>2. /\ validateSpec(mc.spec) /\ mc.spec \in SpecType
      /\ SpecPrimary \in Cluster /\ SpecPrimary \notin Standbys(mc.spec)
      /\ Targets(mc.spec) = Standbys(mc.spec) \cup {SpecPrimary}
  BY <1>1, StandbysOfValid DEF PassType, SpecPrimary
\* A step that leaves the resources of all clusters alone.
<1>3. ASSUME NormalGoing, UNCHANGED <<pg, alias>>, LoopInv'
      PROVE  ReadyInv'
  BY <1>3, NormalKeeps, ConvergedFrame DEF ReadyInv, NormalGoing
<1>4. ASSUME NEW c \in Cluster, EnsureService(c)
      PROVE  ReadyInv'
  <2>1. NormalGoing /\ UNCHANGED <<pg, alias>> /\ pc' = "ensure"
    BY <1>1, <1>4 DEF EnsureService, Goto, NormalGoing, object, PassType, StatusType, NormalStage
  <2> QED
    BY <1>3, <2>1 DEF LoopInv
<1>5. CASE reconcilePrimary
  <2>1. /\ NormalGoing /\ UNCHANGED alias
        /\ pg' \in {pg, [pg EXCEPT ![SpecPrimary] = Primary]}
    BY <1>1, <1>5 DEF reconcilePrimary, Goto, GotoReady, NormalGoing, object, PassType, StatusType, NormalStage
  <2>2. \/ pc' = "secrets" /\ pg' = [pg EXCEPT ![SpecPrimary] = Primary]
        \/ pc' = "standby" /\ todo' = {} /\ SpecPrimary \notin mc'.status.ready
    BY <1>5 DEF reconcilePrimary, Goto, GotoReady, PassType, StatusType
  <2>3. SpecPrimary' = SpecPrimary
    BY <2>1, NormalKeeps
  <2>4. LoopInv'
    BY <1>2, <2>2, <2>3 DEF LoopInv, Primary
  <2>5. ReadyMeansConverged'
    <3>1. \A c \in Targets(mc.spec) \ {SpecPrimary} : Upstream(c)' = Upstream(c)
      BY <1>2, <2>1 DEF Upstream, Targets
    <3>2. pg[SpecPrimary].mode = "primary" => pg'[SpecPrimary].mode = "primary"
      BY <1>2, <2>1 DEF Primary
    <3> QED
      BY <2>1, <3>1, <3>2, ConvergedAgain
  <2> QED
    BY <2>1, <2>4, <2>5, NormalKeeps DEF ReadyInv
<1>6. CASE CheckSecrets
  <2>1. NormalGoing /\ UNCHANGED <<pg, alias>> /\ pc = "secrets"
    BY <1>1, <1>6 DEF CheckSecrets, Goto, GotoReady, NormalGoing, object, workload, PassType, StatusType, NormalStage
  <2>2. \/ pc' = "creds"
        \/ pc' = "standby" /\ todo' = {} /\ SpecPrimary \notin mc'.status.ready
    BY <1>6 DEF CheckSecrets, Goto, GotoReady, PassType, StatusType
  <2>3. SpecPrimary' = SpecPrimary /\ pg[SpecPrimary].mode = "primary"
    BY <2>1, NormalKeeps DEF ReadyInv, LoopInv
  <2>4. LoopInv'
    BY <2>1, <2>2, <2>3 DEF LoopInv
  <2> QED
    BY <1>3, <2>1, <2>4
<1>7. CASE reconcileCredentials
  <2>1. /\ NormalGoing /\ UNCHANGED <<pg, alias, mc>> /\ pc = "creds" /\ pc' = "standby"
        /\ todo' = ReachableStandbys
    BY <1>1, <1>7 DEF reconcileCredentials, Goto, NormalGoing, object, NormalStage
  <2>2. SpecPrimary' = SpecPrimary /\ ReachableStandbys' = ReachableStandbys
    BY <2>1, NormalKeeps
  <2>3. LoopInv'
    BY <2>1, <2>2 DEF ReadyInv, LoopInv, ReachableStandbys, Standbys
  <2> QED
    BY <1>3, <2>1, <2>3
<1>8. ASSUME NEW c \in Cluster, reconcileStandby(c)
      PROVE  ReadyInv'
  <2>1. /\ NormalGoing /\ pc = "standby" /\ pc' = "standby" /\ todo' = todo \ {c} /\ c \in todo
    BY <1>1, <1>8 DEF reconcileStandby, IsFirst, Goto, GotoReady, NormalGoing, object, PassType, StatusType, NormalStage
  <2>2. /\ SpecPrimary' = SpecPrimary /\ ReachableStandbys' = ReachableStandbys
        /\ c \in Standbys(mc.spec) /\ c # SpecPrimary
    BY <1>2, <2>1, NormalKeeps DEF ReadyInv, LoopInv
  <2>3. /\ \A d \in Cluster \ {c} : pg'[d] = pg[d] /\ alias'[d] = alias[d]
        /\ pg'[c] \in {pg[c], StandbyOf(NamespaceOf[c])}
    BY <1>8 DEF reconcileStandby
  <2>4. mc'.status.ready \in {mc.status.ready \cup {c}, mc.status.ready \ {c}}
    BY <1>8 DEF reconcileStandby, GotoReady, PassType, StatusType
  <2>5. /\ Resolve(EnsurePrimaryAlias(alias[c], SpecPrimary)) = SpecPrimary
        /\ \A a \in InterruptedAlias(alias[c], SpecPrimary) :
             Resolve(alias[c]) = SpecPrimary => Resolve(a) = SpecPrimary
    BY <1>2, AliasResolves DEF AliasKind
  <2>6. ASSUME c \in mc'.status.ready
        PROVE  Follows(c)'
    <3>1. /\ alias' = [alias EXCEPT ![c] = EnsurePrimaryAlias(@, SpecPrimary)]
          /\ pg' = [pg EXCEPT ![c] = StandbyOf(NamespaceOf[c])]
      BY <1>8, <2>6 DEF reconcileStandby, GotoReady, PassType, StatusType
    <3> QED
      BY <2>2, <2>5, <3>1 DEF Follows
  <2>7. Upstream(c) = SpecPrimary => Upstream(c)' = SpecPrimary
    <3>1. Upstream(c)' = SpecPrimary <=> Replicates(c, SpecPrimary)'
      BY <1>2, <2>2, UpstreamWillBe
    <3>2. Upstream(c) = SpecPrimary <=> Replicates(c, SpecPrimary)
      BY <1>2, UpstreamIs
    <3>3. Replicates(c, SpecPrimary)' <=>
            /\ pg'[c].mode = "standby"
            /\ pg'[c].from = SpecPrimary \/ (pg'[c].from = NamespaceOf[c] /\ Resolve(alias'[c]) = SpecPrimary)
      BY <2>2 DEF Replicates
    <3>4. \/ pg'[c] = pg[c] /\ alias'[c] \in {alias[c]} \cup InterruptedAlias(alias[c], SpecPrimary)
          \/ pg'[c] = StandbyOf(NamespaceOf[c]) /\ alias'[c] = EnsurePrimaryAlias(alias[c], SpecPrimary)
      BY <1>8 DEF reconcileStandby
    <3>5. CASE pg'[c] = pg[c] /\ alias'[c] \in {alias[c]} \cup InterruptedAlias(alias[c], SpecPrimary)
      BY <2>2, <2>5, <3>1, <3>2, <3>3, <3>5 DEF Replicates
    <3>6. CASE pg'[c] = StandbyOf(NamespaceOf[c]) /\ alias'[c] = EnsurePrimaryAlias(alias[c], SpecPrimary)
      BY <2>2, <2>5, <3>1, <3>3, <3>6 DEF StandbyOf
    <3> QED
      BY <3>4, <3>5, <3>6
  <2>8. LoopInv'
    <3>1. SpecPrimary \in mc'.status.ready => SpecPrimary \in mc.status.ready
      BY <2>2, <2>4
    <3>2. pg'[SpecPrimary] = pg[SpecPrimary]
      BY <1>2, <2>2, <2>3
    <3>3. ASSUME SpecPrimary \in mc'.status.ready,
                 NEW d \in (ReachableStandbys \cap mc'.status.ready) \ todo'
          PROVE  Follows(d)'
      <4>1. CASE d = c
        BY <2>6, <3>3, <4>1
      <4>2. CASE d # c
        <5>1. d \in (ReachableStandbys \cap mc.status.ready) \ todo /\ d \in Cluster
          BY <2>1, <2>4, <3>3, <4>2 DEF ReachableStandbys
        <5>2. Follows(d)
          BY <2>1, <3>1, <3>3, <5>1 DEF ReadyInv, LoopInv
        <5> QED
          BY <2>2, <2>3, <4>2, <5>1, <5>2 DEF Follows
      <4> QED
        BY <4>1, <4>2
    <3>4. todo' \subseteq Standbys(mc'.spec)
      BY <2>1 DEF ReadyInv, LoopInv, NormalGoing
    <3> QED
      BY <2>1, <2>2, <3>1, <3>2, <3>3, <3>4 DEF ReadyInv, LoopInv, Standbys
  <2>9. ReadyMeansConverged'
    <3>1. \A d \in Targets(mc.spec) \ {SpecPrimary} :
            Upstream(d) = SpecPrimary => Upstream(d)' = SpecPrimary
      BY <2>3, <2>7 DEF Upstream, Targets
    <3>2. pg'[SpecPrimary] = pg[SpecPrimary]
      BY <1>2, <2>2, <2>3
    <3> QED
      BY <2>1, <3>1, <3>2, ConvergedAgain
  <2> QED
    BY <2>1, <2>8, <2>9, NormalKeeps DEF ReadyInv
<1>9. CASE UpdateStatus
  <2>1. /\ UNCHANGED <<meta, spec, pg, alias>> /\ pc' = "idle"
    BY <1>9 DEF UpdateStatus, Return, workload
  <2>2. meta # "new"
    BY <1>1 DEF ReadyInv, ObservedInv, NormalStage
  <2>3. CASE UNCHANGED <<status, observed>>
    <3>1. ObservedInv'
      BY <2>1, <2>2, <2>3 DEF ReadyInv, ObservedInv, FailoverStage
    <3>2. ReadyMeansConverged'
      BY <2>1, <2>3, ConvergedFrame DEF ReadyInv
    <3> QED
      BY <2>1, <3>1, <3>2, ReadyElsewhere DEF NormalStage, AutoStage
  <2>4. CASE /\ status' = [mc.status EXCEPT !.currentPrimary = SpecPrimary, !.phase = FinalPhase]
             /\ observed' = fresh
    <3>1. status'.currentPrimary = SpecPrimary /\ status'.phase = FinalPhase
      BY <2>4 DEF PassType, StatusType
    <3>2. observed' => mc.spec = spec
      BY <1>1, <2>4 DEF ReadyInv, ReadInv
    <3>3. ObservedInv'
      BY <1>2, <2>1, <2>2, <3>1, <3>2 DEF ObservedInv, SpecPrimary, FailoverStage
    <3>4. ASSUME FinalPhase = "Ready"
          PROVE  Converged(mc.spec)
      <4>1. Targets(mc.spec) \subseteq clients /\ mc.status.entries \subseteq mc.status.ready
        <5>1. Targets(mc.spec) \subseteq clients
          BY <3>4 DEF FinalPhase
        <5>2. Aggregate(mc.status.entries, mc.status.ready, FALSE) = "Ready"
          BY <3>4, <5>1 DEF FinalPhase
        <5> QED
          BY <5>1, <5>2 DEF Aggregate
      <4>2. pc = "standby" /\ todo = {}
        BY <1>2, <1>9, <4>1 DEF UpdateStatus, PassDone
      <4>3. Targets(mc.spec) \subseteq mc.status.ready
        BY <1>1, <4>1 DEF ReadyInv, ReadInv
      <4>4. pg[SpecPrimary].mode = "primary" /\ \A c \in Standbys(mc.spec) : Follows(c)
        BY <1>2, <4>1, <4>2, <4>3 DEF ReadyInv, LoopInv, ReachableStandbys
      <4>5. \A c \in Standbys(mc.spec) : Upstream(c) = SpecPrimary
        <5> SUFFICES ASSUME NEW c \in Standbys(mc.spec) PROVE Upstream(c) = SpecPrimary
          OBVIOUS
        <5>1. c \in Cluster
          BY DEF Standbys
        <5>2. Follows(c)
          BY <4>4
        <5>3. pg[c].mode = "standby" /\ pg[c].from = NamespaceOf[c] /\ Resolve(alias[c]) = SpecPrimary
          BY <5>2 DEF Follows, StandbyOf
        <5> QED
          BY <1>2, <5>1, <5>3, UpstreamIs DEF Replicates
      <4> QED
        BY <1>2, <4>4, <4>5 DEF Converged, SpecPrimary
    <3>5. ReadyMeansConverged'
      BY <2>1, <3>1, <3>2, <3>4 DEF ReadyMeansConverged, Converged, Upstream
    <3> QED
      BY <2>1, <3>3, <3>5, ReadyElsewhere DEF NormalStage, AutoStage
  <2> QED
    BY <1>9, <2>3, <2>4 DEF UpdateStatus
<1> QED
  BY <1>4, <1>5, <1>6, <1>7, <1>8, <1>9 DEF NormalStep

LEMMA ReadyFailover ==
  ASSUME ReadyInv, FailoverStep
  PROVE  ReadyInv'
<1>1. pc \in FailoverStage /\ UNCHANGED <<meta, observed>> /\ pc' \in FailoverStage \cup {"idle"}
  BY DEF FailoverStep, FailoverBegin, FailoverPlan, FailoverRefused, demoteCluster, promoteCluster,
         FailoverCommit, repoint, UpdateAlias, Apply, AfterRepoint, Goto, Return, object, FailoverStage
<1>2. ~observed' /\ meta # "new"
  BY <1>1 DEF ReadyInv, ObservedInv, FailoverStage
<1> QED
  BY <1>1, <1>2, ReadyElsewhere
     DEF ObservedInv, ReadyMeansConverged, FailoverStage, NormalStage, AutoStage

LEMMA ReadyAutoFailover ==
  ASSUME TypeInv, ReadyInv, AutoFailoverStep
  PROVE  ReadyInv'
<1> USE DEF TypeInv, TypeOK
<1>1. pc \in AutoStage /\ UNCHANGED <<meta, pg, alias>>
  BY DEF AutoFailoverStep, AutoFailoverWaits, PatchSpec, ResetFailureCount, AutoStage, workload
<1>2. /\ mc.status.currentPrimary = status.currentPrimary /\ mc.status.phase = status.phase
      /\ meta # "new"
  BY <1>1 DEF ReadyInv, ReadInv, ObservedInv, AutoStage
<1>3. /\ status' \in {status, mc.status}
      /\ observed' => observed /\ spec' = spec
  BY DEF AutoFailoverStep, AutoFailoverWaits, PatchSpec, PromoteInSpec, ResetFailureCount
<1>4. ReadyMeansConverged'
  BY <1>1, <1>2, <1>3, ConvergedFrame DEF ReadyInv
<1>5. pc' \in {"idle", "autoStatus"}
  BY DEF AutoFailoverStep, AutoFailoverWaits, PatchSpec, ResetFailureCount, Goto, Return
<1>6. ObservedInv'
  BY <1>1, <1>2, <1>3, <1>5 DEF ReadyInv, ObservedInv, FailoverStage
<1>7. CASE pc' = "idle"
  BY <1>4, <1>6, <1>7, ReadyElsewhere DEF NormalStage, AutoStage
<1>8. CASE pc' = "autoStatus"
  <2>1. UNCHANGED status /\ mc' = [mc EXCEPT !.status.failures = 0]
    BY <1>8 DEF AutoFailoverStep, AutoFailoverWaits, PatchSpec, ResetFailureCount, Return
  <2>2. mc'.spec = mc.spec /\ mc'.status.currentPrimary = mc.status.currentPrimary
        /\ mc'.status.phase = mc.status.phase
    BY <2>1 DEF PassType, StatusType
  <2>3. ReadInv'
    BY <1>1, <1>8, <2>1, <2>2 DEF ReadyInv, ReadInv, SpecPrimary, NormalStage
  <2>4. LoopInv'
    BY <1>8 DEF LoopInv
  <2> QED
    BY <1>4, <1>6, <2>3, <2>4 DEF ReadyInv
<1> QED
  BY <1>5, <1>7, <1>8

LEMMA ReadyDeletion ==
  ASSUME ReadyInv, DeletionStep
  PROVE  ReadyInv'
<1>1. /\ pc = "delete" /\ UNCHANGED <<spec, observed, status>>
      /\ pc' \in {"idle", "delete"} /\ meta' \in {meta, "gone"}
      /\ pc' = "delete" => UNCHANGED meta
  BY DEF DeletionStep, RemoveFinalizer, DeleteTarget, Goto, Return, object
<1>2. meta = "deleting"
  BY <1>1 DEF ReadyInv, ObservedInv
<1> QED
  BY <1>1, <1>2, ReadyElsewhere
     DEF ReadyInv, ObservedInv, ReadyMeansConverged, FailoverStage, NormalStage, AutoStage

LEMMA ReadyEnvironment ==
  ASSUME TypeInv, ReadyInv, ZalandoStep \/ EnvironmentStep
  PROVE  ReadyInv'
<1>1. ASSUME UNCHANGED <<meta, spec, observed, status, pg, alias, pc, mc, fresh, clients, todo>>
      PROVE  ReadyInv'
  BY <1>1 DEF ReadyInv, ObservedInv, ReadInv, LoopInv, ReadyMeansConverged, Converged, Upstream,
              SpecPrimary, Follows, ReachableStandbys
<1>2. CASE ZalandoStep
  BY <1>1, <1>2 DEF ZalandoStep, ZalandoSecrets, object, pass
<1>3. CASE Settle
  BY <1>1, <1>3 DEF Settle, object, workload, pass
<1>4. ASSUME NEW c \in Cluster, Outage(c) \/ Recover(c) \/ KubeconfigLost(c) \/ KubeconfigRestored(c)
      PROVE  ReadyInv'
  BY <1>1, <1>4 DEF Outage, Recover, KubeconfigLost, KubeconfigRestored, object, workload, pass
<1>5. CASE Crash
  <2>1. UNCHANGED <<meta, spec, observed, status, pg, alias>> /\ pc' = "idle"
    BY <1>5 DEF Crash, Return, object, workload
  <2>2. ObservedInv'
    BY <2>1 DEF ReadyInv, ObservedInv, FailoverStage
  <2>3. ReadyMeansConverged'
    BY <2>1, ConvergedFrame DEF ReadyInv
  <2> QED
    BY <2>1, <2>2, <2>3, ReadyElsewhere DEF NormalStage, AutoStage
<1>6. CASE UserEdit
  <2>1. /\ UNCHANGED <<meta, status, pg, alias, pc, mc, clients, todo>> /\ ~observed' /\ ~fresh'
    BY <1>6 DEF UserEdit, workload
  <2>2. ObservedInv' /\ ReadyMeansConverged'
    BY <2>1 DEF ReadyInv, ObservedInv, ReadyMeansConverged
  <2>3. ReadInv'
    BY <2>1 DEF ReadyInv, ReadInv, SpecPrimary, NormalStage, AutoStage
  <2>4. LoopInv'
    BY <2>1 DEF ReadyInv, LoopInv, SpecPrimary, ReachableStandbys, Follows
  <2> QED
    BY <2>2, <2>3, <2>4 DEF ReadyInv
<1>7. CASE UserDelete
  <2>1. /\ UNCHANGED <<spec, observed, status, pg, alias, pc, mc, fresh, clients, todo>>
        /\ meta \in {"new", "active"} /\ meta' \in {"gone", "deleting"}
    BY <1>7 DEF UserDelete, workload, pass
  <2>2. ObservedInv' /\ ReadyMeansConverged'
    BY <2>1 DEF ReadyInv, ObservedInv, ReadyMeansConverged
  <2>3. ReadInv' /\ LoopInv'
    BY <2>1 DEF ReadyInv, ReadInv, LoopInv, SpecPrimary, ReachableStandbys, Follows
  <2> QED
    BY <2>2, <2>3 DEF ReadyInv
<1> QED
  BY <1>2, <1>3, <1>4, <1>5, <1>6, <1>7 DEF EnvironmentStep

LEMMA ReadyInvariance ==
  ASSUME OneKind
  PROVE  Spec => []ReadyInv
<1>1. Spec => []AliasKind
  BY KindInit, KindStep, TypeInvariance, OneKind, PTL DEF Spec
<1>2. TypeInv /\ AliasKind /\ ReadyInv /\ [Next]_vars => ReadyInv'
  <2>1. CASE UNCHANGED vars
    BY <2>1 DEF vars, ReadyInv, ObservedInv, ReadInv, LoopInv, ReadyMeansConverged, Converged, Upstream,
                SpecPrimary, Follows, ReachableStandbys
  <2> QED
    BY <2>1, ReadyStart, ReadyNormal, ReadyFailover, ReadyAutoFailover, ReadyDeletion, ReadyEnvironment,
       OneKind DEF Next, OperatorStep
<1> QED
  BY <1>1, <1>2, ReadyInit, TypeInvariance, PTL DEF Spec

\* For hosts of one kind, a status that says Ready for the current generation is true in every
\* reachable state: for any clusters, namespaces and thresholds, impatient users included.
THEOREM ReadyMeansConvergedCorrect ==
  ASSUME OneKind
  PROVE  Spec => []ReadyMeansConverged
<1>1. ReadyInv => ReadyMeansConverged
  BY DEF ReadyInv
<1> QED
  BY <1>1, ReadyInvariance, OneKind, PTL

-----------------------------------------------------------------------------
(* A failover is recorded only once it has settled.                        *)

SameNamespace == \A c, d \in Cluster : NamespaceOf[c] = NamespaceOf[d]

Repointed(c) == pg[c] = StandbyOf(NamespaceOf[newPrimary])

\* How far the orchestrator has come: what it has visited follows the new primary.
ProgressInv ==
  /\ pc \in {"promote", "repoint", "alias"} => pg[OldPrimary] = StandbyOf(newPrimary)
  /\ pc = "repoint" => todo \subseteq Others /\ \A c \in Others \ todo : Repointed(c)
  /\ pc = "alias" => /\ \A c \in Others : Repointed(c)
                     /\ \A c \in Others \ todo : Resolve(alias[c]) = newPrimary

LEMMA ProgressElsewhere ==
  ASSUME pc' \notin {"promote", "repoint", "alias"}
  PROVE  ProgressInv'
BY DEF ProgressInv

LEMMA ProgressFrame ==
  ASSUME ProgressInv, UNCHANGED <<pg, alias, pc, mc, todo, newPrimary>>
  PROVE  ProgressInv'
BY DEF ProgressInv, Repointed, Others, OldPrimary

\* A failover pass has the record it read, and with a plan two clusters to switch between.
PlannedInv ==
  /\ pc \in FailoverStage => mc.status.currentPrimary = status.currentPrimary
  /\ pc \in PlannedStage => newPrimary # OldPrimary /\ newPrimary \in Primaries(mc.spec)

LEMMA PlannedFrame ==
  ASSUME PlannedInv, UNCHANGED <<mc, newPrimary>>, status'.currentPrimary = status.currentPrimary,
         pc' = pc \/ (pc \in PlannedStage /\ pc' \in PlannedStage)
  PROVE  PlannedInv'
BY DEF PlannedInv, FailoverStage, PlannedStage, OldPrimary, Primaries

LEMMA PlannedStep == TypeInv /\ PlannedInv /\ [Next]_vars => PlannedInv'
<1> SUFFICES ASSUME TypeInv, PlannedInv, [Next]_vars PROVE PlannedInv'
  OBVIOUS
<1> USE DEF TypeInv, TypeOK
<1>1. ASSUME pc' \notin FailoverStage PROVE PlannedInv'
  BY <1>1 DEF PlannedInv, FailoverStage, PlannedStage
<1>2. CASE StartFailover
  <2>1. pc' = "begin" /\ mc'.status.currentPrimary = status.currentPrimary /\ UNCHANGED status
    BY <1>2 DEF StartFailover, Read, object, StatusType
  <2> QED
    BY <2>1 DEF PlannedInv, PlannedStage
<1>3. CASE StartPass
  BY <1>1, <1>2, <1>3 DEF StartPass, AddFinalizer, RejectSpec, Idle, StartReconcile, StartAutoFailover,
                          StartDeletion, Read, pass, FailoverStage
<1>4. CASE NormalStep
  BY <1>1, <1>4 DEF NormalStep, reconcilePrimary, CheckSecrets, reconcileCredentials, UpdateStatus,
                    EnsureService, reconcileStandby, Goto, GotoReady, Return, FailoverStage
<1>5. CASE AutoFailoverStep \/ DeletionStep
  BY <1>1, <1>5 DEF AutoFailoverStep, AutoFailoverWaits, PatchSpec, ResetFailureCount, DeletionStep,
                    RemoveFinalizer, DeleteTarget, Goto, Return, FailoverStage
<1>6. CASE FailoverBegin
  <2> DEFINE st == [mc.status EXCEPT !.phase = "FailingOver", !.failingOver = TRUE]
  <2>1. st.currentPrimary = mc.status.currentPrimary /\ status.currentPrimary = mc.status.currentPrimary
    BY <1>6 DEF FailoverBegin, PlannedInv, FailoverStage, PassType, StatusType
  <2>2. mc'.status = st /\ status' \in {status, st} /\ pc' = "plan"
    BY <1>6 DEF FailoverBegin, Goto, PassType
  <2> HIDE DEF st
  <2> QED
    BY <2>1, <2>2 DEF PlannedInv, PlannedStage
<1>7. CASE FailoverPlan
  <2>1. /\ pc = "plan" /\ pc' = "demote" /\ UNCHANGED <<mc, status>>
        /\ newPrimary' \in Primaries(mc.spec) \ {OldPrimary}
    BY <1>7 DEF FailoverPlan, Planned, IsLast, object
  <2> QED
    BY <2>1 DEF PlannedInv, FailoverStage, OldPrimary, Primaries
<1>8. ASSUME NEW c, NEW q, NEW T, NEW s \in PlannedStage, pc \in PlannedStage, Apply(c, q, s, T)
      PROVE  PlannedInv'
  BY <1>1, <1>8, PlannedFrame DEF Apply, Goto, Return, object, FailoverStage
<1>9. CASE demoteCluster \/ promoteCluster \/ (\E c \in Cluster : repoint(c))
  <2>1. /\ \A T : AfterRepoint(T) \in PlannedStage
        /\ "demote" \in PlannedStage /\ "promote" \in PlannedStage /\ "repoint" \in PlannedStage
    BY DEF AfterRepoint, PlannedStage
  <2>2. CASE demoteCluster
    BY <1>8, <2>1, <2>2 DEF demoteCluster
  <2>3. CASE promoteCluster
    BY <1>8, <2>1, <2>3 DEF promoteCluster
  <2>4. ASSUME NEW c \in Cluster, repoint(c) PROVE PlannedInv'
    BY <1>8, <2>1, <2>4 DEF repoint
  <2> QED
    BY <1>9, <2>2, <2>3, <2>4
<1>10. ASSUME NEW c \in Cluster, UpdateAlias(c) PROVE PlannedInv'
  BY <1>1, <1>10, PlannedFrame DEF UpdateAlias, Goto, Return, object, FailoverStage, PlannedStage
<1>11. CASE FailoverStep
  BY <1>1, <1>6, <1>7, <1>9, <1>10, <1>11
     DEF FailoverStep, FailoverRefused, FailoverCommit, Return, FailoverStage
<1>12. CASE ZalandoStep \/ EnvironmentStep
  BY <1>1, <1>12, PlannedFrame
     DEF ZalandoStep, ZalandoSecrets, EnvironmentStep, Crash, UserEdit, UserDelete, Settle, Outage,
         Recover, KubeconfigLost, KubeconfigRestored, Return, object, pass, FailoverStage
<1>13. CASE UNCHANGED vars
  BY <1>13, PlannedFrame DEF vars
<1> QED
  BY <1>3, <1>4, <1>5, <1>11, <1>12, <1>13 DEF Next, OperatorStep

\* The other standbys are neither the old nor the new primary, and a valid spec has no targets
\* but these three kinds.
LEMMA OthersApart ==
  ASSUME PlannedInv, TypeInv, pc \in PlannedStage
  PROVE  /\ newPrimary \in Cluster /\ OldPrimary \in Cluster /\ newPrimary # OldPrimary
         /\ newPrimary \notin Others /\ OldPrimary \notin Others
         /\ Others \subseteq Cluster
         /\ validateSpec(mc.spec) => Targets(mc.spec) \ {newPrimary} \subseteq Others \cup {OldPrimary}
<1>1. newPrimary \in Cluster /\ mc.spec[newPrimary] = "primary" /\ OldPrimary # newPrimary
  BY DEF PlannedInv, Primaries
<1>2. validateSpec(mc.spec) => Primaries(mc.spec) = {newPrimary}
  BY <1>1 DEF validateSpec, Primaries
<1> QED
  BY <1>1, <1>2 DEF Others, Targets, Primaries, TypeInv

LEMMA ProgressFailover ==
  ASSUME OneKind, TypeInv, PlannedInv, AliasKind, ProgressInv, FailoverStep
  PROVE  ProgressInv'
<1> USE DEF TypeInv, TypeOK
<1>1. CASE Return
  BY <1>1, ProgressElsewhere DEF Return
<1>2. CASE FailoverBegin \/ FailoverPlan \/ FailoverRefused \/ FailoverCommit
  BY <1>2, ProgressElsewhere DEF FailoverBegin, FailoverPlan, FailoverRefused, FailoverCommit, Goto, Return
<1>3. CASE demoteCluster /\ ~Return
  <2>1. /\ pc = "demote" /\ pc' = "promote" /\ UNCHANGED <<mc, newPrimary>>
        /\ pg' = [pg EXCEPT ![OldPrimary] = StandbyOf(newPrimary)]
    BY <1>3 DEF demoteCluster, Apply, Goto
  <2>2. pg'[OldPrimary] = StandbyOf(newPrimary)
    BY <2>1, OthersApart DEF PlannedStage
  <2> QED
    BY <2>1, <2>2 DEF ProgressInv, OldPrimary
\* From the last repointed standby on to the aliases.
<1>4. ASSUME NEW T \in SUBSET Others, pc \in PlannedStage, UNCHANGED <<mc, newPrimary>>,
             pc' = AfterRepoint(T), todo' = ToVisit(T),
             pg'[OldPrimary] = StandbyOf(newPrimary),
             \A c \in Others \ T : pg'[c] = StandbyOf(NamespaceOf[newPrimary])
      PROVE  ProgressInv'
  <2>1. Others' = Others /\ OldPrimary' = OldPrimary
    BY <1>4 DEF Others, OldPrimary
  <2>2. CASE T = {}
    BY <1>4, <2>1, <2>2 DEF ProgressInv, Repointed, AfterRepoint, ToVisit
  <2>3. CASE T # {}
    BY <1>4, <2>1, <2>3 DEF ProgressInv, Repointed, AfterRepoint, ToVisit
  <2> QED
    BY <2>2, <2>3
<1>5. CASE promoteCluster /\ ~Return
  <2>1. /\ pc = "promote" /\ UNCHANGED <<mc, newPrimary>>
        /\ pc' = AfterRepoint(Others) /\ todo' = ToVisit(Others)
        /\ pg' = [pg EXCEPT ![newPrimary] = Primary]
    BY <1>5 DEF promoteCluster, Apply, Goto
  <2>2. pg'[OldPrimary] = StandbyOf(newPrimary)
    BY <2>1, OthersApart DEF ProgressInv, PlannedStage
  <2> QED
    BY <1>4, <2>1, <2>2 DEF PlannedStage
<1>6. ASSUME NEW c \in Cluster, repoint(c), ~Return
      PROVE  ProgressInv'
  <2>1. /\ pc = "repoint" /\ c \in todo /\ UNCHANGED <<mc, newPrimary>>
        /\ pc' = AfterRepoint(todo \ {c}) /\ todo' = ToVisit(todo \ {c})
        /\ pg' = [pg EXCEPT ![c] = StandbyOf(NamespaceOf[newPrimary])]
    BY <1>6 DEF repoint, IsFirst, Apply, Goto
  <2>2. /\ pg[OldPrimary] = StandbyOf(newPrimary)
        /\ todo \subseteq Others
        /\ \A d \in Others \ todo : pg[d] = StandbyOf(NamespaceOf[newPrimary])
    BY <2>1 DEF ProgressInv, Repointed
  <2>3. OldPrimary # c /\ OldPrimary \in Cluster /\ Others \subseteq Cluster
    BY <2>1, <2>2, OthersApart DEF PlannedStage
  <2>4. pg'[OldPrimary] = StandbyOf(newPrimary)
    BY <2>1, <2>2, <2>3
  <2>5. \A d \in Others \ (todo \ {c}) : pg'[d] = StandbyOf(NamespaceOf[newPrimary])
    BY <2>1, <2>2, <2>3
  <2> QED
    BY <1>4, <2>1, <2>2, <2>4, <2>5 DEF PlannedStage
<1>7. ASSUME NEW c \in Cluster, UpdateAlias(c), ~Return
      PROVE  ProgressInv'
  <2>1. /\ pc = "alias" /\ pc' = "alias" /\ todo' = todo \ {c} /\ UNCHANGED <<pg, mc, newPrimary>>
        /\ alias' = [alias EXCEPT ![c] = EnsurePrimaryAlias(@, newPrimary)]
    BY <1>7 DEF UpdateAlias, Goto
  <2>2. newPrimary \in Cluster /\ Others \subseteq Cluster
    BY <2>1, OthersApart DEF PlannedStage
  <2>3. Resolve(alias'[c]) = newPrimary
    BY <2>1, <2>2, AliasResolves DEF AliasKind
  <2>4. \A d \in Others \ todo' : Resolve(alias'[d]) = newPrimary
    BY <2>1, <2>2, <2>3 DEF ProgressInv
  <2> QED
    BY <2>1, <2>4 DEF ProgressInv, Repointed, Others, OldPrimary
<1> QED
  BY <1>1, <1>2, <1>3, <1>5, <1>6, <1>7 DEF FailoverStep

LEMMA ProgressOther ==
  ASSUME ProgressInv, StartPass \/ NormalStep \/ AutoFailoverStep \/ DeletionStep \/ ZalandoStep \/ EnvironmentStep
  PROVE  ProgressInv'
<1>1. CASE StartPass
  BY <1>1, ProgressElsewhere
     DEF StartPass, AddFinalizer, RejectSpec, StartFailover, StartReconcile, StartAutoFailover,
         StartDeletion, Reconcilable, Idle, Read, pass
<1>2. CASE NormalStep
  BY <1>2, ProgressElsewhere
     DEF NormalStep, reconcilePrimary, CheckSecrets, reconcileCredentials, UpdateStatus,
         EnsureService, reconcileStandby, Goto, GotoReady, Return
<1>3. CASE AutoFailoverStep \/ DeletionStep
  BY <1>3, ProgressElsewhere
     DEF AutoFailoverStep, AutoFailoverWaits, PatchSpec, ResetFailureCount, DeletionStep,
         RemoveFinalizer, DeleteTarget, Goto, Return
<1>4. CASE ZalandoStep
  BY <1>4, ProgressFrame DEF ZalandoStep, ZalandoSecrets, pass
<1>5. CASE Crash
  BY <1>5, ProgressElsewhere DEF Crash, Return
<1>6. CASE UserEdit \/ UserDelete \/ Settle
  BY <1>6, ProgressFrame DEF UserEdit, UserDelete, Settle, workload, pass
<1>7. ASSUME NEW c \in Cluster, Outage(c) \/ Recover(c) \/ KubeconfigLost(c) \/ KubeconfigRestored(c)
      PROVE  ProgressInv'
  BY <1>7, ProgressFrame DEF Outage, Recover, KubeconfigLost, KubeconfigRestored, workload, pass
<1> QED
  BY <1>1, <1>2, <1>3, <1>4, <1>5, <1>6, <1>7 DEF EnvironmentStep

\* The recorded primary moves in FailoverCommit only.
LEMMA RecordMoves ==
  ASSUME TypeInv, ReadyInv, PlannedInv, [Next]_vars,
         status.currentPrimary \notin {None, status'.currentPrimary}
  PROVE  FailoverCommit /\ status'.currentPrimary = newPrimary
<1> USE DEF TypeInv, TypeOK
<1>1. CASE StartPass
  BY <1>1 DEF StartPass, AddFinalizer, RejectSpec, StartFailover, StartReconcile, StartAutoFailover,
              StartDeletion, object, StatusType
<1>2. CASE UpdateStatus
  <2>1. status.currentPrimary \in {None, SpecPrimary}
    BY <1>2 DEF UpdateStatus, PassDone, ReadyInv, ReadInv, NormalStage
  <2>2. status'.currentPrimary \in {SpecPrimary, status.currentPrimary}
    BY <1>2 DEF UpdateStatus, PassType, StatusType
  <2> QED
    BY <2>1, <2>2
<1>3. CASE NormalStep
  BY <1>2, <1>3 DEF NormalStep, reconcilePrimary, CheckSecrets, reconcileCredentials, EnsureService,
                    reconcileStandby, object
<1>4. CASE FailoverBegin
  <2>1. mc.status.currentPrimary = status.currentPrimary
    BY <1>4 DEF FailoverBegin, PlannedInv, FailoverStage
  <2>2. status' \in {status, [mc.status EXCEPT !.phase = "FailingOver", !.failingOver = TRUE]}
    BY <1>4 DEF FailoverBegin
  <2> QED
    BY <2>1, <2>2 DEF PassType, StatusType
<1>5. CASE FailoverCommit
  BY <1>5 DEF FailoverCommit, StatusType
<1>6. CASE FailoverStep
  BY <1>4, <1>5, <1>6 DEF FailoverStep, FailoverPlan, FailoverRefused, demoteCluster, promoteCluster,
                          repoint, UpdateAlias, Apply, object
<1>7. CASE AutoFailoverStep
  <2>1. pc \in AutoStage /\ status' \in {status, mc.status}
    BY <1>7 DEF AutoFailoverStep, AutoFailoverWaits, PatchSpec, ResetFailureCount, AutoStage
  <2> QED
    BY <2>1 DEF ReadyInv, ReadInv
<1>8. CASE DeletionStep
  BY <1>8 DEF DeletionStep, RemoveFinalizer, DeleteTarget, object
<1>9. CASE ZalandoStep \/ EnvironmentStep
  BY <1>9 DEF ZalandoStep, ZalandoSecrets, EnvironmentStep, Crash, UserEdit, UserDelete, Settle, Outage,
              Recover, KubeconfigLost, KubeconfigRestored, object
<1>10. CASE UNCHANGED vars
  BY <1>10 DEF vars
<1> QED
  BY <1>1, <1>3, <1>6, <1>7, <1>8, <1>9, <1>10 DEF Next, OperatorStep

\* For hosts of one kind and one namespace: when the recorded primary moves, every other target
\* of the spec replicates from the new one already, impatient users included.
THEOREM FailoverSettlesCorrect ==
  ASSUME OneKind, SameNamespace
  PROVE  Spec => FailoverSettles
<1>1. Spec => []AliasKind
  BY KindInit, KindStep, TypeInvariance, OneKind, PTL DEF Spec
<1>2. Spec => []PlannedInv
  <2>1. Init => PlannedInv
    BY DEF Init, PlannedInv, FailoverStage, PlannedStage
  <2> QED
    BY <2>1, PlannedStep, TypeInvariance, PTL DEF Spec
<1>3. Spec => []ProgressInv
  <2>1. Init => ProgressInv
    BY DEF Init, ProgressInv
  <2>2. TypeInv /\ PlannedInv /\ AliasKind /\ ProgressInv /\ [Next]_vars => ProgressInv'
    <3>1. CASE UNCHANGED vars
      BY <3>1, ProgressFrame DEF vars
    <3> QED
      BY <3>1, ProgressFailover, ProgressOther, OneKind DEF Next, OperatorStep
  <2> QED
    BY <1>1, <1>2, <2>1, <2>2, TypeInvariance, PTL DEF Spec
<1>4. ASSUME TypeInv, ReadyInv, PlannedInv, ProgressInv, [Next]_vars, validateSpec(mc.spec),
             status.currentPrimary \notin {None, status'.currentPrimary},
             NEW c \in Targets(mc.spec) \ {status'.currentPrimary}
      PROVE  Upstream(c)' = status'.currentPrimary
  <2>1. /\ pc = "alias" /\ todo = {} /\ UNCHANGED <<pg, alias>>
        /\ status'.currentPrimary = newPrimary
    BY <1>4, RecordMoves DEF FailoverCommit, workload
  <2>2. newPrimary \in Cluster /\ c \in Cluster /\ c \in Others \cup {OldPrimary}
    BY <1>4, <2>1, OthersApart DEF PlannedStage, Targets
  <2>3. CASE c = OldPrimary
    <3>1. pg[c].mode = "standby" /\ pg[c].from = newPrimary
      BY <1>4, <2>1, <2>3 DEF ProgressInv, StandbyOf
    <3>2. Upstream(c) = newPrimary
      BY <2>2, <3>1, UpstreamIs DEF Replicates
    <3> QED
      BY <2>1, <3>2 DEF Upstream
  <2>4. CASE c \in Others
    <3>1. Repointed(c) /\ Resolve(alias[c]) = newPrimary
      BY <1>4, <2>1, <2>4 DEF ProgressInv
    <3>2. pg[c].mode = "standby" /\ pg[c].from = NamespaceOf[c]
      BY <2>2, <3>1, SameNamespace DEF Repointed, StandbyOf, SameNamespace
    <3>3. Upstream(c) = newPrimary
      BY <2>2, <3>1, <3>2, UpstreamIs DEF Replicates
    <3> QED
      BY <2>1, <3>3 DEF Upstream
  <2> QED
    BY <2>2, <2>3, <2>4
<1>5. TypeInv /\ ReadyInv /\ PlannedInv /\ ProgressInv /\ [Next]_vars =>
        [status.currentPrimary \notin {None, status'.currentPrimary} /\ validateSpec(mc.spec) =>
           \A c \in Targets(mc.spec) \ {status'.currentPrimary} :
             Upstream(c)' = status'.currentPrimary]_vars
  BY <1>4
<1> QED
  BY <1>2, <1>3, <1>5, TypeInvariance, ReadyInvariance, OneKind, PTL
     DEF Spec, FailoverSettles
=============================================================================
