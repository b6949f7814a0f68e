--------------------------- MODULE DeletionProofs ---------------------------
(***************************************************************************)
(* A finished deletion leaves nothing behind on the targets whose          *)
(* kubeconfig Secret stays: handleDeletion skips a target it has no client *)
(* for, and that must not cost the others their cleaning.                  *)
(***************************************************************************)
EXTENDS ReconcilerProofs

\* Before the finalizer is set nothing has run.
NewInv ==
  meta = "new" => /\ pc = "idle" /\ svc = {}
                  /\ \A c \in Cluster : pg[c] = NoPostgresql /\ alias[c] = NoAlias

\* The deletion works on the spec of the object, and what it has visited is clean.
DeletingInv ==
  pc = "delete" => /\ meta = "deleting" /\ mc.spec = spec
                   /\ \A c \in (Targets(spec) \ Losable) \ todo : Clean(c, spec)

GoneInv ==
  meta = "gone" => pc = "idle" /\ \A c \in Targets(spec) \ Losable : Clean(c, spec)

CleanInv == Cluster \ Losable \subseteq kubeconfig /\ NewInv /\ DeletingInv /\ GoneInv

LEMMA CleanInit == Init => CleanInv
BY DEF Init, CleanInv, NewInv, DeletingInv, GoneInv

\* A pass over a live or a deleting object goes on outside handleDeletion, or returns.
LEMMA CleanElsewhere ==
  ASSUME CleanInv, UNCHANGED kubeconfig, UNCHANGED meta, meta \notin {"new", "gone"}, pc' # "delete"
  PROVE  CleanInv'
BY DEF CleanInv, NewInv, DeletingInv, GoneInv

\* A pass is in flight over an object that is neither new nor gone.
LEMMA InFlight ==
  ASSUME CleanInv, pc # "idle"
  PROVE  meta \notin {"new", "gone"}
BY DEF CleanInv, NewInv, GoneInv

LEMMA CleanStart ==
  ASSUME TypeInv, CleanInv, StartPass
  PROVE  CleanInv'
<1> USE DEF TypeInv, TypeOK
<1>1. CASE AddFinalizer
  BY <1>1 DEF AddFinalizer, Idle, workload, world, pass, CleanInv, NewInv, DeletingInv, GoneInv
<1>2. CASE RejectSpec
  BY <1>2, CleanElsewhere DEF RejectSpec, Idle, world, pass
<1>3. CASE StartFailover \/ StartReconcile \/ StartAutoFailover
  BY <1>3, CleanElsewhere
     DEF StartFailover, StartReconcile, StartAutoFailover, Reconcilable, Idle, Read, object, world
<1>4. CASE StartDeletion
  <2>1. /\ meta = "deleting" /\ UNCHANGED <<meta, spec, kubeconfig>>
        /\ mc'.spec = spec /\ todo' = Targets(spec)
    BY <1>4 DEF StartDeletion, Idle, Read, object, world
  <2> QED
    BY <2>1 DEF CleanInv, NewInv, DeletingInv, GoneInv, Targets
<1> QED
  BY <1>1, <1>2, <1>3, <1>4 DEF StartPass

LEMMA CleanPass ==
  ASSUME CleanInv, NormalStep \/ FailoverStep \/ AutoFailoverStep
  PROVE  CleanInv'
<1>1. pc # "idle"
  BY DEF NormalStep, reconcilePrimary, CheckSecrets, reconcileCredentials, UpdateStatus, PassDone,
         EnsureService, reconcileStandby, FailoverStep, FailoverBegin, FailoverPlan, FailoverRefused,
         demoteCluster, promoteCluster, repoint, UpdateAlias, FailoverCommit, AutoFailoverStep,
         AutoFailoverWaits, PatchSpec, ResetFailureCount
<1>2. UNCHANGED <<meta, kubeconfig>>
  <2>1. CASE NormalStep
    BY <2>1 DEF NormalStep, reconcilePrimary, CheckSecrets, reconcileCredentials, UpdateStatus,
                EnsureService, reconcileStandby, object, world
  <2>2. CASE FailoverStep
    BY <2>2 DEF FailoverStep, FailoverBegin, FailoverPlan, FailoverRefused, demoteCluster,
                promoteCluster, repoint, UpdateAlias, FailoverCommit, Apply, object, world
  <2>3. CASE AutoFailoverStep
    BY <2>3 DEF AutoFailoverStep, AutoFailoverWaits, PatchSpec, ResetFailureCount, world
  <2> QED
    BY <2>1, <2>2, <2>3
<1>3. pc' # "delete"
  <2>1. CASE NormalStep
    BY <2>1 DEF NormalStep, reconcilePrimary, CheckSecrets, reconcileCredentials, UpdateStatus,
                EnsureService, reconcileStandby, Goto, GotoReady, Return
  <2>2. CASE FailoverStep
    BY <2>2 DEF FailoverStep, FailoverBegin, FailoverPlan, FailoverRefused, demoteCluster,
                promoteCluster, repoint, UpdateAlias, FailoverCommit, Apply, AfterRepoint, Goto, Return
  <2>3. CASE AutoFailoverStep
    BY <2>3 DEF AutoFailoverStep, AutoFailoverWaits, PatchSpec, ResetFailureCount, Goto, Return
  <2> QED
    BY <2>1, <2>2, <2>3
<1> QED
  BY <1>1, <1>2, <1>3, InFlight, CleanElsewhere

LEMMA CleanDeletion ==
  ASSUME TypeInv, CleanInv, DeletionStep
  PROVE  CleanInv'
<1> USE DEF TypeInv, TypeOK
<1>1. /\ pc = "delete" /\ meta = "deleting" /\ mc.spec = spec /\ Cluster \ Losable \subseteq kubeconfig
      /\ \A c \in (Targets(spec) \ Losable) \ todo : Clean(c, spec)
  BY DEF DeletionStep, RemoveFinalizer, DeleteTarget, CleanInv, DeletingInv
<1>2. CASE RemoveFinalizer
  <2>1. UNCHANGED <<spec, workload, kubeconfig>> /\ todo = {} /\ pc' = "idle"
        /\ meta' \in {"gone", "deleting"}
    BY <1>1, <1>2 DEF RemoveFinalizer, Return, world
  <2>2. \A c \in Targets(spec) \ Losable : Clean(c, spec)
    BY <1>1, <2>1
  <2> QED
    BY <1>1, <2>1, <2>2 DEF CleanInv, NewInv, DeletingInv, GoneInv, Clean, Targets, workload
<1>3. ASSUME NEW c \in Cluster, DeleteTarget(c)
      PROVE  CleanInv'
  <2>1. UNCHANGED <<meta, spec, kubeconfig>>
    BY <1>3 DEF DeleteTarget, object, world
  <2>2. CASE Return
    BY <1>1, <2>1, <2>2, CleanElsewhere DEF Return
  <2>3. CASE /\ pg' = [pg EXCEPT ![c] = NoPostgresql]
             /\ svc' = svc \ {c}
             /\ alias' = AliasRemoved(c)
             /\ Goto("delete", todo \ {c})
             /\ UNCHANGED mc
    <3>1. spec[c] = "standby" => alias'[c] = NoAlias
      BY <1>1, <2>3 DEF AliasRemoved, DeleteAlias
    <3>2. \A d \in Cluster \ {c} : pg'[d] = pg[d] /\ alias'[d] = alias[d] /\ (d \in svc' => d \in svc)
      BY <2>3 DEF AliasRemoved
    <3>3. ASSUME NEW d \in (Targets(spec) \ Losable) \ todo'
          PROVE  Clean(d, spec)'
      <4>1. CASE d = c
        BY <2>1, <2>3, <3>1, <4>1 DEF Clean
      <4>2. CASE d # c
        <5>1. d \in (Targets(spec) \ Losable) \ todo /\ d \in Cluster
          BY <2>3, <3>3, <4>2 DEF Goto, Targets
        <5> QED
          BY <1>1, <2>1, <3>2, <4>2, <5>1 DEF Clean
      <4> QED
        BY <4>1, <4>2
    <3>4. \A d \in ((Targets(spec) \ Losable) \ todo)' : Clean(d, spec)'
      BY <2>1, <3>3 DEF Targets
    <3> QED
      BY <1>1, <2>1, <2>3, <3>4 DEF CleanInv, NewInv, DeletingInv, GoneInv
  <2>4. CASE c \notin kubeconfig /\ Goto("delete", todo \ {c}) /\ UNCHANGED <<pg, alias, svc, mc>>
    <3>1. c \in Losable
      BY <1>1, <2>4
    <3>2. \A d \in ((Targets(spec) \ Losable) \ todo)' : Clean(d, spec)'
      BY <1>1, <2>1, <2>4, <3>1 DEF Goto, Targets, Clean
    <3> QED
      BY <1>1, <2>1, <2>4, <3>2 DEF CleanInv, NewInv, DeletingInv, GoneInv
  <2> QED
    BY <1>1, <1>3, <2>2, <2>3, <2>4 DEF DeleteTarget
<1> QED
  BY <1>2, <1>3 DEF DeletionStep

LEMMA CleanEnvironment ==
  ASSUME TypeInv, CleanInv, ZalandoStep \/ EnvironmentStep
  PROVE  CleanInv'
<1> USE DEF TypeInv, TypeOK
<1>1. ASSUME UNCHANGED <<meta, spec, pg, alias, svc, pc, mc, todo>>, Cluster \ Losable \subseteq kubeconfig'
      PROVE  CleanInv'
  BY <1>1 DEF CleanInv, NewInv, DeletingInv, GoneInv, Clean, Targets
<1>2. Cluster \ Losable \subseteq kubeconfig
  BY DEF CleanInv
<1>3. CASE ZalandoStep
  BY <1>1, <1>2, <1>3 DEF ZalandoStep, ZalandoSecrets, object, world, pass
<1>4. CASE Crash
  BY <1>4, InFlight, CleanElsewhere DEF Crash, Return, object, world
<1>5. CASE Settle
  BY <1>1, <1>2, <1>5 DEF Settle, object, workload, pass
<1>6. ASSUME NEW c \in Cluster, Outage(c) \/ Recover(c) \/ KubeconfigLost(c) \/ KubeconfigRestored(c)
      PROVE  CleanInv'
  BY <1>1, <1>2, <1>6
     DEF Outage, Recover, KubeconfigLost, KubeconfigRestored, object, workload, pass
<1>7. CASE UserEdit
  BY <1>7 DEF UserEdit, workload, world, CleanInv, NewInv, DeletingInv, GoneInv
<1>8. CASE UserDelete
  BY <1>8 DEF UserDelete, workload, world, pass, CleanInv, NewInv, DeletingInv, GoneInv, Clean, Targets
<1> QED
  BY <1>3, <1>4, <1>5, <1>6, <1>7, <1>8 DEF EnvironmentStep

\* An object whose finalizer is gone has left nothing on a target whose kubeconfig Secret
\* cannot be lost, for any number of clusters, whatever outages, crashes and failing calls
\* interrupted its deletion, whatever pass was in flight when it was deleted, and whichever
\* other targets were skipped.
THEOREM FinalizedCleanCorrect == Spec => []FinalizedClean
<1>1. TypeInv /\ CleanInv /\ [Next]_vars => CleanInv'
  <2>1. CASE UNCHANGED vars
    BY <2>1 DEF vars, CleanInv, NewInv, DeletingInv, GoneInv, Clean, Targets
  <2> QED
    BY <2>1, CleanStart, CleanPass, CleanDeletion, CleanEnvironment
       DEF Next, OperatorStep
<1>2. CleanInv => FinalizedClean
  BY DEF CleanInv, GoneInv, FinalizedClean
<1> QED
  BY <1>1, <1>2, CleanInit, TypeInvariance, PTL DEF Spec
=============================================================================
