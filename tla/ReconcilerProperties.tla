------------------------ MODULE ReconcilerProperties ------------------------
(***************************************************************************)
(* What the reconciler must keep true, and what comments and documents of  *)
(* the repository say of it.                                               *)
(***************************************************************************)
EXTENDS Reconciler

PassType == [spec : SpecType, status : StatusType]

\* The type invariant of the object, the workload clusters and the pass.
TypeOK ==
  /\ meta \in {"new", "active", "deleting", "gone"}
  /\ spec \in SpecType
  /\ observed \in BOOLEAN
  /\ status \in StatusType
  /\ pg \in [Cluster -> [mode : {"absent", "primary", "standby"},
                         from : Cluster \cup Namespace \cup {None}]]
  /\ alias \in [Cluster -> Alias]
  /\ svc \subseteq Cluster /\ secrets \subseteq Cluster
  /\ up \subseteq Cluster /\ kubeconfig \subseteq Cluster
  /\ settled \in BOOLEAN
  /\ pc \in Stage
  /\ mc \in PassType
  /\ fresh \in BOOLEAN
  /\ clients \subseteq Cluster /\ todo \subseteq Cluster
  /\ newPrimary \in Cluster \cup {None}

Writable == {c \in Cluster : pg[c].mode = "primary"}

\* At no time are two clusters told to run as a writable primary, wherever a failover
\* pass is interrupted and however passes, retries and edits interleave.
NoSplitBrain == \A c, d \in Writable : c = d

NormalStage   == {"ensure", "secrets", "creds", "standby"}
AutoStage     == {"auto", "autoStatus"}
FailoverStage == {"begin", "plan", "demote", "promote", "repoint", "alias"}
PlannedStage  == {"demote", "promote", "repoint", "alias"}

\* No cluster but c is writable among the postgresql resources g.
OnlyPrimary(g, c) == \A d \in Cluster : g[d].mode = "primary" => d = c

\* Between passes: who may be writable, as told by the object alone.
ObjectInv ==
  /\ status.failures > 0 => status.currentPrimary # None
  /\ status.currentPrimary = None =>
       \A d \in Cluster : pg[d].mode = "primary" => Primaries(spec) = {d}
  /\ status.currentPrimary # None =>
       \/ OnlyPrimary(pg, status.currentPrimary)
       \/ validateSpec(spec) /\ OnlyPrimary(pg, primaryClusterName(spec))

\* During a normal or an auto-failover pass: the copy the pass works on is still good.
CopyInv ==
  pc \in NormalStage \cup AutoStage =>
    /\ validateSpec(mc.spec)
    /\ OnlyPrimary(pg, primaryClusterName(mc.spec))
    /\ mc.status.currentPrimary = status.currentPrimary
    /\ status.currentPrimary \in {None, primaryClusterName(mc.spec)}
    /\ status.currentPrimary = None => spec = mc.spec /\ pc \in NormalStage

\* During a failover pass: nobody moves the spec, and from the promotion on the old
\* primary is no longer writable.
PlanInv ==
  pc \in FailoverStage =>
    /\ mc.spec = spec /\ validateSpec(spec)
    /\ mc.status.currentPrimary = status.currentPrimary
    /\ status.currentPrimary # None
    /\ status.currentPrimary # primaryClusterName(spec)
    /\ pc \in PlannedStage => newPrimary = primaryClusterName(spec)
    /\ pc \in PlannedStage \ {"demote"} => OnlyPrimary(pg, newPrimary)

\* Whatever pass is in flight, and wherever the last one stopped, the recorded primary, the
\* spec and the writable clusters are related so that no next step makes a second primary.
\* This is the inductive strengthening of NoSplitBrain for patient users.
SwitchInv == ObjectInv /\ CopyInv /\ PlanInv

\* Where the postgresql of c replicates from: a host of its own spec, or its local alias.
Upstream(c) ==
  CASE pg[c].mode = "standby" /\ pg[c].from \in Cluster       -> pg[c].from
    [] pg[c].mode = "standby" /\ pg[c].from = NamespaceOf[c]   -> Resolve(alias[c])
    [] OTHER                                                   -> None

Converged(s) ==
  LET p == primaryClusterName(s) IN
  /\ pg[p].mode = "primary"
  /\ \A c \in Targets(s) \ {p} : Upstream(c) = p

\* A status that says Ready for the current generation tells the truth: the primary of
\* the spec is writable and every other target replicates from it, whatever calls failed
\* in this pass or the ones before.
ReadyMeansConverged ==
  meta = "active" /\ status.phase = "Ready" /\ observed => Converged(spec)

\* When a failover moves status.currentPrimary, every other target of the valid spec it works
\* on already replicates from the new primary.
FailoverSettles ==
  [][status.currentPrimary \notin {None, status'.currentPrimary} /\ validateSpec(mc.spec) =>
       \A c \in Targets(mc.spec) \ {status'.currentPrimary} :
         Upstream(c)' = status'.currentPrimary]_vars

\* "The spec patch triggers a new reconcile which will detect the role change and call
\* runFailover": once an auto-failover has patched the spec, a failover is pending.
PatchLeadsToFailover ==
  [][pc = "auto" /\ pc' = "autoStatus" => FailoverPending(spec', status')]_vars

\* The spec of the object as Topology sees it.
Desired(s) == IF validateSpec(s) THEN primaryClusterName(s) ELSE None

Abstract == INSTANCE Topology
  WITH desired <- Desired(spec), current <- status.currentPrimary, writable <- Writable,
       live <- meta \in {"new", "active"}

\* The reconciler implements Topology: every step of every pass, fault and edit is a step
\* of the single-writer protocol or changes none of its variables.
ImplementsTopology == Abstract!Spec

\* Nothing of an object whose spec is s is left on c: no postgresql, no replication Service,
\* no alias on a standby.
Clean(c, s) ==
  /\ pg[c] = NoPostgresql
  /\ c \notin svc
  /\ s[c] = "standby" => alias[c] = NoAlias

\* Once the finalizer is gone the targets are clean, wherever the deletion was interrupted and
\* whatever other target was skipped for want of its kubeconfig Secret.
FinalizedClean == meta = "gone" => \A c \in Targets(spec) \ Losable : Clean(c, spec)

Healthy == settled /\ up = Cluster /\ kubeconfig = Cluster

Switching ==
  /\ meta = "active" /\ validateSpec(spec)
  /\ FailoverPending(spec, status)
  /\ status.currentPrimary \in Targets(spec)

\* Once faults and edits stop, a failover that was interrupted anywhere completes.
FailoverCompletes == <>[]Healthy => (Switching ~> ~Switching)

\* Once faults and edits stop, the object reports Ready for its generation and is.
Converges ==
  <>[]Healthy => <>[](meta = "active" /\ validateSpec(spec) =>
                        /\ observed /\ status.phase = "Ready" /\ ~status.failingOver
                        /\ Converged(spec))

\* Once faults stop, a deletion completes.
DeletionCompletes == <>[]Healthy => (meta = "deleting" ~> meta = "gone")

-----------------------------------------------------------------------------
(* What a document of the repository says and the code does not do: the    *)
(* subject of a run that finds it violated.                                *)

\* "When the count reaches the threshold, the first reachable standby is promoted": with
\* the primary's kubeconfig gone for good, another cluster becomes the primary.
AutoFailoverRescues ==
  \A d \in Cluster :
    <>[](settled /\ AutoFailover /\ up = Cluster /\ kubeconfig = Cluster \ {d})
      => <>[](status.currentPrimary # d)
=============================================================================
