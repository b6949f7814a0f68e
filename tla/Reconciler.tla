----------------------------- MODULE Reconciler -----------------------------
(***************************************************************************)
(* The PostgresMC controller (internal/controller), with the failover      *)
(* orchestrator, the replication-service manager, the credential syncer    *)
(* and the alias manager it calls, over one PostgresMC object of the tech  *)
(* cluster and the workload clusters the object names.                     *)
(*                                                                         *)
(* One reconcile worker runs; every remote call is a step of its own, so   *)
(* users, outages, the Zalando operator and a crash of the operator        *)
(* interleave with a pass in flight.  The pass works on mc, the copy of    *)
(* the object it read when it started.                                     *)
(***************************************************************************)
EXTENDS PrimaryAlias, Aggregator, Naturals

CONSTANTS
  Position,     \* the order of the targets in spec.clusters
  Namespace,    \* the namespaces the targets live in
  NamespaceOf,  \* target.namespace of each cluster
  ExternalHost, \* the clusters whose target sets externalHost
  AutoFailover, \* spec.autoFailover.enabled
  Threshold,    \* spec.autoFailover.primaryUnreachableThreshold
  InitSpecs,    \* the role assignments a PostgresMC is created with
  UserSpecs,    \* the role assignments a user may later apply
  PatientUser,  \* users leave spec.clusters alone while a failover is pending
  Flaky,        \* remote calls may fail, and the operator may crash
  Unstable,     \* the clusters whose API server may be down
  Losable,      \* the clusters whose kubeconfig Secret may be missing
  Deletable,    \* users may delete the object
  Settling      \* faults and edits may stop for good

SpecType == [Cluster -> {"primary", "standby", "absent"}]

ASSUME PositionAssumption == Position \in [Cluster -> Nat]
ASSUME NamespaceAssumption ==
  /\ NamespaceOf \in [Cluster -> Namespace]
  /\ Namespace \cap (Cluster \cup {None}) = {}
ASSUME ThresholdAssumption == Threshold \in Nat \ {0}
ASSUME SpecAssumption ==
  /\ InitSpecs \subseteq SpecType
  /\ UserSpecs \subseteq SpecType
ASSUME EnvironmentAssumption ==
  /\ {AutoFailover, PatientUser, Flaky, Deletable, Settling} \subseteq BOOLEAN
  /\ ExternalHost \subseteq Cluster
  /\ Unstable \subseteq Cluster
  /\ Losable \subseteq Cluster

VARIABLES
  meta,       \* life cycle of the object: no finalizer yet, finalized, deletion stamped, gone
  spec,       \* spec.clusters: the role of each cluster
  observed,   \* status.observedGeneration = metadata.generation
  status,     \* the rest of the status subresource
  pg,         \* the Zalando postgresql of each workload cluster
  alias,      \* the primary alias of each workload cluster
  svc,        \* the clusters that have a replication Service
  secrets,    \* the clusters that have the credential Secrets
  up,         \* the clusters whose API server answers
  kubeconfig, \* the clusters whose kubeconfig Secret is usable
  settled,    \* no further fault and no further edit will happen
  pc,         \* where the pass is ("idle": no pass)
  mc,         \* the pass's copy of the object
  fresh,      \* the generation has not moved since the pass read it
  clients,    \* the clusters the pass holds a client for
  todo,       \* the clusters the current loop still has to visit
  newPrimary  \* the cluster the failover plan promotes

object    == <<meta, spec, observed, status>>
workload  == <<pg, alias, svc, secrets>>
world     == <<up, kubeconfig, settled>>
pass      == <<pc, mc, fresh, clients, todo, newPrimary>>
vars      == <<meta, spec, observed, status, pg, alias, svc, secrets,
               up, kubeconfig, settled, pc, mc, fresh, clients, todo, newPrimary>>

-----------------------------------------------------------------------------
(* Helpers over the spec and the status.                                   *)

Targets(s) == {c \in Cluster : s[c] # "absent"}
Primaries(s) == {c \in Cluster : s[c] = "primary"}
Standbys(s) == {c \in Cluster : s[c] = "standby"}

IsFirst(c, S) == c \in S /\ \A d \in S : Position[c] <= Position[d]
IsLast(c, S)  == c \in S /\ \A d \in S : Position[d] <= Position[c]

validateSpec(s) == \E p \in Cluster : Primaries(s) = {p}

primaryClusterName(s) ==
  IF Primaries(s) = {} THEN None ELSE CHOOSE c \in Cluster : IsFirst(c, Primaries(s))

\* Roles of status.clusters are only ever written; the names decide the phase.
ensureClusterStatusRoles(s, entries) == entries \cup Targets(s)

\* "user changed role in spec"
FailoverPending(s, st) == st.currentPrimary # None /\ st.currentPrimary # primaryClusterName(s)

\* The counter, saturated at the only value it is compared with.
Bump(n) == IF n < Threshold THEN n + 1 ELSE Threshold

NoStatus == [currentPrimary |-> None, phase |-> "", failingOver |-> FALSE, failures |-> 0,
             entries |-> {}, ready |-> {}, endpoint |-> {}]
NoSpec   == [c \in Cluster |-> "absent"]
NoMC     == [spec |-> NoSpec, status |-> NoStatus]
Primary       == [mode |-> "primary", from |-> None]
StandbyOf(h)  == [mode |-> "standby", from |-> h]
NoPostgresql  == [mode |-> "absent", from |-> None]

StatusType ==
  [currentPrimary : Cluster \cup {None}, phase : Phase, failingOver : BOOLEAN,
   failures : 0..Threshold, entries : SUBSET Cluster, ready : SUBSET Cluster,
   endpoint : SUBSET Cluster]

Stage == {"idle", "ensure", "secrets", "creds", "standby", "auto", "autoStatus",
          "begin", "plan", "demote", "promote", "repoint", "alias", "delete"}

Init ==
  /\ meta = "new"
  /\ spec \in InitSpecs
  /\ observed = FALSE
  /\ status = NoStatus
  /\ pg = [c \in Cluster |-> NoPostgresql]
  /\ alias = [c \in Cluster |-> NoAlias]
  /\ svc = {}
  /\ secrets = {}
  /\ up = Cluster
  /\ kubeconfig = Cluster
  /\ settled = FALSE
  /\ pc = "idle"
  /\ mc = NoMC
  /\ fresh = FALSE
  /\ clients = {}
  /\ todo = {}
  /\ newPrimary = None

-----------------------------------------------------------------------------
(* A remote call succeeds only on a cluster that is up; it may report an   *)
(* error when that cluster is down or when calls are flaky.  A call that   *)
(* reports an error may still have taken effect on a cluster that is up.   *)

\* The registry fails only for want of a usable kubeconfig Secret: it contacts no cluster.
GetClient(c) == c \in kubeconfig

MayFault == Flaky /\ ~settled
MayFail(c) == c \notin up \/ MayFault
Answers(c) == c \in up

Return ==
  /\ pc' = "idle" /\ mc' = NoMC /\ fresh' = FALSE
  /\ clients' = {} /\ todo' = {} /\ newPrimary' = None

\* The pass moves to stage s with T to visit; its copy and clients stay.
Goto(s, T) ==
  /\ pc' = s /\ todo' = T
  /\ UNCHANGED <<fresh, clients, newPrimary>>

\* The pass reads the object and moves to stage s with copy m.
Read(s, m, cl, T) ==
  /\ pc' = s /\ mc' = m /\ clients' = cl /\ todo' = T
  /\ fresh' = TRUE /\ newPrimary' = None

\* The pass moves to stage s with T to visit and r as its set of ready clusters.
GotoReady(s, T, r) == Goto(s, T) /\ mc' = [mc EXCEPT !.status.ready = r]

SpecPrimary == primaryClusterName(mc.spec)

-----------------------------------------------------------------------------
(* Reconcile: from the read of the object to the choice of what to do.     *)

Idle(m) == pc = "idle" /\ meta = m

AddFinalizer ==
  /\ Idle("new")
  /\ meta' = "active"
  /\ UNCHANGED <<spec, observed, status, workload, world, pass>>

\* Mutant: the reason of the condition is stored as the phase.
RejectSpecWithReason ==
  /\ Idle("active")
  /\ ~validateSpec(spec)
  /\ status' = [status EXCEPT !.phase = "SpecInvalid"]
  /\ UNCHANGED <<meta, spec, observed, workload, world, pass>>

\* A permanent error: the phase is patched as a best effort and nothing else runs.
RejectSpec ==
  /\ Idle("active")
  /\ ~validateSpec(spec)
  /\ status' = [status EXCEPT !.phase = "Failed"]
  /\ UNCHANGED <<meta, spec, observed, workload, world, pass>>

Reconcilable == Idle("active") /\ validateSpec(spec)

StartFailover ==
  /\ Reconcilable
  /\ FailoverPending(spec, status)
  /\ Read("begin",
          [spec |-> spec,
           status |-> [status EXCEPT !.entries = ensureClusterStatusRoles(spec, @)]],
          {}, {})
  /\ UNCHANGED <<object, workload, world>>

Reachable == {c \in Targets(spec) : GetClient(c)}
PrimaryUnreachable == ~GetClient(primaryClusterName(spec))
FailureCount == IF PrimaryUnreachable THEN Bump(status.failures) ELSE 0
\* Mutant: the threshold is reached one miss early.
DueOneEarly == PrimaryUnreachable /\ AutoFailover /\ FailureCount + 1 >= Threshold
AutoFailoverDue == PrimaryUnreachable /\ AutoFailover /\ FailureCount >= Threshold

\* The status after the client loop and the count of the failures.
StatusRead ==
  [status EXCEPT !.entries = ensureClusterStatusRoles(spec, @),
                 !.ready = @ \ (Targets(spec) \ Reachable),
                 !.failures = FailureCount]

StartReconcile ==
  /\ Reconcilable
  /\ ~FailoverPending(spec, status)
  /\ ~AutoFailoverDue
  /\ Read("ensure", [spec |-> spec, status |-> StatusRead], Reachable, Reachable)
  /\ UNCHANGED <<object, workload, world>>

StartAutoFailover ==
  /\ Reconcilable
  /\ ~FailoverPending(spec, status)
  /\ AutoFailoverDue
  /\ Read("auto", [spec |-> spec, status |-> StatusRead], Reachable, {})
  /\ UNCHANGED <<object, workload, world>>

-----------------------------------------------------------------------------
(* The normal pass: services, primary, credentials, standbys, status.      *)

\* The manager applies the Service, then looks for a host; either may fail.
Ensure(c, found) ==
  \/ Answers(c) /\ found /\ svc' = svc \cup {c}
  \/ MayFail(c) /\ ~found /\ svc' \in {svc, svc \cup ({c} \cap up)}

\* Without a fresh endpoint the last one of the status stays in use.
EnsureService(c) ==
  /\ pc = "ensure"
  /\ IsFirst(c, todo)
  /\ \E found \in BOOLEAN :
       /\ Ensure(c, found)
       /\ mc' = IF found THEN [mc EXCEPT !.status.endpoint = @ \cup {c}] ELSE mc
  /\ Goto("ensure", todo \ {c})
  /\ UNCHANGED <<object, world, pg, alias, secrets>>

reconcilePrimary ==
  /\ pc = "ensure"
  /\ todo = {}
  /\ SpecPrimary \in clients
  /\ \/ /\ Answers(SpecPrimary)
        /\ pg' = [pg EXCEPT ![SpecPrimary] = Primary]
        /\ Goto("secrets", {})
        /\ UNCHANGED mc
     \/ /\ MayFail(SpecPrimary)
        /\ \/ UNCHANGED pg
           \/ Answers(SpecPrimary) /\ pg' = [pg EXCEPT ![SpecPrimary] = Primary]
        /\ GotoReady("standby", {}, mc.status.ready \ {SpecPrimary})
  /\ UNCHANGED <<object, world, alias, svc, secrets>>

CheckSecrets ==
  /\ pc = "secrets"
  /\ \/ /\ Answers(SpecPrimary) /\ SpecPrimary \in secrets
        /\ GotoReady("creds", {}, mc.status.ready \cup {SpecPrimary})
     \/ /\ MayFail(SpecPrimary) \/ SpecPrimary \notin secrets
        /\ GotoReady("standby", {}, mc.status.ready \ {SpecPrimary})
  /\ UNCHANGED <<object, world, workload>>

ReachableStandbys == clients \cap Standbys(mc.spec)

\* The sets of standbys the syncer may have given all the Secrets of the primary.
SyncFromPrimary(T) ==
  {synced \in SUBSET (T \cap up) :
     /\ synced # {} => Answers(SpecPrimary)
     /\ \A c \in T \ synced : MayFail(c) \/ MayFail(SpecPrimary)}

\* Errors of the sync are logged; the standbys are reconciled all the same.
reconcileCredentials ==
  /\ pc = "creds"
  /\ \E synced \in SyncFromPrimary(ReachableStandbys) : secrets' = secrets \cup synced
  /\ Goto("standby", ReachableStandbys)
  /\ UNCHANGED <<object, world, mc, pg, alias, svc>>

\* Mutant: a standby counts as ready although its reconciliation failed.
ReadyDespiteError(c) ==
  /\ pc = "standby"
  /\ IsFirst(c, todo)
  /\ \/ /\ SpecPrimary \in mc.status.endpoint /\ Answers(c)
        /\ alias' = [alias EXCEPT ![c] = EnsurePrimaryAlias(@, SpecPrimary)]
        /\ pg' = [pg EXCEPT ![c] = StandbyOf(NamespaceOf[c])]
     \/ /\ SpecPrimary \notin mc.status.endpoint \/ MayFail(c)
        /\ UNCHANGED <<alias, pg>>
  /\ GotoReady("standby", todo \ {c}, mc.status.ready \cup {c})
  /\ UNCHANGED <<object, world, svc, secrets>>

reconcileStandby(c) ==
  /\ pc = "standby"
  /\ IsFirst(c, todo)
  /\ \/ /\ SpecPrimary \in mc.status.endpoint
        /\ Answers(c)
        /\ alias' = [alias EXCEPT ![c] = EnsurePrimaryAlias(@, SpecPrimary)]
        /\ pg' = [pg EXCEPT ![c] = StandbyOf(NamespaceOf[c])]
        /\ GotoReady("standby", todo \ {c}, mc.status.ready \cup {c})
     \/ /\ SpecPrimary \notin mc.status.endpoint \/ MayFail(c)
        /\ \/ UNCHANGED <<alias, pg>>
           \/ /\ SpecPrimary \in mc.status.endpoint /\ Answers(c)
              /\ \E a \in InterruptedAlias(alias[c], SpecPrimary) :
                    alias' = [alias EXCEPT ![c] = a]
              /\ UNCHANGED pg
           \/ /\ SpecPrimary \in mc.status.endpoint /\ Answers(c)
              /\ alias' = [alias EXCEPT ![c] = EnsurePrimaryAlias(@, SpecPrimary)]
              /\ pg' = [pg EXCEPT ![c] = StandbyOf(NamespaceOf[c])]
        /\ GotoReady("standby", todo \ {c}, mc.status.ready \ {c})
  /\ UNCHANGED <<object, world, svc, secrets>>

\* The standbys are done, or there was no primary to reconcile.
PassDone ==
  /\ todo = {}
  /\ pc = "standby" \/ (pc = "ensure" /\ SpecPrimary \notin clients)

FinalPhase ==
  IF Targets(mc.spec) \subseteq clients
    THEN Aggregate(mc.status.entries, mc.status.ready, FALSE)
    ELSE "Degraded"

\* Mutant: observedGeneration is the server's generation, not the one the pass read.
ObserveLatest ==
  /\ PassDone
  /\ status' = [mc.status EXCEPT !.currentPrimary = SpecPrimary, !.phase = FinalPhase]
  /\ observed' = TRUE
  /\ Return
  /\ UNCHANGED <<meta, spec, workload, world>>

UpdateStatus ==
  /\ PassDone
  /\ \/ /\ status' = [mc.status EXCEPT !.currentPrimary = SpecPrimary, !.phase = FinalPhase]
        /\ observed' = fresh
     \/ /\ MayFault
        /\ UNCHANGED <<status, observed>>
  /\ Return
  /\ UNCHANGED <<meta, spec, workload, world>>

-----------------------------------------------------------------------------
(* runFailover and the orchestrator.  An error anywhere ends the pass; the *)
(* next one starts the sequence again from the beginning.                  *)

OldPrimary == mc.status.currentPrimary
Others == {c \in Targets(mc.spec) : c # OldPrimary /\ mc.spec[c] # "primary"}

\* The response of the patch replaces the pass's copy, a newer spec included.
FailoverBegin ==
  /\ pc = "begin"
  /\ LET st == [mc.status EXCEPT !.phase = "FailingOver", !.failingOver = TRUE] IN
       \/ /\ status' = st
          /\ mc' = [spec |-> spec, status |-> st]
       \/ /\ MayFault
          /\ mc' = [mc EXCEPT !.status = st]
          /\ status' \in {status, st}
  /\ Goto("plan", {})
  /\ UNCHANGED <<meta, spec, observed, workload, world>>

\* Mutant: only a discovered endpoint counts.
EndpointKnown(c) == c \in mc.status.endpoint

\* externalHost, else the endpoint the replication-service manager discovered.
HostKnown(c) == c \in ExternalHost \cup mc.status.endpoint

\* A plan needs every client, the old primary among the targets and a host for the new one.
Planned(b) ==
  /\ \A c \in Targets(mc.spec) : GetClient(c)
  /\ OldPrimary \in Targets(mc.spec)
  /\ IsLast(b, Primaries(mc.spec) \ {OldPrimary})
  /\ HostKnown(b)

\* Mutant: the new primary is promoted without demoting the old one.
PlanWithoutDemotion ==
  /\ pc = "plan"
  /\ \E b \in Cluster : Planned(b) /\ newPrimary' = b
  /\ pc' = "promote"
  /\ UNCHANGED <<object, workload, world, mc, fresh, clients, todo>>

FailoverPlan ==
  /\ pc = "plan"
  /\ \E b \in Cluster : Planned(b) /\ newPrimary' = b
  /\ pc' = "demote"
  /\ UNCHANGED <<object, workload, world, mc, fresh, clients, todo>>

FailoverRefused ==
  /\ pc = "plan"
  /\ \A b \in Cluster : ~Planned(b)
  /\ Return
  /\ UNCHANGED <<object, workload, world>>

\* Server-side apply of p as the postgresql of c, then on to stage s with T to visit.
Apply(c, p, s, T) ==
  /\ \/ /\ Answers(c)
        /\ pg' = [pg EXCEPT ![c] = p]
        /\ Goto(s, T)
        /\ UNCHANGED mc
     \/ /\ MayFail(c)
        /\ UNCHANGED pg \/ (Answers(c) /\ pg' = [pg EXCEPT ![c] = p])
        /\ Return
  /\ UNCHANGED <<object, world, alias, svc, secrets>>

\* Mutant: an error of the demotion does not stop the failover.
DemoteBestEffort ==
  /\ pc = "demote"
  /\ \/ Answers(OldPrimary) /\ pg' = [pg EXCEPT ![OldPrimary] = StandbyOf(newPrimary)]
     \/ MayFail(OldPrimary) /\ UNCHANGED pg
  /\ Goto("promote", {})
  /\ UNCHANGED <<object, world, mc, alias, svc, secrets>>

demoteCluster ==
  /\ pc = "demote"
  /\ Apply(OldPrimary, StandbyOf(newPrimary), "promote", {})

\* The loop over the other standbys, then the one over the aliases.
AfterRepoint(T) == IF T = {} THEN "alias" ELSE "repoint"
\* Mutant: only the old primary's alias is updated.
VisitOldOnly(T) == IF T = {} THEN {OldPrimary} ELSE T
ToVisit(T) == IF T = {} THEN Others \cup {OldPrimary} ELSE T

\* A merge patch that drops spec.standby, or an apply when the postgresql cannot be read:
\* either way the result has no standby section.
promoteCluster ==
  /\ pc = "promote"
  /\ Apply(newPrimary, Primary, AfterRepoint(Others), ToVisit(Others))

\* The host is the alias name in the namespace of the NEW primary.
repoint(c) ==
  /\ pc = "repoint"
  /\ IsFirst(c, todo)
  /\ Apply(c, StandbyOf(NamespaceOf[newPrimary]), AfterRepoint(todo \ {c}), ToVisit(todo \ {c}))

\* The old primary comes last.
UpdateAlias(c) ==
  /\ pc = "alias"
  /\ IsFirst(c, todo \ {OldPrimary}) \/ todo = {c}
  /\ \/ /\ Answers(c)
        /\ alias' = [alias EXCEPT ![c] = EnsurePrimaryAlias(@, newPrimary)]
        /\ Goto("alias", todo \ {c})
        /\ UNCHANGED mc
     \/ /\ MayFail(c)
        /\ \/ UNCHANGED alias
           \/ /\ Answers(c)
              /\ \E a \in InterruptedAlias(alias[c], newPrimary) :
                    alias' = [alias EXCEPT ![c] = a]
        /\ Return
  /\ UNCHANGED <<object, world, pg, svc, secrets>>

\* Mutant: the condition FailoverInProgress is never cleared.
CommitWithoutClearing ==
  /\ pc = "alias"
  /\ todo = {}
  /\ status' = [status EXCEPT !.currentPrimary = newPrimary, !.phase = "Ready"]
  /\ Return
  /\ UNCHANGED <<meta, spec, observed, workload, world>>

\* The patch carries these three fields only; observedGeneration and the counter stay.
FailoverCommit ==
  /\ pc = "alias"
  /\ todo = {}
  /\ \/ status' = [status EXCEPT !.currentPrimary = newPrimary, !.phase = "Ready",
                                 !.failingOver = FALSE]
     \/ MayFault /\ UNCHANGED status
  /\ Return
  /\ UNCHANGED <<meta, spec, observed, workload, world>>

-----------------------------------------------------------------------------
(* runAutoFailover.                                                        *)

AutoFailoverWaits ==
  /\ pc = "auto"
  /\ ReachableStandbys = {}
  /\ status' = mc.status \/ (MayFault /\ UNCHANGED status)
  /\ Return
  /\ UNCHANGED <<meta, spec, observed, workload, world>>

\* The roles are rewritten from the pass's copy; the list in the patch replaces the server's.
RewriteRoles(s, b) ==
  [c \in Cluster |-> IF s[c] = "absent" THEN "absent" ELSE IF c = b THEN "primary" ELSE "standby"]

PromoteInSpec ==
  /\ \E b \in Cluster : IsFirst(b, ReachableStandbys) /\ spec' = RewriteRoles(mc.spec, b)
  /\ observed' = FALSE

PatchSpec ==
  /\ pc = "auto"
  /\ ReachableStandbys # {}
  /\ \/ /\ PromoteInSpec
        /\ Goto("autoStatus", {})
        /\ mc' = [mc EXCEPT !.status.failures = 0]
     \/ /\ MayFault
        /\ PromoteInSpec \/ UNCHANGED <<spec, observed>>
        /\ Return
  /\ UNCHANGED <<meta, status, workload, world>>

\* Mutant: the auto-failover records the new primary itself, so no failover runs.
ResetAndRecord ==
  /\ pc = "autoStatus"
  /\ status' = [mc.status EXCEPT !.currentPrimary = primaryClusterName(spec)]
  /\ Return
  /\ UNCHANGED <<meta, spec, observed, workload, world>>

ResetFailureCount ==
  /\ pc = "autoStatus"
  /\ status' = mc.status \/ (MayFault /\ UNCHANGED status)
  /\ Return
  /\ UNCHANGED <<meta, spec, observed, workload, world>>

-----------------------------------------------------------------------------
(* handleDeletion.                                                         *)

StartDeletion ==
  /\ Idle("deleting")
  /\ Read("delete", [spec |-> spec, status |-> status], {}, Targets(spec))
  /\ UNCHANGED <<object, workload, world>>

\* Standbys only.
AliasRemoved(c) ==
  IF mc.spec[c] = "standby" THEN [alias EXCEPT ![c] = DeleteAlias(@)] ELSE alias

\* Mutant: a failed deletion is logged and the loop goes on.
DeleteBestEffort(c) ==
  /\ pc = "delete"
  /\ IsFirst(c, todo)
  /\ \/ GetClient(c) /\ Answers(c) /\ pg' = [pg EXCEPT ![c] = NoPostgresql]
     \/ (~GetClient(c) \/ MayFail(c)) /\ UNCHANGED pg
  /\ svc' = svc \ {c}
  /\ alias' = AliasRemoved(c)
  /\ Goto("delete", todo \ {c})
  /\ UNCHANGED <<object, world, mc, secrets>>

\* Mutant: a postgresql that is already gone is an error.
DeleteNotIdempotent(c) ==
  /\ pc = "delete"
  /\ IsFirst(c, todo)
  /\ IF Answers(c) /\ pg[c].mode # "absent"
       THEN /\ pg' = [pg EXCEPT ![c] = NoPostgresql]
            /\ Goto("delete", todo \ {c})
            /\ UNCHANGED mc
       ELSE Return /\ UNCHANGED pg
  /\ UNCHANGED <<object, world, alias, svc, secrets>>

\* The three deletions of a target run in this order; an error leaves a prefix of them done.
DeleteTarget(c) ==
  /\ pc = "delete"
  /\ IsFirst(c, todo)
  /\ \/ /\ c \notin kubeconfig
        /\ Goto("delete", todo \ {c})
        /\ UNCHANGED <<pg, alias, svc, mc>>
     \/ /\ GetClient(c) /\ Answers(c)
        /\ pg' = [pg EXCEPT ![c] = NoPostgresql]
        /\ svc' = svc \ {c}
        /\ alias' = AliasRemoved(c)
        /\ Goto("delete", todo \ {c})
        /\ UNCHANGED mc
     \/ /\ GetClient(c) /\ MayFail(c)
        /\ \/ UNCHANGED <<pg, svc, alias>>
           \/ /\ Answers(c)
              /\ pg' = [pg EXCEPT ![c] = NoPostgresql]
              /\ \/ svc' \in {svc, svc \ {c}} /\ UNCHANGED alias
                 \/ svc' = svc \ {c} /\ alias' = AliasRemoved(c)
        /\ Return
  /\ UNCHANGED <<object, world, secrets>>

RemoveFinalizer ==
  /\ pc = "delete"
  /\ todo = {}
  /\ meta' = "gone" \/ (MayFault /\ UNCHANGED meta)
  /\ Return
  /\ UNCHANGED <<spec, observed, status, workload, world>>

-----------------------------------------------------------------------------
(* Everything else.                                                        *)

\* The operator is killed and started again: a pass keeps nothing across it.
Crash ==
  /\ MayFault
  /\ pc # "idle"
  /\ Return
  /\ UNCHANGED <<object, workload, world>>

\* A patient user changes spec.clusters only to repair it or once the last change took effect.
MayEdit ==
  PatientUser => \/ ~validateSpec(spec)
                 \/ status.currentPrimary # None /\ ~FailoverPending(spec, status)

UserEdit ==
  /\ ~settled
  /\ meta \in {"new", "active"}
  /\ MayEdit
  /\ spec' \in UserSpecs \ {spec}
  /\ observed' = FALSE
  /\ fresh' = FALSE
  /\ UNCHANGED <<meta, status, workload, world, pc, mc, clients, todo, newPrimary>>

\* Without the finalizer the object goes at once.
UserDelete ==
  /\ Deletable
  /\ meta \in {"new", "active"}
  /\ meta' = IF meta = "new" THEN "gone" ELSE "deleting"
  /\ UNCHANGED <<spec, observed, status, workload, world, pass>>

\* The Zalando operator (external) creates the Secrets of a postgresql it runs.
ZalandoSecrets(c) ==
  /\ c \in up \ secrets
  /\ pg[c].mode # "absent"
  /\ secrets' = secrets \cup {c}
  /\ UNCHANGED <<object, world, pass, pg, alias, svc>>

Outage(c) ==
  /\ ~settled
  /\ c \in up \cap Unstable
  /\ up' = up \ {c}
  /\ UNCHANGED <<object, workload, pass, kubeconfig, settled>>

Recover(c) ==
  /\ c \in Cluster \ up
  /\ up' = up \cup {c}
  /\ UNCHANGED <<object, workload, pass, kubeconfig, settled>>

KubeconfigLost(c) ==
  /\ ~settled
  /\ c \in kubeconfig \cap Losable
  /\ kubeconfig' = kubeconfig \ {c}
  /\ UNCHANGED <<object, workload, pass, up, settled>>

KubeconfigRestored(c) ==
  /\ c \in Cluster \ kubeconfig
  /\ kubeconfig' = kubeconfig \cup {c}
  /\ UNCHANGED <<object, workload, pass, up, settled>>

Settle ==
  /\ Settling /\ ~settled
  /\ settled' = TRUE
  /\ UNCHANGED <<object, workload, pass, up, kubeconfig>>

-----------------------------------------------------------------------------
StartPass ==
  \/ AddFinalizer \/ RejectSpec
  \/ StartFailover \/ StartReconcile \/ StartAutoFailover \/ StartDeletion

NormalStep ==
  \/ reconcilePrimary \/ CheckSecrets \/ reconcileCredentials \/ UpdateStatus
  \/ \E c \in Cluster : EnsureService(c) \/ reconcileStandby(c)

FailoverStep ==
  \/ FailoverBegin \/ FailoverPlan \/ FailoverRefused
  \/ demoteCluster \/ promoteCluster \/ FailoverCommit
  \/ \E c \in Cluster : repoint(c) \/ UpdateAlias(c)

AutoFailoverStep == AutoFailoverWaits \/ PatchSpec \/ ResetFailureCount

DeletionStep == RemoveFinalizer \/ \E c \in Cluster : DeleteTarget(c)

OperatorStep == StartPass \/ NormalStep \/ FailoverStep \/ AutoFailoverStep \/ DeletionStep

ZalandoStep == \E c \in Cluster : ZalandoSecrets(c)

EnvironmentStep ==
  \/ Crash \/ UserEdit \/ UserDelete \/ Settle
  \/ \E c \in Cluster : Outage(c) \/ Recover(c) \/ KubeconfigLost(c) \/ KubeconfigRestored(c)

Next == OperatorStep \/ ZalandoStep \/ EnvironmentStep

Spec == Init /\ [][Next]_vars

\* The work queue always holds the object while there is something to do, and a pass
\* never blocks: every call returns.  Nothing is assumed of users, faults or repairs.
LiveSpec == Spec /\ WF_vars(OperatorStep) /\ WF_vars(ZalandoStep)
=============================================================================
