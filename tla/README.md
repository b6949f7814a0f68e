# Formal model of postgres-mc-operator

TLA+ specifications, TLC configurations and TLAPS proofs for the PostgresMC
operator: a Kubernetes controller of a *tech cluster* that runs one PostgreSQL
across several *workload clusters*, one of them primary, the others streaming
standbys, and that moves the primary role between them.

## 1. Inventory

| Component | Source | State it keeps | Operations |
|---|---|---|---|
| PostgresMC controller | `internal/controller/postgresmc_controller.go` | none of its own between passes; reads and patches one PostgresMC object | `Reconcile`, `reconcile`, `runFailover`, `runAutoFailover` |
| Deletion and finalizer | `internal/controller/finalizer.go` | the finalizer of the object | `handleDeletion` |
| Primary, standby, credentials | `internal/controller/reconcile_*.go` | none | `reconcilePrimary`, `reconcileStandby`, `reconcileCredentials` |
| Failover orchestrator | `internal/failover/orchestrator.go` | none | `Run`: demote, promote, repoint, update aliases |
| Status aggregation | `internal/status` | none (pure) | `Aggregate`, condition setters |
| Alias manager | `internal/crosscluster` | alias Service and Endpoints on each standby | `EnsurePrimaryAlias`, `DeleteAlias` |
| Replication-service manager | `internal/replicationservice` | replication Service on each cluster | `Ensure` (apply, then discover a host), `Delete` |
| Credential syncer | `internal/credentials` | credential Secrets on each cluster | `SyncFromPrimary`, `WaitForSecrets` |
| Client registry | `internal/clusters/registry.go` | cache of clients by Secret and resourceVersion | `GetClient`, `Invalidate` |
| Manifest builder | `internal/zalando/builder.go` | none (pure) | `BuildPrimary`, `BuildStandby` |
| API types | `api/v1alpha1` | the object's spec and status | - |
| Manager start-up | `cmd/main.go` | - | flags and wiring |

**How they interact.** The controller's worker takes the object from the work
queue and runs one *pass*. A pass reads the object once and then works on that
copy. It asks the registry for a client of every target and calls the managers
with it; each of their calls is a request to the API server of some workload
cluster. Results come back as conditions, endpoints and `currentPrimary` in the
copy's status, written by one status patch at the end. A pass whose copy says
`status.currentPrimary` differs from the primary of the spec is a failover
pass: it runs the orchestrator instead of everything else. An auto-failover
does not switch anything: it patches `spec.clusters` and leaves the switch to
the failover pass that this edit provokes. Outside the program, users edit and
delete the object, the Zalando operator acts on the `postgresql` resources and
creates the credential Secrets, and kube-dns resolves the aliases.

**What is hard.** Nothing is transactional: a failover is a dozen calls to
different API servers, any of which can fail, fail after taking effect, or be
the last one before the operator dies. The only memory is the object, which
others write at the same time. The decision "is this a failover" rests on a
field (`currentPrimary`) that is written last. Recovery is re-execution from
the start, so every step must be right when it meets its own half-done work.

**What makes each component correct.** At most one cluster is told to be
writable, at every instant (controller and orchestrator). A status that says
Ready for the current generation is true (aggregation, standbys, aliases). A
failover is recorded only after every standby follows the new primary
(orchestrator, aliases). The finalizer goes only when the targets are clean
(deletion). A cached client belongs to the kubeconfig that is there (registry). A
standby follows an address that is served (replication service) and runs with the
passwords of its primary (credentials). What was interrupted completes once faults
stop (all of them). `PROJECT.json` lists 40 hazards with the lines where they bite.

## 2. Modules

| Module | Content |
|---|---|
| `PrimaryAlias` | the alias Service of one cluster as a value; `ensureExternalName`, `ensureHeadlessWithEndpoints`, `EnsurePrimaryAlias`, `DeleteAlias`, what an interrupted call leaves, and what the name resolves to; used by `Reconciler` and, with hosts for clusters, by `Endpoints` |
| `Aggregator` | `Aggregate`: the phase from the entries and the Ready conditions |
| `Reconciler` | the controller with all it calls, the workload clusters and the environment |
| `ReconcilerProperties` | its invariants, action properties, liveness properties and refinement mapping |
| `Topology` | abstract specification: the single-writer protocol of the primary role |
| `Replicas` | several operators, each reading the object from a lagging informer cache |
| `Registry` | the client cache: concurrent `GetClient`, time-to-live, rotation, `Invalidate` |
| `Endpoints` | replication Service, discovery, the text in the status, alias and standby manifest, down to ports |
| `Credentials` | the syncer between Zalando operators that invent passwords |
| `MC*` | constants for TLC |
| `ReconcilerProofs`, `TopologyProofs`, `ConvergenceProofs`, `DeletionProofs`, `RegistryProofs`, `EndpointsProofs`, `CredentialsProofs`, `ReplicasProofs` | theorems and TLAPS proofs |

`Reconciler` is the whole system with every manager reduced to what the roles
depend on. The four modules after `Topology` each take one part of it at a finer
grain: `Replicas` refines the read of the object, `Registry` the call `GetClient`,
`Endpoints` the calls `Ensure` and `EnsurePrimaryAlias` and `Credentials` the call
`SyncFromPrimary`; each repeats of a pass only the control around that part.
Definitions commented `Mutant:` are deliberately wrong variants against which the
properties are tested; no specification uses them.

### Reconciler: state

* The object: `meta` (life cycle), `spec` (the role of each cluster, `absent`
  when it is not a target), `observed` (whether `observedGeneration` is the
  generation), `status`. The order of the list is the constant `Position`.
* The workload clusters: `pg[c]` is the `postgresql` resource: absent, primary,
  or standby of a host. A host is the cluster it belongs to; the alias name,
  which differs by namespace only, is written as the namespace in it.
  `alias[c]`, `svc` and `secrets` are the other resources.
* The world: `up` (API servers that answer), `kubeconfig` (targets with a usable
  kubeconfig Secret), `settled` (no more faults and edits; used by liveness).
* The pass: `pc`, the copy `mc`, `fresh` (the generation has not moved since the
  copy was read: what decides `observed` when the copy is written back),
  `clients`, `todo` (the rest of the current loop), `newPrimary`.

Left out because nothing reads them: the Reachable and the top-level Ready
conditions, roles inside status entries, reasons, messages, transition times,
events, labels. `primaryFailureCount` saturates at the threshold, the one
value it is compared with. The user's `postgresql` blob passes through.

### Reconciler: actions

One action per remote call (or per group of calls to one cluster whose
intermediate states are listed as outcomes), plus the reads that decide what a
pass does.

| Code | Actions |
|---|---|
| `Reconcile` | `AddFinalizer`, `RejectSpec`, `StartDeletion` |
| `reconcile`, up to its decision | `StartFailover`, `StartReconcile`, `StartAutoFailover` |
| the loop over replication services | `EnsureService(c)` |
| `reconcilePrimary` | `reconcilePrimary` (apply), `CheckSecrets` (read) |
| `reconcileCredentials`, `SyncFromPrimary` | `reconcileCredentials` |
| `reconcileStandby` | `reconcileStandby(c)`: alias, then `postgresql` |
| the end of `reconcile` | `UpdateStatus` |
| `runFailover` | `FailoverBegin` (first patch, whose response replaces the copy), `FailoverPlan`, `FailoverRefused`, `FailoverCommit` |
| `Orchestrator.Run` | `demoteCluster`, `promoteCluster`, `repoint(c)`, `UpdateAlias(c)` |
| `runAutoFailover` | `AutoFailoverWaits`, `PatchSpec`, `ResetFailureCount` |
| `handleDeletion` | `DeleteTarget(c)`, `RemoveFinalizer` |

A call succeeds only on a cluster that is up (`Answers`). It may report an error
when the cluster is down, or any time when calls are flaky (`MayFail`), and then
it may or may not have taken effect on a cluster that is up. `GetClient` contacts
no cluster, so it fails for want of a usable kubeconfig Secret only. A plan
without an old primary (it left the spec) ends in a nil-pointer panic that
controller-runtime recovers; like every error it ends the pass, so it is part of
`FailoverRefused`. `Crash` ends a pass anywhere.

External, modelled from how the code uses them: `ZalandoSecrets`, `Resolve`,
`UserEdit`, `UserDelete`, outages, lost kubeconfig Secrets, the crash.

Environment constants: `Flaky` (calls fail, the operator crashes), `Unstable` and
`Losable` (which API servers go down, which kubeconfig Secrets go missing),
`Deletable`, `Settling` (faults and edits may stop for good), and `PatientUser`: a
patient user edits the roles only to repair an invalid spec or once the last edit
took effect (`currentPrimary` set and equal to the primary of the spec). Every one
of them is a switch of the environment; none changes what the operator does.

### Topology

What the operator promises of the primary role, whatever it does to get there, in
four variables: `desired` (the primary of the spec, `None` while it is invalid),
`current` (`status.currentPrimary`), `writable` (clusters whose `postgresql` is a
primary), `live`. A cluster becomes writable only when no other one is (`Grant`),
is stopped only for a switch away from it (`Fence`) or for good (`Teardown`), and a
later primary is on record only once it is writable (`Record`). `ImplementsTopology`
of `ReconcilerProperties` is the refinement mapping.

| Topology | Reconciler |
|---|---|
| `Desire` | `UserEdit`, `PatchSpec` |
| `Grant` | `reconcilePrimary`, `promoteCluster` |
| `Fence` | `demoteCluster` |
| `Record` | `UpdateStatus` of a first pass, `FailoverCommit` |
| `Retire`, `Teardown` | `UserDelete`, `DeleteTarget` |

### Replicas

`obj` is the object on the server (primary of the spec and on record), `view[o]` the
versions of it the cache of operator `o` has still to see, `pass[o]` the pass in
flight. `Read` takes the copy from the cache; the status patches are merge patches,
which carry a field only where it differs from the copy (`UpdateStatus`); the first
patch of a failover brings a current copy back (`FailoverBegin`). Of the resources
only who is writable is kept. `Operator` has two elements when leader election is
off, which is the default of `main.go`, and one otherwise. A cache is at most `MaxLag`
versions behind: a write beyond that pushes the oldest one out, so 0 is a cache that
is always current. `disturbed` is a history variable: some pass began on a copy that was
not the object, or while another replica's pass was in flight. Until then the module
implements `Topology` too (`TopologyUntilDisturbed`), which connects it with `Reconciler`:
`Read` and `Deliver` are stutters, the other actions the same abstract steps as there.

### Registry

`secret` is what is on the API server, `seen` what the informer cache shows, `cache`
the map of the registry by Secret and resourceVersion, `call[w]` the call of a
worker. `GetClient` is split where its lock is taken and released: `ReadSecret`,
`Lookup` (read lock), `Store` (write lock; the client is built between the two).
`Expire` is the time-to-live, `Rotate` any change of a Secret, a touch that leaves
the kubeconfig as it is and a deletion included. The code calls `Invalidate`
nowhere; it is an action all the same, since it is exported.

### Endpoints

Two clusters: one whose Service, nodes and load balancer are modelled and which is
or becomes the primary, and one that follows it. A host is a sequence of labels and
colons, and the endpoint in the status is the sequence `host ":" port`, so that
`Format` and `clusterEndpointFromStatus` do what the code does to an IPv6 address.
`EnsureService` and `Discover` are the two halves of `Ensure`; `FallBack` is the use
of the last endpoint when either fails; `PlannedHost` and `PlannedPort` are what
`runFailover` reads from spec and status, without any discovery. `Served` is the outside
view: nodes and load balancer at the port of the Service, `externalHost` at
`externalPort`, as the documents have it. The code never hands out `externalPort` once a
discovery has succeeded (section 3).

### Credentials

A password is known by its role and by who made it: the Zalando operator of a
cluster or a rotation. The syncer is modelled call by call: one Get per role
(`fetchCredentials`), one Secret of one standby at a time (`syncToStandby`, which may
meet a Secret the Zalando operator has created since its Get). A failover is modelled
call by call too (`demoteCluster`, `promoteCluster`, `repoint`): it applies a
`postgresql` on every target and touches no Secret, so that a standby the syncer has
never reached starts without any, for instance when the primary was recorded by a pass
that found its Secrets missing (`UpdateStatus`). A pass reads the roles once, so edits
fall between passes. `exposed` is a history variable: the clusters that were made
primary, that a failed sync did not reach, or that have their `postgresql` from a
failover.

## 3. Runs

### Passing

| Run | Instance | States | Checks |
|---|---|---|---|
| `failover` | 3 clusters, IP hosts, flaky calls and crashes, edits to any primary | 808 k | `SwitchInv`, `NoSplitBrain`, `ReadyMeansConverged`, `FailoverSettles`, `ImplementsTopology` |
| `auto_failover` | 2 clusters, DNS hosts, auto-failover with threshold 2, both kubeconfig Secrets come and go, flaky calls and crashes, edits to any roles: invalid ones, and targets that leave the list, the recorded primary too | 1.36 M | `TypeOK`, `NoSplitBrain`, `ReadyMeansConverged`, `PatchLeadsToFailover`, `ImplementsTopology` |
| `deletion` | 2 clusters, outages of one, the kubeconfig Secret of the other comes and goes, flaky calls and crashes, deletion at any time | 608 k | `FinalizedClean`, `DeletionCompletes`, `ImplementsTopology` |
| `liveness` | 2 clusters, auto-failover, kubeconfig Secret of one may be missing, flaky calls and crashes until the world settles; every target has an `externalHost`, so that no failover waits for a discovery | 291 k | `FailoverCompletes`, `Converges` |
| `replicas` | 2 operators, 3 clusters, caches one version behind, flaky calls and crashes until the world settles | 661 k | `OneWriterUntilDisturbed`, `TopologyUntilDisturbed`, `Heals` |
| `registry` | 2 workers, one Secret, 2 kubeconfigs, 3 versions | 23 k | `TypeOK`, `CacheCoherent`, `ServesWhatItRead`, `RotationTakesEffect` |
| `endpoints` | both Service types, with and without `externalHost`, 2 values of `externalPort`, an IPv4 and an IPv6 node, 3 ports, flaky calls and crashes | 146 k | `TypeOK`, `ReadyTellsAddress`, `StandbyReachesPrimary`, `PromotionCompletes` |
| `credentials` | 3 clusters, 2 roles, flaky calls, crashes, rotations, edits, failovers | 962 k | `TypeOK`, `OwnPasswordOnlyWhenExposed`, `CredentialsConverge` |

`deletion` does not check deadlock: the system stops once the object is gone.

* `NoSplitBrain`: never two clusters whose `postgresql` is a primary.
* `SwitchInv`: its inductive strengthening (section 5).
* `ImplementsTopology`: every step is one of the single-writer protocol.
* `ReadyMeansConverged`: phase Ready for the current generation means that the
  primary of the spec is writable and every other target replicates from it,
  through whatever its alias resolves to.
* `FailoverSettles`: when `currentPrimary` moves, every other target of the valid spec the
  failover works on replicates from the new primary already. (The response of the first
  patch may bring a spec that was never validated; with two primaries in it, one of them is
  in no plan.)
* `PatchLeadsToFailover`: the spec patch of an auto-failover leaves a failover
  pending, which is what its comment relies on.
* `FinalizedClean`: no finalizer, nothing left on the targets whose kubeconfig Secret stays,
  even if others were skipped.
* `OneWriterUntilDisturbed`, `TopologyUntilDisturbed`: passes that run one at a time, by
  whichever replica, and read the object as it is, follow the single-writer protocol. A
  second writable cluster is always owed to a stale read or to a concurrent pass.
* `Heals`: however two operators and stale reads interfered, once edits and faults
  stop only the primary of the spec is writable, for good.
* `CacheCoherent`, `ServesWhatItRead`: no worker is ever handed a client of another
  kubeconfig than the one it read, however rotations and builds interleave.
  `RotationTakesEffect`: a rotation does not wait for the time-to-live.
* `ReadyTellsAddress`: a status patch that says Ready names the address the standby
  uses. `StandbyReachesPrimary`: once changes stop, that address is a served one, provided
  that an `externalHost` comes with the port of the Service as its `externalPort`
  (`PortsAgree`).
  `PromotionCompletes`: a failover to a cluster with a known host completes.
* `OwnPasswordOnlyWhenExposed`: a cluster runs with passwords of its own only if it was
  made primary, a sync failed to reach it or a failover created its `postgresql`; a
  normal pass whose calls succeed never does that to a standby. `CredentialsConverge`: all clusters end with the
  passwords of the primary.
* `FailoverCompletes`, `Converges`, `DeletionCompletes`: see the fairness below.

**Bounds.** Two clusters suffice for every interaction of old and new primary; a
third one is the smallest number with a standby that a failover only repoints,
and gives a third candidate in chains of failovers. In `Reconciler`, `Endpoints` and
`Credentials` nothing counts rounds: state spaces are finite without a depth bound, so
sequences of edits, faults and passes are unbounded. Threshold 2 is the smallest at
which the first miss does not already trigger, the case the proofs need; larger ones
only add waiting rounds. `MaxLag` bounds how many versions a cache is behind: one
is enough for a pass to read a version that is no longer there, and `stale_cache`
has three, so that a cache misses a whole failover and the one back. `MaxVersion` bounds the resourceVersions of `Registry`; three
leave room for a rotation during a build and one more, and the proofs hold for any.

**Fairness.** `LiveSpec` has weak fairness of the operator's steps as a whole
(the work queue holds the object as long as there is something to do: every exit
of a pass requeues or returns an error, except after an invalid spec, where only an
edit helps and an edit is an event of its own; and every call returns) and of the
Zalando operator. `Endpoints` and `Credentials` assume the same. `Replicas` assumes
it of each operator, and that watch events arrive. `Registry` assumes weak fairness of
the steps of a call and of watch events, and strong fairness of `ReadSecret` for
every worker and Secret: a worker asks for the client of every target each time it
reconciles the object, and every object is requeued after 30 s. Nothing is assumed of
users, faults, repairs: each liveness property says what follows *if* the world
eventually stays healthy.

### Runs that find a documented statement violated

| Run | Statement | What happens |
|---|---|---|
| `impatient_user` | `NoSplitBrain` | roles edited while the first pass or a failover is unfinished: the code only knows the recorded primary, and the cluster an unfinished pass promoted stays writable beside the next one |
| `mixed_hosts` | `ReadyMeansConverged` | an alias never changes its Service type, so after a failover from an IP host to a DNS host it still leads to the old primary, under phase Ready |
| `lost_primary` | `AutoFailoverRescues` | the failover after an auto-failover needs a client for the lost primary and is refused for ever |
| `stale_cache` | `OneWriter` | one operator and a patient user: a pass that reads from its cache the version between a failover and the one back makes the other cluster writable again |

Each is quoted with its document in `PROJECT.json`, under `findings`.

### Divergences without a run of their own

Met while modelling; what the code does follows from its reading:

* A primary whose cluster is gone but whose kubeconfig Secret is there still has a
  client, as `GetClient` contacts no cluster; nothing is counted and no auto-failover
  follows. `docs/local-lab.md:387` deletes a cluster and line 397 shows a promotion.
* A failover to a cluster whose endpoint was never discovered is refused for ever
  (`orchestrator.go:58`): discovery belongs to the normal pass, which does not run
  while a failover is pending.
* A target that is down, with its kubeconfig Secret there, keeps the finalizer in
  place; the comment at `finalizer.go:23` wants deletion not to be blocked.
* The status entry of a removed cluster stays and counts in the phase.
* The alias name a standby is repointed to is built from the namespace of the new
  primary (`orchestrator.go:76`); a target in another namespace has no such Service.
* With a threshold of 1 an auto-failover can precede the first recorded primary, and
  then no failover follows.
* The failure count survives a failover and counts against the new primary.
* The Ready conditions of standbys are not refreshed while the primary is not ready.
* The manager's cache covers the namespace `postgres-system` only (`main.go:57`): a
  `secretNamespace`, or an object, elsewhere is never seen, against `README.md:374`.
* The cycles of the threshold are said to last 30 s each (`postgresmc_types.go:110`);
  every status patch triggers a pass at once, so they may be much shorter.
* A failed credential sync is logged and the standby still becomes Ready.
* An edit of the Service type is never applied to an existing Service.
* `externalPort` is ignored: with an `externalHost` the manager hands out the port of the
  Service (`manager.go:95`, `:109`), where `README.md:379` says "override port" and
  `postgresmc_types.go:56` "the port standbys use to reach this cluster". The two
  documents differ as well: the CRD fills in 5432, the README has the nodePort as the
  default of a NodePort. Without its premise `PortsAgree`, TLC finds
  `StandbyReachesPrimary` violated by an `externalHost` whose gateway listens at
  `externalPort`.
* A failover without an endpoint on record does hand out `externalPort`, until the next
  normal pass replaces it.
* A failover applies the `postgresql` of every standby, synced or not
  (`orchestrator.go:75-81`): one that no sync has reached invents passwords of its own,
  against the order of `README.md:254-257`.
* A standby promoted before its first sync starts with passwords of its own, which
  then spread to the others.

## 4. What the passing runs depend on

The results of `Reconciler` are about passes that read the current object. One writable
cluster is promised to patient users, the truth of Ready for hosts of one kind, and the
settling of a failover for hosts of one kind in one namespace; the violating runs show
that currency, patience and kind cannot be dropped. Nothing but one writable cluster needs
patience. `NoSplitBrain` is about the resources
the operator writes. How soon the Zalando operator acts on them is outside the model.
`Endpoints` assumes that the addresses of one target are of one kind, for the same
reason, and leaves the Service type alone.

## 5. Proofs

Every theorem is for every value of the constants: any set of clusters, any placement
of hosts and namespaces, any threshold, number of workers, nodes, versions. The table
names what else is assumed.

| Theorem | Statement | Assumes |
|---|---|---|
| `TypeCorrect` | `Spec => []TypeOK` | - |
| `SwitchInvariance`, `NoSplitBrainCorrect` | `[]SwitchInv`, `[]NoSplitBrain` | `PatientUser`, `SafeThreshold`: at least 2 if auto-failover is on |
| `Implementation` | `Spec => ImplementsTopology` | the same |
| `PatchLeadsToFailoverCorrect` | `Spec => PatchLeadsToFailover` | `SafeThreshold` |
| `FailoverSettlesCorrect` | `Spec => FailoverSettles` | one kind of host, one namespace |
| `ReadyMeansConvergedCorrect` | `Spec => []ReadyMeansConverged` | one kind of host |
| `FinalizedCleanCorrect` | `Spec => []FinalizedClean` | - |
| `RegistryTypeCorrect`, `CacheCoherentCorrect`, `ServesWhatItReadCorrect` | `[]TypeOK`, `[]CacheCoherent`, `[]ServesWhatItRead` | - |
| `EndpointRoundTrip` | formatting, then `clusterEndpointFromStatus`, is the identity | - |
| `EndpointsTypeCorrect` | `[]TypeOK` | - |
| `ReadyTellsAddressCorrect` | `ReadyTellsAddress` | hosts of one kind per configuration |
| `CredentialsTypeCorrect`, `OwnPasswordCorrect` | `[]TypeOK`, `[]OwnPasswordOnlyWhenExposed` | - |
| `OneWriterUntilDisturbedCorrect`, `TopologyUntilDisturbedCorrect` | `[]OneWriterUntilDisturbed`, `TopologyUntilDisturbed` | - |

**Types and one writer** (`ReconcilerProofs`). `TypeOK` alone is not inductive: a pass
writes its `newPrimary` and its spec's primary into the resources, so `TypeInv` adds
that a normal pass holds a valid spec and a planned failover two clusters.
`NoSplitBrain` says nothing of who will be writable next, so a pass that makes a
cluster primary could not be shown safe from it. `SwitchInv` has three parts.
`ObjectInv`: between passes, only the recorded primary or only the spec's primary is
writable, and before a primary is recorded only the spec's; and misses are counted
only once a primary is recorded. `CopyInv`: during a normal pass only the primary
of the *copy* can be writable, and it is the recorded one unless none is. `PlanInv`:
during a failover pass the spec has not moved, the plan's new primary is the spec's,
and from the promotion on nobody else is writable. The argument then goes action by
action: a normal pass only adds its own primary; a demotion that succeeded leaves
only the new primary, one that failed ends the pass in a state `ObjectInv` allows;
the commit makes the new primary the recorded one. `PatientUser` is what keeps the
spec still while a failover is pending, and `SafeThreshold` is what makes the
auto-failover wait for a recorded primary.

**Refinement** (`TopologyProofs`). `SwitchInv` gives the guards of most abstract steps;
`StepInv` adds what it lacks: the loop over the standbys spares the primary of the
copy, after a promotion the new primary stays writable until it is recorded, and only
an object whose deletion is stamped is torn down. Then every action is shown to be the
abstract step of the table in section 2, or a stutter. `PatchLeadsToFailover` rests on less
than `SwitchInv`: `CountInv` says that misses are counted only beside a recorded primary and
that an auto-failover found the primary it replaces on record. Users cannot disturb that,
so it needs no patience.

**Truth of Ready** (`ConvergenceProofs`). With one kind of host, `AliasKind` says that
no alias has the wrong Service type, from which a written alias resolves to what
was written and an interrupted write does not lead astray one that was right.
`ReadyInv` adds what an observed generation means (`ObservedInv`: a valid spec and no
failover pending), that the copy of a pass is still the object as long as the
generation has not moved (`ReadInv`), and what the Ready conditions of the copy mean
while the loop over the standbys runs (`LoopInv`: who has been visited without error
follows the primary of the copy). It needs no patience:
an edit clears `observed`. `FailoverSettles` follows from `ProgressInv` (in the loops
of a failover, targets already visited replicate from the new primary) and `PlannedInv`
(a failover has the record it read and two different clusters to switch between, the new
one a primary of its copy). Neither needs patience: a failover works on its copy.

**Deletion** (`DeletionProofs`). `CleanInv`: nothing has run for an object without a
finalizer, what the deletion loop has visited is clean, and it works on the spec of
the object. `handleDeletion` skips a target it has no client for, so the invariant
promises nothing of clusters in `Losable`, and shows that what is skipped costs no other
target its cleaning.

**Registry** (`RegistryProofs`). `CacheCoherent` is not inductive: `CoherenceInv` adds
that a client being built is of the version it will be stored under (`Parsed`), that
copies of one version agree (`Agree`), are of versions handed out (`Bounded`), and that
nothing is cached for a later one (`Unused`).

**Endpoints** (`EndpointsProofs`). The round trip holds because the port has no colon:
the last one of the text is the one that was put there. `EndpointInv` adds that all
recorded and discovered hosts are hosts of the configuration (`RecordInv`), that the
alias suits them (`Suits`), that the address of a pass is the one its text tells and
the standby follows it when the pass is to say Ready (`AddressInv`), and that a failover
works with the endpoint on record (`FailoverInv`). What depends on the kind of host is
conditional in the invariant, so that type correctness needs no assumption.

**Credentials** (`CredentialsProofs`). Copies spread what was invented, so `CredInv`
follows every password to its author (`Authors`), and says that a cluster with a
`postgresql` lacks a Secret only if it is exposed and that whoever leads a pass or is on
record is exposed (`Exposure`). The stages of the sync establish it for the standbys one
after the other (`FetchInv`, `SyncInv`, `StandbyInv`); each apply of a failover, which has
no sync before it, adds to `exposed` the cluster whose `postgresql` it creates.

**Replicas** (`ReplicasProofs`). `ReplicaInv` is what `SwitchInv` says, for whichever
replica's pass is in flight: there is one pass at most (`Exclusive`), between passes only the
recorded or the wanted primary is writable (`ObjectInv`), a normal pass has the record and
only its own primary is writable (`NormalInv`), a failover pass has the object
(`SwitchInv`). The invariant proved is `disturbed \/ ReplicaInv`: a step that disturbs
nothing preserves `ReplicaInv` and is an abstract step. `MaxLag` and the number of operators
play no part, since a pass that begins undisturbed reads the object itself.

**Only model-checked:** the liveness properties (`FailoverCompletes`, `Converges`,
`DeletionCompletes`, `Heals`, `RotationTakesEffect`, `StandbyReachesPrimary`,
`PromotionCompletes`, `CredentialsConverge`), which need fairness and are beyond the
prover.

## 6. Not modelled

* Generated deep copies, and the flags, probes and wiring of `main.go`: no logic.
* The length of requeue intervals and of the time-to-live; watch events beyond what
  `Replicas` and `Registry` have.
* The user's `postgresql` blob, labels, events, messages, transition times.
* Lists with duplicate target names: the API server lets them through, and the code's
  maps merge them.
* Growth of the registry's map, which the code does not bound.
* `reconcileStandbyTarget` has no caller.

## 7. Plan

Done: `PrimaryAlias`, `Aggregator`, `Reconciler`, `Topology`, `Replicas`, `Registry`,
`Endpoints`, `Credentials`, their runs, and the proofs of every safety property of the
passing runs. What is left:

1. validation, role split and plan construction over lists with duplicate names;
2. larger instances of `liveness` (three clusters) where time allows.

## Running

    tlc -workers 2 -config Failover.cfg MCReconciler
    tlapm ReconcilerProofs.tla
