------------------------------ MODULE Registry ------------------------------
(***************************************************************************)
(* The client registry (internal/clusters): clients of workload clusters,  *)
(* built from kubeconfig Secrets of the tech cluster and cached by the     *)
(* Secret's name and resourceVersion for a time-to-live.                   *)
(*                                                                         *)
(* Reconcile workers call GetClient; the Secret is read from the informer  *)
(* cache, which lags behind the API server.  A client is identified by the *)
(* kubeconfig it was built from; an update of a Secret that leaves the     *)
(* kubeconfig as it is still moves the resourceVersion.                    *)
(***************************************************************************)
EXTENDS Naturals

CONSTANTS
  Ref,         \* kubeconfig Secrets (namespace and name)
  Worker,      \* goroutines that call GetClient
  Kubeconfig,  \* contents that parse
  None,        \* no Secret, no client
  Broken,      \* a Secret without the key, or with a kubeconfig that does not parse
  MaxVersion   \* bound on the resourceVersions handed out

ASSUME RegistryAssumption ==
  /\ Broken # None
  /\ {None, Broken} \cap Kubeconfig = {}
  /\ MaxVersion \in Nat

VARIABLES
  version,  \* the last resourceVersion handed out
  secret,   \* the Secrets on the API server: resourceVersion and content
  seen,     \* the Secrets as the informer cache shows them
  cache,    \* registry.cache: what it holds for each Secret and resourceVersion
  call      \* per worker: the call in flight, or what the last one returned

gvars == <<version, secret, seen, cache, call>>

Version == 0..MaxVersion
Content == Kubeconfig \cup {None, Broken}
SecretType == [rv : Version, data : Content]

\* fresh: younger than the time-to-live.
Entry == [client : Kubeconfig \cup {None}, fresh : BOOLEAN]
NoEntry == [client |-> None, fresh |-> FALSE]

CallType == [pc : {"idle", "lookup", "store"}, ref : Ref, read : SecretType,
             got : Kubeconfig \cup {None}]

Init ==
  /\ version = 0
  /\ secret = [r \in Ref |-> [rv |-> 0, data |-> None]]
  /\ seen = secret
  /\ cache = [r \in Ref |-> [v \in Version |-> NoEntry]]
  /\ call \in [Worker -> {[pc |-> "idle", ref |-> r, read |-> [rv |-> 0, data |-> None],
                           got |-> None] : r \in Ref}]

-----------------------------------------------------------------------------
(* GetClient, in the three parts that the lock separates.                  *)

ReadSecret(w, r) ==
  /\ call[w].pc = "idle"
  /\ call' = [call EXCEPT ![w] =
       [pc |-> IF seen[r].data = None THEN "idle" ELSE "lookup",
        ref |-> r, read |-> seen[r], got |-> None]]
  /\ UNCHANGED <<version, secret, seen, cache>>

\* Mutant: the key is the name of the Secret alone.
CachedUnderName(w) ==
  IF \E v \in Version : cache[call[w].ref][v].fresh
    THEN cache[call[w].ref][CHOOSE v \in Version : cache[call[w].ref][v].fresh]
    ELSE NoEntry

Cached(w) == cache[call[w].ref][call[w].read.rv]

\* Mutant: what does not parse is taken for a client.
LookupUnparsed(w) ==
  /\ call[w].pc = "lookup"
  /\ call' = [call EXCEPT ![w] =
       IF Cached(w).fresh THEN [@ EXCEPT !.pc = "idle", !.got = Cached(w).client]
       ELSE [@ EXCEPT !.pc = "store"]]
  /\ UNCHANGED <<version, secret, seen, cache>>

\* Under the read lock: a fresh entry is the answer, otherwise a client is built.
Lookup(w) ==
  /\ call[w].pc = "lookup"
  /\ call' = [call EXCEPT ![w] =
       IF Cached(w).fresh THEN [@ EXCEPT !.pc = "idle", !.got = Cached(w).client]
       ELSE IF @.read.data = Broken THEN [@ EXCEPT !.pc = "idle"]
       ELSE [@ EXCEPT !.pc = "store"]]
  /\ UNCHANGED <<version, secret, seen, cache>>

\* Mutant: the client is stored under the version the cache shows by now.
StoreUnderLatest(w) ==
  /\ call[w].pc = "store"
  /\ cache' = [cache EXCEPT ![call[w].ref][seen[call[w].ref].rv] =
       [client |-> call[w].read.data, fresh |-> TRUE]]
  /\ call' = [call EXCEPT ![w].pc = "idle", ![w].got = call[w].read.data]
  /\ UNCHANGED <<version, secret, seen>>

Store(w) ==
  /\ call[w].pc = "store"
  /\ cache' = [cache EXCEPT ![call[w].ref][call[w].read.rv] =
       [client |-> call[w].read.data, fresh |-> TRUE]]
  /\ call' = [call EXCEPT ![w].pc = "idle", ![w].got = call[w].read.data]
  /\ UNCHANGED <<version, secret, seen>>

\* Every key of the Secret, whatever its version.
Invalidate(r) ==
  /\ cache' = [cache EXCEPT ![r] = [v \in Version |-> NoEntry]]
  /\ UNCHANGED <<version, secret, seen, call>>

-----------------------------------------------------------------------------
\* The time-to-live of an entry runs out; the entry stays in the map.
Expire(r, v) ==
  /\ cache[r][v].fresh
  /\ cache' = [cache EXCEPT ![r][v].fresh = FALSE]
  /\ UNCHANGED <<version, secret, seen, call>>

\* A user creates, rotates, breaks, touches or deletes a Secret.
Rotate(r, d) ==
  /\ version < MaxVersion
  /\ version' = version + 1
  /\ secret' = [secret EXCEPT ![r] = [rv |-> version', data |-> d]]
  /\ UNCHANGED <<seen, cache, call>>

\* A watch event reaches the informer cache.
Deliver(r) ==
  /\ seen[r] # secret[r]
  /\ seen' = [seen EXCEPT ![r] = secret[r]]
  /\ UNCHANGED <<version, secret, cache, call>>

GetClient(w) == (\E r \in Ref : ReadSecret(w, r)) \/ Lookup(w) \/ Store(w)

Next ==
  \/ \E w \in Worker : GetClient(w)
  \/ \E r \in Ref : Invalidate(r) \/ Deliver(r)
  \/ \E r \in Ref, v \in Version : Expire(r, v)
  \/ \E r \in Ref, d \in Content : Rotate(r, d)

\* Workers reconcile again and again, every target among them; watch events arrive.
Spec ==
  /\ Init
  /\ [][Next]_gvars
  /\ \A w \in Worker : WF_gvars(Lookup(w)) /\ WF_gvars(Store(w))
  /\ \A w \in Worker, r \in Ref : SF_gvars(ReadSecret(w, r))
  /\ \A r \in Ref : WF_gvars(Deliver(r))
-----------------------------------------------------------------------------
\* The type invariant of the Secrets, the cache and the calls.
TypeOK ==
  /\ version \in Version
  /\ secret \in [Ref -> SecretType]
  /\ seen \in [Ref -> SecretType]
  /\ cache \in [Ref -> [Version -> Entry]]
  /\ call \in [Worker -> CallType]

\* Everyone who has read Secret r, the informer cache and the server included.
Copies(r) == {secret[r], seen[r]} \cup {call[w].read : w \in {x \in Worker : call[x].ref = r}}

\* The cache answers for a version of a Secret with the kubeconfig of that very version,
\* for everyone who still holds a copy of it, however rotations, builds by several workers,
\* invalidations and expiries interleave.
CacheCoherent ==
  \A r \in Ref : \A s \in Copies(r) : cache[r][s.rv].client \in {None, s.data}

\* GetClient never returns a client of another kubeconfig than the one it has just read.
ServesWhatItRead ==
  \A w \in Worker : call[w].got \in {None, call[w].read.data}

\* "The operator detects the Secret's resourceVersion change and rebuilds the client on the
\* next reconcile": after the last rotation every client handed out is of the kubeconfig
\* that is there, and a usable kubeconfig does yield a client.
RotationTakesEffect ==
  \A w \in Worker, r \in Ref :
    /\ <>[](call[w].pc = "idle" /\ call[w].ref = r => call[w].got \in {None, secret[r].data})
    /\ <>[](secret[r].data \in Kubeconfig) => []<>(call[w].ref = r /\ call[w].got = secret[r].data)
=============================================================================
