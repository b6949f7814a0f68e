--------------------------- MODULE RegistryProofs ---------------------------
(***************************************************************************)
(* The coherence of the client cache for every number of workers, Secrets  *)
(* and kubeconfigs.  CacheCoherent is not inductive: a client that is      *)
(* being built must be of the version it will be stored under, copies of   *)
(* one version must agree, and nothing may be cached for a version that    *)
(* has not been handed out yet.                                            *)
(***************************************************************************)
EXTENDS Registry, TLAPS

Bounded == \A r \in Ref : \A s \in Copies(r) : s.rv <= version

Agree == \A r \in Ref : \A s, t \in Copies(r) : s.rv = t.rv => s.data = t.data

Unused == \A r \in Ref, v \in Version : v > version => cache[r][v].client = None

Parsed ==
  \A w \in Worker : /\ call[w].pc = "lookup" => call[w].read.data # None
                    /\ call[w].pc = "store" => call[w].read.data \in Kubeconfig

CoherenceInv ==
  /\ TypeOK /\ Parsed
  /\ Bounded /\ Agree /\ Unused
  /\ CacheCoherent /\ ServesWhatItRead

-----------------------------------------------------------------------------
(* Who holds a copy of a Secret.                                           *)

\* What a worker has read is a copy of the Secret it asked for.
LEMMA ReadIsCopy ==
  ASSUME NEW w \in Worker
  PROVE  call[w].read \in Copies(call[w].ref)
BY DEF Copies

\* Copies are of the type of Secrets.
LEMMA CopiesTyped ==
  ASSUME TypeOK, NEW r \in Ref
  PROVE  Copies(r) \subseteq SecretType
BY DEF Copies, TypeOK, CallType

\* The three ways a lookup ends: a cached client, an error, or a client to build.
LEMMA LookupResult ==
  ASSUME TypeOK, NEW w \in Worker, Lookup(w)
  PROVE  /\ \/ call'[w] = [call[w] EXCEPT !.pc = "idle", !.got = Cached(w).client]
            \/ call'[w] = [call[w] EXCEPT !.pc = "idle"]
            \/ /\ call[w].read.data # Broken
               /\ call'[w] = [call[w] EXCEPT !.pc = "store"]
         /\ call'[w].ref = call[w].ref /\ call'[w].read = call[w].read
<1>1. call[w] \in CallType
  BY DEF TypeOK
<1>2. call'[w] = IF Cached(w).fresh
                   THEN [call[w] EXCEPT !.pc = "idle", !.got = Cached(w).client]
                   ELSE IF call[w].read.data = Broken THEN [call[w] EXCEPT !.pc = "idle"]
                   ELSE [call[w] EXCEPT !.pc = "store"]
  BY DEF Lookup, TypeOK
<1>3. \/ call'[w] = [call[w] EXCEPT !.pc = "idle", !.got = Cached(w).client]
      \/ call'[w] = [call[w] EXCEPT !.pc = "idle"]
      \/ call[w].read.data # Broken /\ call'[w] = [call[w] EXCEPT !.pc = "store"]
  BY <1>2
<1> QED BY <1>1, <1>3 DEF CallType

\* A store returns the client it puts in the cache.
LEMMA StoreResult ==
  ASSUME TypeOK, NEW w \in Worker, Store(w)
  PROVE  /\ call'[w] = [call[w] EXCEPT !.pc = "idle", !.got = call[w].read.data]
         /\ call'[w].ref = call[w].ref /\ call'[w].read = call[w].read
<1>1. call[w] \in CallType
  BY DEF TypeOK
<1>2. call'[w] = [call[w] EXCEPT !.pc = "idle", !.got = call[w].read.data]
  BY DEF Store, TypeOK
<1> QED BY <1>1, <1>2 DEF CallType

\* A read, a watch event and a step of GetClient hand on copies that were there before.
LEMMA NoNewCopies ==
  ASSUME TypeOK, NEW r \in Ref,
         \/ \E w \in Worker, q \in Ref : ReadSecret(w, q)
         \/ \E w \in Worker : Lookup(w) \/ Store(w)
         \/ \E q \in Ref : Invalidate(q) \/ Deliver(q)
         \/ \E q \in Ref, v \in Version : Expire(q, v)
  PROVE  Copies(r)' \subseteq Copies(r)
<1>1. CASE \E w \in Worker, q \in Ref : ReadSecret(w, q)
  <2>1. PICK w \in Worker, q \in Ref : ReadSecret(w, q)
    BY <1>1
  <2>2. UNCHANGED <<secret, seen>> /\ call'[w].ref = q /\ call'[w].read = seen[q]
    BY <2>1 DEF ReadSecret, TypeOK
  <2>3. \A x \in Worker \ {w} : call'[x] = call[x]
    BY <2>1 DEF ReadSecret, TypeOK
  <2> QED BY <2>2, <2>3 DEF Copies
<1>2. CASE \E w \in Worker : Lookup(w) \/ Store(w)
  <2>1. PICK w \in Worker : Lookup(w) \/ Store(w)
    BY <1>2
  <2>2. UNCHANGED <<secret, seen>>
    BY <2>1 DEF Lookup, Store
  <2>3. \A x \in Worker \ {w} : call'[x] = call[x]
    BY <2>1 DEF Lookup, Store, TypeOK
  <2>4. call'[w].ref = call[w].ref /\ call'[w].read = call[w].read
    BY <2>1, LookupResult, StoreResult
  <2> QED BY <2>2, <2>3, <2>4 DEF Copies
<1>3. CASE \E q \in Ref : Invalidate(q)
  BY <1>3 DEF Invalidate, Copies
<1>4. CASE \E q \in Ref : Deliver(q)
  <2>1. PICK q \in Ref : Deliver(q)
    BY <1>4
  <2>2. UNCHANGED <<secret, call>> /\ seen'[r] \in {seen[r], secret[r]}
    BY <2>1 DEF Deliver, TypeOK
  <2> QED BY <2>2 DEF Copies
<1>5. CASE \E q \in Ref, v \in Version : Expire(q, v)
  BY <1>5 DEF Expire, Copies
<1> QED BY <1>1, <1>2, <1>3, <1>4, <1>5

\* A rotation adds one copy, of a version nobody has seen.
LEMMA RotationCopies ==
  ASSUME TypeOK, NEW q \in Ref, NEW d \in Content, Rotate(q, d), NEW r \in Ref
  PROVE  Copies(r)' \subseteq Copies(r) \cup {[rv |-> version + 1, data |-> d]}
<1>1. UNCHANGED <<seen, call>>
  BY DEF Rotate
<1>2. secret'[r] \in {secret[r], [rv |-> version + 1, data |-> d]}
  BY DEF Rotate, TypeOK
<1> QED BY <1>1, <1>2 DEF Copies

-----------------------------------------------------------------------------
(* Types.                                                                  *)

\* Initially nothing is cached and nobody has read anything.
LEMMA RegistryInit == Init => CoherenceInv
<1> SUFFICES ASSUME Init PROVE CoherenceInv
  OBVIOUS
<1> USE RegistryAssumption
<1> DEFINE Nothing == [rv |-> 0, data |-> None]
<1>1. \A r \in Ref : secret[r] = Nothing /\ seen[r] = Nothing
  BY DEF Init
<1>2. \A w \in Worker : /\ call[w].pc = "idle" /\ call[w].ref \in Ref
                        /\ call[w].read = Nothing /\ call[w].got = None
  BY DEF Init
<1>3. \A r \in Ref : \A s \in Copies(r) : s = Nothing
  BY <1>1, <1>2 DEF Copies
<1>4. TypeOK
  BY DEF Init, TypeOK, Version, SecretType, Content, Entry, NoEntry, CallType
<1>5. \A r \in Ref, v \in Version : cache[r][v].client = None
  BY DEF Init, NoEntry
<1>6. 0 \in Version
  BY DEF Version
<1>7. Bounded /\ Agree
  BY <1>3 DEF Bounded, Agree, Init
<1>8. Unused /\ CacheCoherent
  BY <1>3, <1>5, <1>6 DEF Unused, CacheCoherent
<1>9. Parsed /\ ServesWhatItRead
  BY <1>2 DEF Parsed, ServesWhatItRead
<1> QED BY <1>4, <1>7, <1>8, <1>9 DEF CoherenceInv

\* Every step keeps the types, and a client is built only from a kubeconfig that parses.
LEMMA RegistryTyped == TypeOK /\ Parsed /\ [Next]_gvars => TypeOK' /\ Parsed'
<1> SUFFICES ASSUME TypeOK, Parsed, [Next]_gvars PROVE TypeOK' /\ Parsed'
  OBVIOUS
<1> USE RegistryAssumption
<1>1. ASSUME NEW w \in Worker, NEW r \in Ref, ReadSecret(w, r) PROVE TypeOK' /\ Parsed'
  <2>1. seen[r] \in SecretType /\ None \in Kubeconfig \cup {None}
    BY DEF TypeOK
  <2>2. call' \in [Worker -> CallType]
    BY <1>1, <2>1 DEF ReadSecret, TypeOK, CallType
  <2>3. Parsed'
    BY <1>1 DEF ReadSecret, TypeOK, Parsed, CallType
  <2> QED BY <1>1, <2>2, <2>3 DEF ReadSecret, TypeOK
<1>2. ASSUME NEW w \in Worker, Lookup(w) PROVE TypeOK' /\ Parsed'
  <2>1. call[w] \in CallType /\ call[w].read.rv \in Version /\ call[w].read.data \in Content
    BY DEF TypeOK, CallType, SecretType
  <2>2. Cached(w) \in Entry
    BY <2>1 DEF TypeOK, Cached, CallType
  <2>3. call'[w] \in CallType
    <3>1. Cached(w).client \in Kubeconfig \cup {None}
      BY <2>2 DEF Entry
    <3>2. /\ [call[w] EXCEPT !.pc = "idle", !.got = Cached(w).client] \in CallType
          /\ [call[w] EXCEPT !.pc = "idle"] \in CallType
          /\ [call[w] EXCEPT !.pc = "store"] \in CallType
      BY <2>1, <3>1 DEF CallType
    <3> QED BY <1>2, <3>2, LookupResult
  <2>4. \A x \in Worker \ {w} : call'[x] = call[x]
    BY <1>2 DEF Lookup, TypeOK
  <2>5. call' \in [Worker -> CallType]
    <3>1. call' = [x \in Worker |-> call'[x]]
      BY <1>2 DEF Lookup, TypeOK
    <3>2. \A x \in Worker : call'[x] \in CallType
      BY <2>3, <2>4 DEF TypeOK
    <3> QED BY <3>1, <3>2
  <2>6. call'[w].pc = "store" => call'[w].read.data \in Kubeconfig
    <3>1. call[w].read.data # None
      BY <1>2 DEF Lookup, Parsed
    <3>2. call'[w].read = call[w].read /\ (call'[w].pc = "store" => call[w].read.data # Broken)
      BY <1>2, <2>1, LookupResult DEF CallType
    <3> QED BY <2>1, <3>1, <3>2 DEF Content
  <2>7. call'[w].pc # "lookup"
    BY <1>2, <2>1, LookupResult DEF CallType
  <2>8. Parsed'
    BY <2>4, <2>6, <2>7 DEF Parsed
  <2> QED BY <1>2, <2>5, <2>8 DEF Lookup, TypeOK
<1>3. ASSUME NEW w \in Worker, Store(w) PROVE TypeOK' /\ Parsed'
  <2>1. call[w].read.data \in Kubeconfig /\ call[w].ref \in Ref /\ call[w].read.rv \in Version
    BY <1>3 DEF Store, TypeOK, Parsed, CallType, SecretType
  <2>2. call' \in [Worker -> CallType] /\ Parsed'
    BY <1>3, <2>1 DEF Store, TypeOK, Parsed, CallType
  <2>3. cache' \in [Ref -> [Version -> Entry]]
    BY <1>3, <2>1 DEF Store, TypeOK, Entry
  <2> QED BY <1>3, <2>2, <2>3 DEF Store, TypeOK
<1>4. ASSUME NEW r \in Ref, Invalidate(r) PROVE TypeOK' /\ Parsed'
  BY <1>4 DEF Invalidate, TypeOK, Parsed, Entry, NoEntry
<1>5. ASSUME NEW r \in Ref, Deliver(r) PROVE TypeOK' /\ Parsed'
  BY <1>5 DEF Deliver, TypeOK, Parsed
<1>6. ASSUME NEW r \in Ref, NEW v \in Version, Expire(r, v) PROVE TypeOK' /\ Parsed'
  <2>1. [cache[r][v] EXCEPT !.fresh = FALSE] \in Entry
    <3>1. cache[r][v] \in Entry
      BY DEF TypeOK
    <3> QED BY <3>1 DEF Entry
  <2>2. [cache[r] EXCEPT ![v] = [cache[r][v] EXCEPT !.fresh = FALSE]] \in [Version -> Entry]
    BY <2>1 DEF TypeOK
  <2>3. cache' = [cache EXCEPT ![r] = [cache[r] EXCEPT ![v] = [cache[r][v] EXCEPT !.fresh = FALSE]]]
    BY <1>6 DEF Expire
  <2> QED BY <1>6, <2>2, <2>3 DEF Expire, TypeOK, Parsed
<1>7. ASSUME NEW r \in Ref, NEW d \in Content, Rotate(r, d) PROVE TypeOK' /\ Parsed'
  <2>1. version + 1 \in Version
    BY <1>7 DEF Rotate, TypeOK, Version
  <2>2. [rv |-> version + 1, data |-> d] \in SecretType
    BY <2>1 DEF SecretType
  <2>3. TypeOK'
    BY <1>7, <2>1, <2>2 DEF Rotate, TypeOK
  <2>4. Parsed'
    BY <1>7 DEF Rotate, Parsed
  <2> QED BY <2>3, <2>4
<1>8. CASE UNCHANGED gvars
  BY <1>8 DEF gvars, TypeOK, Parsed
<1> QED BY <1>1, <1>2, <1>3, <1>4, <1>5, <1>6, <1>7, <1>8 DEF Next, GetClient

-----------------------------------------------------------------------------
(* Coherence.                                                              *)

\* A step other than a rotation or a store keeps the cache coherent: it hands on copies that
\* were there and caches nothing new.
LEMMA KeepsCoherence ==
  ASSUME CoherenceInv, version' = version,
         \A r \in Ref : Copies(r)' \subseteq Copies(r),
         \A r \in Ref, v \in Version : cache'[r][v].client \in {None, cache[r][v].client}
  PROVE  (Bounded /\ Agree /\ Unused /\ CacheCoherent)'
<1>1. Bounded' /\ Agree'
  BY DEF CoherenceInv, Bounded, Agree
<1>2. Unused'
  BY DEF CoherenceInv, Unused
<1>3. CacheCoherent'
  <2> SUFFICES ASSUME NEW r \in Ref, NEW s \in Copies(r)'
               PROVE  cache'[r][s.rv].client \in {None, s.data}
    BY DEF CacheCoherent
  <2>1. s \in Copies(r) /\ s.rv \in Version
    BY CopiesTyped DEF CoherenceInv, SecretType
  <2>2. cache[r][s.rv].client \in {None, s.data}
    BY <2>1 DEF CoherenceInv, CacheCoherent
  <2> QED BY <2>1, <2>2
<1> QED BY <1>1, <1>2, <1>3

\* A client is stored under the version it was built from.
LEMMA StoreCoherent ==
  ASSUME CoherenceInv, NEW w \in Worker, Store(w)
  PROVE  (Bounded /\ Agree /\ Unused /\ CacheCoherent)'
<1> DEFINE q == call[w].ref
           u == call[w].read
<1>1. q \in Ref /\ u \in Copies(q) /\ u.rv \in Version /\ u.data \in Kubeconfig
  BY ReadIsCopy DEF CoherenceInv, TypeOK, CallType, SecretType, Parsed, Store
<1>2. \A r \in Ref : Copies(r)' \subseteq Copies(r)
  BY NoNewCopies DEF CoherenceInv
<1>3. version' = version
  BY DEF Store
<1>4. cache'[q][u.rv].client = u.data
  BY <1>1 DEF Store, CoherenceInv, TypeOK
<1>5. \A r \in Ref, v \in Version : <<r, v>> # <<q, u.rv>> => cache'[r][v] = cache[r][v]
  BY <1>1 DEF Store, CoherenceInv, TypeOK
<1>6. Bounded' /\ Agree'
  BY <1>2, <1>3 DEF CoherenceInv, Bounded, Agree
<1>7. Unused'
  <2>1. u.rv <= version
    BY <1>1 DEF CoherenceInv, Bounded
  <2> SUFFICES ASSUME NEW r \in Ref, NEW v \in Version, v > version
               PROVE  cache'[r][v].client = None
    BY <1>3 DEF Unused
  <2>2. v # u.rv
    BY <2>1, <1>1, RegistryAssumption DEF CoherenceInv, TypeOK, Version
  <2> QED BY <1>5, <2>2 DEF CoherenceInv, Unused
<1>8. CacheCoherent'
  <2> SUFFICES ASSUME NEW r \in Ref, NEW s \in Copies(r)'
               PROVE  cache'[r][s.rv].client \in {None, s.data}
    BY DEF CacheCoherent
  <2>1. s \in Copies(r) /\ s.rv \in Version
    BY <1>2, CopiesTyped DEF CoherenceInv, SecretType
  <2>2. CASE r = q /\ s.rv = u.rv
    <3>1. s.data = u.data
      BY <1>1, <2>1, <2>2 DEF CoherenceInv, Agree
    <3> QED BY <1>4, <2>2, <3>1
  <2>3. CASE ~(r = q /\ s.rv = u.rv)
    <3>1. cache'[r][s.rv] = cache[r][s.rv]
      BY <1>5, <2>1, <2>3
    <3> QED BY <2>1, <3>1 DEF CoherenceInv, CacheCoherent
  <2> QED BY <2>2, <2>3
<1> QED BY <1>6, <1>7, <1>8

\* Nothing is cached yet for the version a rotation hands out.
LEMMA RotateCoherent ==
  ASSUME CoherenceInv, NEW q \in Ref, NEW d \in Content, Rotate(q, d)
  PROVE  (Bounded /\ Agree /\ Unused /\ CacheCoherent)'
<1> DEFINE new == [rv |-> version + 1, data |-> d]
<1> USE RegistryAssumption
<1>1. version \in Nat /\ version' = version + 1 /\ version + 1 \in Version /\ cache' = cache
  BY DEF Rotate, CoherenceInv, TypeOK, Version
<1>2. \A r \in Ref : Copies(r)' \subseteq Copies(r) \cup {new}
  BY RotationCopies DEF CoherenceInv
<1>3. \A r \in Ref : \A s \in Copies(r) : s.rv \in Nat /\ s.rv <= version
  BY CopiesTyped DEF CoherenceInv, Bounded, SecretType, Version
<1>4. Bounded'
  BY <1>1, <1>2, <1>3 DEF Bounded
<1>5. Agree'
  <2> SUFFICES ASSUME NEW r \in Ref, NEW s \in Copies(r)', NEW t \in Copies(r)', s.rv = t.rv
               PROVE  s.data = t.data
    BY DEF Agree
  <2>1. s \in Copies(r) \cup {new} /\ t \in Copies(r) \cup {new}
    BY <1>2
  <2>2. CASE s \in Copies(r) /\ t \in Copies(r)
    BY <2>2 DEF CoherenceInv, Agree
  <2>3. CASE s = new \/ t = new
    BY <1>1, <1>3, <2>1, <2>3
  <2> QED BY <2>1, <2>2, <2>3
<1>6. Unused'
  BY <1>1 DEF CoherenceInv, Unused, Version
<1>7. CacheCoherent'
  <2> SUFFICES ASSUME NEW r \in Ref, NEW s \in Copies(r)'
               PROVE  cache[r][s.rv].client \in {None, s.data}
    BY <1>1 DEF CacheCoherent
  <2>1. CASE s \in Copies(r)
    BY <2>1 DEF CoherenceInv, CacheCoherent
  <2>2. CASE s = new
    <3>1. cache[r][version + 1].client = None
      BY <1>1 DEF CoherenceInv, Unused
    <3> QED BY <2>2, <3>1
  <2> QED BY <1>2, <2>1, <2>2
<1> QED BY <1>4, <1>5, <1>6, <1>7

\* A cached client is of the kubeconfig the caller has read.
LEMMA KeepsServing ==
  ASSUME CoherenceInv, Next
  PROVE  ServesWhatItRead'
<1>1. ASSUME NEW w \in Worker, NEW r \in Ref, ReadSecret(w, r) PROVE ServesWhatItRead'
  <2>1. call'[w].got = None
    BY <1>1 DEF ReadSecret, CoherenceInv, TypeOK
  <2>2. \A x \in Worker \ {w} : call'[x] = call[x]
    BY <1>1 DEF ReadSecret, CoherenceInv, TypeOK
  <2> QED BY <2>1, <2>2 DEF CoherenceInv, ServesWhatItRead
<1>2. ASSUME NEW w \in Worker, Lookup(w) PROVE ServesWhatItRead'
  <2>1. TypeOK /\ call[w] \in CallType /\ call[w].ref \in Ref
    BY DEF CoherenceInv, TypeOK, CallType
  <2>2. Cached(w).client \in {None, call[w].read.data}
    BY <2>1, ReadIsCopy DEF CoherenceInv, CacheCoherent, Cached
  <2>3. call[w].got \in {None, call[w].read.data}
    BY DEF CoherenceInv, ServesWhatItRead
  <2>4. call'[w].got \in {call[w].got, Cached(w).client} /\ call'[w].read = call[w].read
    BY <1>2, <2>1, LookupResult DEF CallType
  <2>5. \A x \in Worker \ {w} : call'[x] = call[x]
    BY <1>2, <2>1 DEF Lookup, TypeOK
  <2> QED BY <2>2, <2>3, <2>4, <2>5 DEF CoherenceInv, ServesWhatItRead
<1>3. ASSUME NEW w \in Worker, Store(w) PROVE ServesWhatItRead'
  <2>1. TypeOK /\ call[w] \in CallType
    BY DEF CoherenceInv, TypeOK
  <2>2. call'[w].got = call[w].read.data /\ call'[w].read = call[w].read
    BY <1>3, <2>1, StoreResult DEF CallType
  <2>3. \A x \in Worker \ {w} : call'[x] = call[x]
    BY <1>3, <2>1 DEF Store, TypeOK
  <2> QED BY <2>2, <2>3 DEF CoherenceInv, ServesWhatItRead
<1>4. ASSUME UNCHANGED call PROVE ServesWhatItRead'
  BY <1>4 DEF CoherenceInv, ServesWhatItRead
<1> QED BY <1>1, <1>2, <1>3, <1>4 DEF Next, GetClient, Invalidate, Deliver, Expire, Rotate

\* The invariant is inductive.
LEMMA RegistryStep == CoherenceInv /\ [Next]_gvars => CoherenceInv'
<1> SUFFICES ASSUME CoherenceInv, [Next]_gvars PROVE CoherenceInv'
  OBVIOUS
<1>1. TypeOK' /\ Parsed'
  BY RegistryTyped DEF CoherenceInv
<1>2. CASE UNCHANGED gvars
  BY <1>1, <1>2 DEF gvars, CoherenceInv, Bounded, Agree, Unused, CacheCoherent, ServesWhatItRead,
     Copies
<1>3. CASE Next
  <2>1. ServesWhatItRead'
    BY <1>3, KeepsServing
  <2>2. (Bounded /\ Agree /\ Unused /\ CacheCoherent)'
    <3>1. ASSUME NEW w \in Worker, NEW r \in Ref, ReadSecret(w, r)
          PROVE  (Bounded /\ Agree /\ Unused /\ CacheCoherent)'
      <4>1. version' = version /\ cache' = cache
        BY <3>1 DEF ReadSecret
      <4>2. \A q \in Ref : Copies(q)' \subseteq Copies(q)
        BY <3>1, NoNewCopies DEF CoherenceInv
      <4> QED BY <4>1, <4>2, KeepsCoherence
    <3>2. ASSUME NEW w \in Worker, Lookup(w)
          PROVE  (Bounded /\ Agree /\ Unused /\ CacheCoherent)'
      <4>1. version' = version /\ cache' = cache
        BY <3>2 DEF Lookup
      <4>2. \A q \in Ref : Copies(q)' \subseteq Copies(q)
        BY <3>2, NoNewCopies DEF CoherenceInv
      <4> QED BY <4>1, <4>2, KeepsCoherence
    <3>3. ASSUME NEW w \in Worker, Store(w)
          PROVE  (Bounded /\ Agree /\ Unused /\ CacheCoherent)'
      BY <3>3, StoreCoherent
    <3>4. ASSUME NEW r \in Ref, Invalidate(r)
          PROVE  (Bounded /\ Agree /\ Unused /\ CacheCoherent)'
      <4>1. version' = version
        BY <3>4 DEF Invalidate
      <4>2. \A q \in Ref, v \in Version : cache'[q][v].client \in {None, cache[q][v].client}
        BY <3>4 DEF Invalidate, CoherenceInv, TypeOK, NoEntry
      <4>3. \A q \in Ref : Copies(q)' \subseteq Copies(q)
        BY <3>4, NoNewCopies DEF CoherenceInv
      <4> QED BY <4>1, <4>2, <4>3, KeepsCoherence
    <3>5. ASSUME NEW r \in Ref, Deliver(r)
          PROVE  (Bounded /\ Agree /\ Unused /\ CacheCoherent)'
      <4>1. version' = version /\ cache' = cache
        BY <3>5 DEF Deliver
      <4>2. \A q \in Ref : Copies(q)' \subseteq Copies(q)
        BY <3>5, NoNewCopies DEF CoherenceInv
      <4> QED BY <4>1, <4>2, KeepsCoherence
    <3>6. ASSUME NEW r \in Ref, NEW v \in Version, Expire(r, v)
          PROVE  (Bounded /\ Agree /\ Unused /\ CacheCoherent)'
      <4>1. version' = version
        BY <3>6 DEF Expire
      <4>2. \A q \in Ref, x \in Version : cache'[q][x].client \in {None, cache[q][x].client}
        BY <3>6 DEF Expire, CoherenceInv, TypeOK, Entry
      <4>3. \A q \in Ref : Copies(q)' \subseteq Copies(q)
        BY <3>6, NoNewCopies DEF CoherenceInv
      <4> QED BY <4>1, <4>2, <4>3, KeepsCoherence
    <3>7. ASSUME NEW r \in Ref, NEW d \in Content, Rotate(r, d)
          PROVE  (Bounded /\ Agree /\ Unused /\ CacheCoherent)'
      BY <3>7, RotateCoherent
    <3> QED BY <1>3, <3>1, <3>2, <3>3, <3>4, <3>5, <3>6, <3>7 DEF Next, GetClient
  <2> QED BY <1>1, <2>1, <2>2 DEF CoherenceInv
<1> QED BY <1>2, <1>3

\* The registry never leaves CoherenceInv, however rotations, builds, expiries and
\* invalidations interleave.
THEOREM RegistryInvariance == Spec => []CoherenceInv
BY RegistryInit, RegistryStep, PTL DEF Spec

\* The variables of the registry are well-typed; in particular only clients of kubeconfigs that
\* parse are cached.
THEOREM RegistryTypeCorrect == Spec => []TypeOK
<1>1. CoherenceInv => TypeOK
  BY DEF CoherenceInv
<1> QED BY <1>1, RegistryInvariance, PTL

\* The cache answers for a version of a Secret with the kubeconfig of that version.
THEOREM CacheCoherentCorrect == Spec => []CacheCoherent
<1>1. CoherenceInv => CacheCoherent
  BY DEF CoherenceInv
<1> QED BY <1>1, RegistryInvariance, PTL

\* GetClient returns no client of another kubeconfig than the one it has read.
THEOREM ServesWhatItReadCorrect == Spec => []ServesWhatItRead
<1>1. CoherenceInv => ServesWhatItRead
  BY DEF CoherenceInv
<1> QED BY <1>1, RegistryInvariance, PTL
=============================================================================
