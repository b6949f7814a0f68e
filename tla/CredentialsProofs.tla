-------------------------- MODULE CredentialsProofs --------------------------
(***************************************************************************)
(* A cluster invents passwords only after it was made primary, a sync has  *)
(* failed to reach it or a failover has created its postgresql, for any    *)
(* number of clusters and rotations.                                       *)
(***************************************************************************)
EXTENDS Credentials, SequenceTheorems, TLAPS

AnyPassword == [role : Role \cup {None}, by : Cluster \cup Rotation \cup {None}]

Stage == {"idle", "check", "fetch", "sync", "standby", "promote", "repoint"}

\* The shape of the state that the proof needs beside TypeOK.
Shape ==
  /\ wanted \in Cluster /\ primary \in Cluster \cup {None}
  /\ secret \in [Cluster -> [Role -> AnyPassword]]
  /\ pg \subseteq Cluster /\ exposed \subseteq Cluster
  /\ settled \in BOOLEAN
  /\ pass \in [pc : Stage, fetched : [Role -> AnyPassword],
               roles : {<<>>, <<"standby">>, CredentialRoles}, todo : SUBSET Cluster]

\* x is a password of role r, and the cluster that invented it, if one did, is exposed.
Good(x, r) == x \in Password(r) \cup {NoPassword} /\ (x.by \in Cluster => x.by \in exposed)

\* Every password in a Secret or in flight is good: copies spread what was invented.
Authors ==
  /\ \A c \in Cluster, r \in Role : Good(secret[c][r], r)
  /\ \A r \in Role : Good(pass.fetched[r], r)

\* The cluster lacks no Secret, so its Zalando operator has nothing to invent.
Complete(c) == \A r \in Role : secret[c][r] # NoPassword

\* Whoever is on record or leads the pass was made primary, and a cluster with a postgresql
\* lacks a Secret only if it is exposed.
Exposure ==
  /\ primary # None => primary \in exposed
  /\ pass.pc \notin {"idle", "promote"} => wanted \in exposed
  /\ \A c \in pg \ exposed : Complete(c)

\* The primary's Secrets, once seen, stay, and what was read so far was there.
FetchInv ==
  pass.pc = "fetch" =>
    /\ Complete(wanted)
    /\ pass.roles # CredentialRoles => pass.fetched["postgres"] # NoPassword
    /\ pass.roles = <<>> => pass.fetched["standby"] # NoPassword

\* The clusters the syncer is done with have all Secrets or are exposed; so is the current one
\* for the roles behind it.
SyncInv ==
  pass.pc = "sync" =>
    /\ \A r \in Role : pass.fetched[r] # NoPassword
    /\ pass.roles # <<>>
    /\ \A c \in Cluster \ (pass.todo \cup exposed) : Complete(c)
    /\ pass.roles = <<"standby">> =>
         \A c \in pass.todo \ exposed : IsFirst(c, pass.todo) => secret[c]["postgres"] # NoPassword

StandbyInv == pass.pc = "standby" => \A c \in pass.todo \ exposed : Complete(c)

CredInv == Shape /\ Authors /\ Exposure /\ FetchInv /\ SyncInv /\ StandbyInv

-----------------------------------------------------------------------------
(* Facts about the operators.                                              *)

LEMMA RoleLists ==
  /\ CredentialRoles # <<>> /\ <<"standby">> # <<>> /\ CredentialRoles # <<"standby">>
  /\ Head(CredentialRoles) = "postgres" /\ Tail(CredentialRoles) = <<"standby">>
  /\ Head(<<"standby">>) = "standby" /\ Tail(<<"standby">>) = <<>>
BY DEF CredentialRoles

LEMMA NoneIsNoPassword ==
  /\ NoneFetched \in [Role -> AnyPassword]
  /\ \A r \in Role : NoneFetched[r] = NoPassword /\ Good(NoPassword, r)
  /\ \A c \in Cluster, r \in Role : /\ Invented(c, r) \in AnyPassword /\ Invented(c, r) # NoPassword
                                    /\ Invented(c, r) \in Password(r) /\ Invented(c, r).by = c
  /\ \A v \in Rotation, r \in Role : LET x == [role |-> r, by |-> v] IN
                                       x \in AnyPassword /\ x # NoPassword /\ Good(x, r)
BY CredentialsAssumption DEF NoneFetched, NoPassword, AnyPassword, Good, Invented, Password

LEMMA FoundAll ==
  ASSUME \A r \in Role : pass.fetched[r] # NoPassword
  PROVE  Found = CredentialRoles
<1>1. Keep("postgres") = <<"postgres">> /\ Keep("standby") = <<"standby">>
  BY DEF Keep, Role
<1> DEFINE s == <<"postgres">> \o <<"standby">>
<1>2. <<"postgres">> \in Seq(Role) /\ <<"standby">> \in Seq(Role) /\ CredentialRoles \in Seq(Role)
  BY DEF Role, CredentialRoles
<1>3. s \in Seq(Role) /\ Len(s) = 2 /\ Len(CredentialRoles) = 2
  BY <1>2 DEF CredentialRoles
<1>4. s[1] = "postgres" /\ s[2] = "standby"
  BY <1>2
<1>5. \A i \in 1..2 : s[i] = CredentialRoles[i]
  BY <1>4 DEF CredentialRoles
<1>6. s = CredentialRoles
  BY <1>2, <1>3, <1>5, SeqEqual
<1> QED
  BY <1>1, <1>6 DEF Found

LEMMA FirstUnique ==
  ASSUME NEW S \in SUBSET Cluster, NEW c, NEW d, IsFirst(c, S), IsFirst(d, S)
  PROVE  c = d
BY CredentialsAssumption DEF IsFirst

LEMMA CredInit == Init => CredInv
<1> SUFFICES ASSUME Init PROVE CredInv
  OBVIOUS
<1>1. Shape
  BY CredentialsAssumption, NoneIsNoPassword DEF Init, Shape, NoPass, Stage
<1>2. Authors
  BY NoneIsNoPassword DEF Init, Authors, NoPass
<1>3. Exposure /\ FetchInv /\ SyncInv /\ StandbyInv
  BY DEF Init, Exposure, FetchInv, SyncInv, StandbyInv, NoPass
<1> QED
  BY <1>1, <1>2, <1>3 DEF CredInv

-----------------------------------------------------------------------------
(* Frames.                                                                 *)

\* Exposure only grows, and with it what is good.
LEMMA GoodGrows ==
  ASSUME NEW x, NEW r, Good(x, r), exposed \subseteq exposed'
  PROVE  Good(x, r)'
BY DEF Good

\* The pass starts a stage, or ends: it has read nothing.
LEMMA PassAnew ==
  ASSUME CredInv, pass'.fetched = NoneFetched, UNCHANGED secret, exposed \subseteq exposed'
  PROVE  Authors'
BY GoodGrows, NoneIsNoPassword DEF CredInv, Authors, Good

LEMMA ReturnKeeps ==
  ASSUME CredInv, Return, UNCHANGED secret, exposed \subseteq exposed', Exposure',
         wanted' \in Cluster, primary' \in Cluster \cup {None},
         pg' \subseteq Cluster, exposed' \subseteq Cluster, settled' \in BOOLEAN
  PROVE  CredInv'
<1>1. pass' = NoPass
  BY DEF Return
<1>2. Shape'
  BY <1>1, NoneIsNoPassword DEF CredInv, Shape, NoPass, Stage
<1>3. Authors'
  BY <1>1, PassAnew DEF NoPass
<1>4. FetchInv' /\ SyncInv' /\ StandbyInv'
  BY <1>1 DEF FetchInv, SyncInv, StandbyInv, NoPass
<1> QED
  BY <1>2, <1>3, <1>4 DEF CredInv

LEMMA GotoKeeps ==
  ASSUME CredInv, NEW s \in {"check", "fetch", "standby", "promote", "repoint"}, NEW S \in SUBSET Cluster,
         Goto(s, S), UNCHANGED <<wanted, primary, secret, settled>>,
         exposed \subseteq exposed', Exposure', pg' \subseteq Cluster, exposed' \subseteq Cluster,
         s = "fetch" => Complete(wanted),
         s = "standby" => \A c \in S \ exposed' : Complete(c)
  PROVE  CredInv'
<1>1. pass' = [pc |-> s, fetched |-> NoneFetched, roles |-> CredentialRoles, todo |-> S]
  BY DEF Goto
<1>2. Shape'
  BY <1>1, NoneIsNoPassword DEF CredInv, Shape, Stage
<1>3. Authors'
  BY <1>1, PassAnew
<1>4. FetchInv'
  BY <1>1, RoleLists DEF FetchInv, Complete
<1>5. SyncInv' /\ StandbyInv'
  BY <1>1 DEF SyncInv, StandbyInv, Complete
<1> QED
  BY <1>2, <1>3, <1>4, <1>5 DEF CredInv

\* One Secret is written with a good password.
LEMMA WriteKeeps ==
  ASSUME CredInv, NEW c \in Cluster, NEW r \in Role, NEW x \in AnyPassword, x # NoPassword,
         Good(x, r)', secret' = [secret EXCEPT ![c][r] = x], exposed \subseteq exposed'
  PROVE  /\ secret' \in [Cluster -> [Role -> AnyPassword]]
         /\ \A d \in Cluster, q \in Role : Good(secret[d][q], q)'
         /\ \A d \in Cluster, q \in Role : secret[d][q] # NoPassword => secret'[d][q] # NoPassword
         /\ secret'[c][r] = x
<1>1. secret \in [Cluster -> [Role -> AnyPassword]]
  BY DEF CredInv, Shape
<1>2. \A d \in Cluster, q \in Role : secret'[d][q] = IF d = c /\ q = r THEN x ELSE secret[d][q]
  BY <1>1
<1>3. secret' \in [Cluster -> [Role -> AnyPassword]]
  BY <1>1
<1>4. ASSUME NEW d \in Cluster, NEW q \in Role
      PROVE  Good(secret[d][q], q)'
  <2>1. CASE d = c /\ q = r
    BY <1>2, <2>1 DEF Good
  <2>2. CASE ~(d = c /\ q = r)
    <3>1. Good(secret[d][q], q)
      BY DEF CredInv, Authors
    <3> QED
      BY <1>2, <2>2, <3>1 DEF Good
  <2> QED
    BY <2>1, <2>2
<1> QED
  BY <1>2, <1>3, <1>4

\* A Secret is written while the pass stands still.
LEMMA WriteBeside ==
  ASSUME CredInv, NEW c \in Cluster, NEW r \in Role, NEW x \in AnyPassword, x # NoPassword, Good(x, r)',
         secret' = [secret EXCEPT ![c][r] = x], UNCHANGED <<wanted, primary, pg, settled, pass, exposed>>
  PROVE  CredInv'
<1>1. /\ secret' \in [Cluster -> [Role -> AnyPassword]]
      /\ \A d \in Cluster, q \in Role : Good(secret[d][q], q)'
      /\ \A d \in Cluster, q \in Role : secret[d][q] # NoPassword => secret'[d][q] # NoPassword
  BY WriteKeeps
<1>2. \A d \in Cluster : Complete(d) => Complete(d)'
  BY <1>1 DEF Complete
<1>3. Shape'
  BY <1>1 DEF CredInv, Shape
<1>4. Authors'
  BY <1>1 DEF CredInv, Authors, Good
<1>5. Exposure' /\ FetchInv' /\ StandbyInv'
  BY <1>2 DEF CredInv, Shape, Exposure, FetchInv, StandbyInv
<1>6. SyncInv'
  BY <1>1, <1>2 DEF CredInv, Shape, SyncInv, Role
<1> QED
  BY <1>3, <1>4, <1>5, <1>6 DEF CredInv

-----------------------------------------------------------------------------
(* The steps.                                                              *)

LEMMA CredPrimary ==
  ASSUME CredInv, reconcilePrimary
  PROVE  CredInv'
<1> USE DEF CredInv, Shape
<1>1. /\ UNCHANGED <<wanted, primary, secret, settled>> /\ pg' \in {pg, pg \cup {wanted}}
      /\ exposed' = exposed \cup {wanted}
      /\ Goto("check", {}) \/ Goto("standby", {})
  BY DEF reconcilePrimary
<1>2. Exposure'
  BY <1>1 DEF Exposure, Complete
<1>3. {} \in SUBSET Cluster
  OBVIOUS
<1> QED
  BY <1>1, <1>2, <1>3, GotoKeeps

LEMMA CredCheck ==
  ASSUME CredInv, CheckSecrets
  PROVE  CredInv'
<1> USE DEF CredInv, Shape
<1>1. UNCHANGED <<wanted, primary, secret, pg, settled, exposed>> /\ pass.pc = "check"
  BY DEF CheckSecrets, At
<1>2. Exposure'
  BY <1>1 DEF Exposure, Complete
<1>3. {} \in SUBSET Cluster
  OBVIOUS
<1>4. CASE Goto("standby", {})
  BY <1>1, <1>2, <1>3, <1>4, GotoKeeps
<1>5. CASE Goto("fetch", {}) /\ Complete(wanted)
  BY <1>1, <1>2, <1>3, <1>5, GotoKeeps
<1> QED
  BY <1>4, <1>5 DEF CheckSecrets, Complete

LEMMA CredFetch ==
  ASSUME CredInv, fetchCredentials
  PROVE  CredInv'
<1> USE DEF CredInv, Shape
<1>1. pass.pc = "fetch" /\ pass.roles \in {<<"standby">>, CredentialRoles}
      /\ UNCHANGED <<wanted, primary, secret, pg, settled>>
  BY DEF fetchCredentials, At
<1>2. CASE Goto("standby", Standbys) /\ exposed' = exposed \cup Standbys
  <2>1. exposed' = Cluster /\ Standbys \in SUBSET Cluster
    BY <1>1, <1>2 DEF Exposure, Standbys
  <2>2. Exposure'
    BY <1>1, <2>1 DEF Exposure, Complete
  <2> QED
    BY <1>1, <1>2, <2>1, <2>2, GotoKeeps
<1>3. CASE /\ pass' = [pass EXCEPT !.fetched[Head(pass.roles)] = secret[wanted][Head(pass.roles)],
                                  !.roles = Tail(@)]
           /\ UNCHANGED exposed
  <2>1. PICK r \in Role : r = Head(pass.roles)
    BY <1>1, RoleLists DEF Role
  <2>2. /\ pass'.pc = "fetch" /\ pass'.todo = pass.todo /\ pass'.roles = Tail(pass.roles)
        /\ pass'.fetched = [pass.fetched EXCEPT ![r] = secret[wanted][r]]
    BY <1>1, <1>3, <2>1
  <2>3. pass'.roles \in {<<>>, <<"standby">>}
    BY <1>1, <2>2, RoleLists
  <2>4. pass'.fetched \in [Role -> AnyPassword]
    BY <2>2
  <2>5. pass' \in [pc : Stage, fetched : [Role -> AnyPassword],
               roles : {<<>>, <<"standby">>, CredentialRoles}, todo : SUBSET Cluster]
    BY <1>3, <2>1, <2>2, <2>3, <2>4
  <2>6. \A q \in Role : pass'.fetched[q] = IF q = r THEN secret[wanted][r] ELSE pass.fetched[q]
    BY <2>2
  <2>7. Authors'
    <3>1. \A q \in Role : Good(pass'.fetched[q], q)
      BY <2>6 DEF Authors
    <3> QED
      BY <1>1, <1>3, <3>1 DEF Authors, Good
  <2>8. FetchInv'
    <3>1. Complete(wanted) /\ Complete(wanted)'
      BY <1>1 DEF FetchInv, Complete
    <3>2. CASE pass.roles = CredentialRoles
      <4>1. r = "postgres" /\ pass'.roles = <<"standby">>
        BY <2>1, <2>2, <3>2, RoleLists
      <4> QED
        BY <2>6, <3>1, <4>1, RoleLists DEF FetchInv, Complete
    <3>3. CASE pass.roles = <<"standby">>
      <4>1. r = "standby" /\ pass'.roles = <<>> /\ pass.fetched["postgres"] # NoPassword
        BY <1>1, <2>1, <2>2, <3>3, RoleLists DEF FetchInv
      <4> QED
        BY <2>6, <3>1, <4>1 DEF FetchInv, Complete, Role
    <3> QED
      BY <1>1, <3>2, <3>3
  <2>9. Exposure' /\ SyncInv' /\ StandbyInv'
    BY <1>1, <1>3, <2>2 DEF Exposure, SyncInv, StandbyInv, Complete
  <2> QED
    BY <1>1, <1>3, <2>5, <2>7, <2>8, <2>9
<1> QED
  BY <1>2, <1>3 DEF fetchCredentials

LEMMA CredStartSync ==
  ASSUME CredInv, StartSync
  PROVE  CredInv'
<1> USE DEF CredInv, Shape
<1>1. /\ pass.pc = "fetch" /\ pass.roles = <<>> /\ UNCHANGED <<wanted, primary, secret, pg, settled, exposed>>
      /\ pass' = [pass EXCEPT !.pc = "sync", !.todo = Standbys, !.roles = Found]
  BY DEF StartSync, At
<1>2. \A r \in Role : pass.fetched[r] # NoPassword
  BY <1>1, RoleLists DEF FetchInv, Role
<1>3. Found = CredentialRoles
  BY <1>2, FoundAll
<1>4. /\ pass'.pc = "sync" /\ pass'.todo = Standbys /\ pass'.roles = CredentialRoles
      /\ pass'.fetched = pass.fetched
  BY <1>1, <1>3
<1>5. Shape' /\ Authors'
  BY <1>1, <1>3, <1>4 DEF Authors, Good, Stage, Standbys
<1>6. SyncInv'
  BY <1>1, <1>2, <1>4, RoleLists DEF SyncInv, Exposure, Standbys
<1>7. Exposure' /\ FetchInv' /\ StandbyInv'
  BY <1>1, <1>4 DEF Exposure, FetchInv, StandbyInv, Complete
<1> QED
  BY <1>5, <1>6, <1>7

LEMMA CredSync ==
  ASSUME CredInv, NEW c \in Cluster, syncToStandby(c)
  PROVE  CredInv'
<1> USE DEF CredInv, Shape
<1>1. /\ pass.pc = "sync" /\ IsFirst(c, pass.todo) /\ c \in pass.todo
      /\ pass.roles \in {<<"standby">>, CredentialRoles}
      /\ UNCHANGED <<wanted, primary, pg, settled>>
      /\ \A q \in Role : pass.fetched[q] # NoPassword
  BY DEF syncToStandby, At, IsFirst, SyncInv
<1>2. PICK r \in Role : r = Head(pass.roles)
  BY <1>1, RoleLists DEF Role
<1>3. Found = CredentialRoles
  BY <1>1, FoundAll
<1>4. \A p : applySecret(secret, rewriteClusterName(SecretName(r, wanted), c), p) = [secret EXCEPT ![c][r] = p]
  BY DEF applySecret, rewriteClusterName, SecretName
\* What each outcome does to the Secrets and the excuses.
<1>5. \/ /\ secret' = [secret EXCEPT ![c][r] = pass.fetched[r]]
         /\ SyncedWith(c, Tail(pass.roles)) /\ UNCHANGED exposed
      \/ /\ secret' \in {secret, [secret EXCEPT ![c][r] = pass.fetched[r]], [secret EXCEPT ![c][r] = Invented(c, r)]}
         /\ SyncedWith(c, <<>>) /\ exposed' = exposed \cup {c}
  BY <1>2, <1>4 DEF syncToStandby
<1>6. exposed \subseteq exposed' /\ exposed' \subseteq Cluster /\ (exposed' = exposed \/ c \in exposed')
  BY <1>5
<1>7. /\ secret' \in [Cluster -> [Role -> AnyPassword]]
      /\ \A d \in Cluster, q \in Role : Good(secret[d][q], q)'
      /\ \A d \in Cluster, q \in Role : secret[d][q] # NoPassword => secret'[d][q] # NoPassword
      /\ c \notin exposed' => secret'[c][r] # NoPassword
  <2>1. CASE UNCHANGED secret /\ c \in exposed'
    <3>1. \A d \in Cluster, q \in Role : Good(secret[d][q], q)'
      BY <1>6, <2>1 DEF Authors, Good
    <3> QED
      BY <2>1, <3>1
  <2>2. CASE secret' = [secret EXCEPT ![c][r] = pass.fetched[r]]
    <3>1. Good(pass.fetched[r], r)
      BY DEF Authors
    <3>2. \A x : Good(x, r) => (x \in Password(r) \cup {NoPassword} /\ (x.by \in Cluster => x.by \in exposed'))
      BY <1>6 DEF Good
    <3>3. PICK x \in AnyPassword : x = pass.fetched[r]
      OBVIOUS
    <3>4. Good(x, r)' /\ x # NoPassword /\ secret' = [secret EXCEPT ![c][r] = x]
      BY <1>1, <2>2, <3>1, <3>2, <3>3 DEF Good
    <3> QED
      BY <1>6, <3>4, WriteKeeps
  <2>3. CASE secret' = [secret EXCEPT ![c][r] = Invented(c, r)] /\ c \in exposed'
    <3>1. PICK x \in AnyPassword : x = Invented(c, r)
      BY NoneIsNoPassword
    <3>2. Good(x, r)' /\ x # NoPassword
      BY <2>3, <3>1, NoneIsNoPassword DEF Good
    <3> QED
      BY <1>6, <2>3, <3>1, <3>2, WriteKeeps
  <2> QED
    BY <1>5, <2>1, <2>2, <2>3
<1>8. \A d \in Cluster : Complete(d) => Complete(d)'
  BY <1>7 DEF Complete
\* Where the pass goes: the next role of this standby, or the next standby.
<1>9. /\ pass'.pc = "sync" /\ pass'.fetched = pass.fetched
      /\ \/ /\ pass.roles = CredentialRoles /\ r = "postgres"
            /\ pass'.roles = <<"standby">> /\ pass'.todo = pass.todo
         \/ /\ pass'.roles = CredentialRoles /\ pass'.todo = pass.todo \ {c}
            /\ c \in exposed' \/ (pass.roles = <<"standby">> /\ r = "standby")
      /\ pass' \in [pc : Stage, fetched : [Role -> AnyPassword],
               roles : {<<>>, <<"standby">>, CredentialRoles}, todo : SUBSET Cluster]
  <2>1. CASE SyncedWith(c, <<>>) /\ c \in exposed'
    BY <1>1, <1>3, <2>1 DEF SyncedWith
  <2>2. CASE SyncedWith(c, Tail(pass.roles)) /\ pass.roles = CredentialRoles
    BY <1>1, <1>2, <2>2, RoleLists DEF SyncedWith
  <2>3. CASE SyncedWith(c, Tail(pass.roles)) /\ pass.roles = <<"standby">>
    BY <1>1, <1>2, <1>3, <2>3, RoleLists DEF SyncedWith
  <2> QED
    BY <1>1, <1>5, <2>1, <2>2, <2>3
<1>10. Authors'
  <2>1. \A q \in Role : Good(pass.fetched[q], q)'
    BY <1>6, <1>9 DEF Authors, Good
  <2> QED
    BY <1>7, <1>9, <2>1 DEF Authors
<1>11. Exposure' /\ FetchInv' /\ StandbyInv'
  BY <1>1, <1>6, <1>8, <1>9 DEF Exposure, FetchInv, StandbyInv
<1>12. SyncInv'
  <2>1. \A q \in Role : pass'.fetched[q] # NoPassword
    BY <1>1, <1>9
  <2>2. pass'.roles # <<>>
    BY <1>9, RoleLists
  <2>3. CASE /\ pass.roles = CredentialRoles /\ r = "postgres"
             /\ pass'.roles = <<"standby">> /\ pass'.todo = pass.todo
    <3>1. \A d \in Cluster \ (pass'.todo \cup exposed') : Complete(d)'
      BY <1>1, <1>6, <1>8, <2>3 DEF SyncInv
    <3>2. \A d \in pass'.todo \ exposed' : IsFirst(d, pass'.todo) => secret'[d]["postgres"] # NoPassword
      BY <1>1, <1>7, <2>3, FirstUnique
    <3> QED
      BY <1>9, <2>1, <2>2, <3>1, <3>2 DEF SyncInv, IsFirst
  <2>4. CASE /\ pass'.roles = CredentialRoles /\ pass'.todo = pass.todo \ {c}
             /\ c \in exposed' \/ (pass.roles = <<"standby">> /\ r = "standby")
    <3>1. c \in exposed' \/ Complete(c)'
      <4>1. CASE c \notin exposed'
        <5>1. secret[c]["postgres"] # NoPassword /\ r = "standby"
          BY <1>1, <1>6, <2>4, <4>1 DEF SyncInv
        <5> QED
          BY <1>7, <4>1, <5>1 DEF Complete, Role
      <4> QED
        BY <4>1
    <3>2. \A d \in Cluster \ (pass'.todo \cup exposed') : Complete(d)'
      BY <1>1, <1>6, <1>8, <2>4, <3>1 DEF SyncInv
    <3> QED
      BY <1>9, <2>1, <2>2, <2>4, <3>2, RoleLists DEF SyncInv
  <2> QED
    BY <1>9, <2>3, <2>4
<1> QED
  BY <1>1, <1>6, <1>7, <1>9, <1>10, <1>11, <1>12

LEMMA CredSyncDone ==
  ASSUME CredInv, SyncDone
  PROVE  CredInv'
<1> USE DEF CredInv, Shape
<1>1. /\ UNCHANGED <<wanted, primary, secret, pg, settled, exposed>> /\ Goto("standby", Standbys)
      /\ pass.pc = "sync" /\ pass.todo = {}
  BY DEF SyncDone, At
<1>2. /\ Exposure' /\ Standbys \in SUBSET Cluster
      /\ \A c \in Standbys \ exposed' : Complete(c)
  BY <1>1 DEF Exposure, Complete, SyncInv, Standbys
<1> QED
  BY <1>1, <1>2, GotoKeeps

LEMMA CredStandby ==
  ASSUME CredInv, NEW c \in Cluster, reconcileStandby(c)
  PROVE  CredInv'
<1> USE DEF CredInv, Shape
<1>1. /\ UNCHANGED <<wanted, primary, secret, settled, exposed>> /\ pg' \in {pg, pg \cup {c}}
      /\ pass.pc = "standby" /\ c \in pass.todo /\ pass' = [pass EXCEPT !.todo = @ \ {c}]
  BY DEF reconcileStandby, At, IsFirst
<1>2. pass'.pc = "standby" /\ pass'.todo = pass.todo \ {c} /\ pass'.fetched = pass.fetched
  BY <1>1
<1>3. Exposure'
  BY <1>1 DEF Exposure, StandbyInv, Complete
<1>4. Shape' /\ Authors'
  BY <1>1, <1>2 DEF Authors, Good
<1>5. FetchInv' /\ SyncInv' /\ StandbyInv'
  BY <1>1, <1>2 DEF FetchInv, SyncInv, StandbyInv, Complete
<1> QED
  BY <1>3, <1>4, <1>5

\* The calls of a failover: whoever gets a postgresql from it, or leads it, is exposed.
LEMMA ApplyKeeps ==
  ASSUME CredInv, NEW c \in Cluster, NEW s \in {"promote", "repoint"}, NEW S \in SUBSET Cluster,
         Apply(c, s, S), UNCHANGED <<wanted, primary, secret, settled>>,
         exposed \subseteq exposed', exposed' \subseteq Cluster, pg' \ pg \subseteq exposed',
         s = "repoint" => wanted \in exposed'
  PROVE  CredInv'
<1> USE DEF CredInv, Shape
<1>1. pg' \in {pg, pg \cup {c}} /\ (Goto(s, S) \/ Return)
  BY DEF Apply
<1>2. \A d \in pg' \ exposed' : Complete(d)'
  BY <1>1 DEF Exposure, Complete
<1>3. CASE Goto(s, S)
  <2>1. Exposure'
    BY <1>2, <1>3 DEF Exposure, Goto
  <2> QED
    BY <1>1, <1>3, <2>1, GotoKeeps
<1>4. CASE Return
  <2>1. Exposure'
    BY <1>2, <1>4 DEF Exposure, Return, NoPass
  <2> QED
    BY <1>1, <1>4, <2>1, ReturnKeeps
<1> QED
  BY <1>1, <1>3, <1>4

LEMMA CredFailover ==
  ASSUME CredInv, demoteCluster \/ promoteCluster \/ \E c \in Cluster : repoint(c)
  PROVE  CredInv'
<1> USE DEF CredInv, Shape
<1>1. CASE demoteCluster
  <2>1. /\ primary \in Cluster /\ {} \in SUBSET Cluster
        /\ Apply(primary, "promote", {}) /\ UNCHANGED <<wanted, primary, secret, settled>>
        /\ exposed' = exposed \cup (pg' \ pg) /\ pg' \in {pg, pg \cup {primary}}
    BY <1>1 DEF demoteCluster, FailoverPending, Apply
  <2> QED
    BY <2>1, ApplyKeeps
<1>2. CASE promoteCluster
  <2> DEFINE S == Cluster \ {primary, wanted}
  <2>1. /\ wanted \in Cluster /\ S \in SUBSET Cluster
        /\ Apply(wanted, "repoint", S) /\ UNCHANGED <<wanted, primary, secret, settled>>
        /\ exposed' = exposed \cup {wanted} /\ pg' \in {pg, pg \cup {wanted}}
    BY <1>2 DEF promoteCluster, Apply
  <2> QED
    BY <2>1, ApplyKeeps
<1>3. ASSUME NEW c \in Cluster, repoint(c)
      PROVE  CredInv'
  <2> DEFINE S == pass.todo \ {c}
  <2>1. /\ S \in SUBSET Cluster /\ pass.pc = "repoint"
        /\ Apply(c, "repoint", S) /\ UNCHANGED <<wanted, primary, secret, settled>>
        /\ exposed' = exposed \cup (pg' \ pg) /\ pg' \in {pg, pg \cup {c}}
    BY <1>3 DEF repoint, Apply, At
  <2>2. wanted \in exposed'
    BY <2>1 DEF Exposure
  <2> QED
    BY <2>1, <2>2, ApplyKeeps
<1> QED
  BY <1>1, <1>2, <1>3

LEMMA CredEnvironment ==
  ASSUME CredInv,
         \/ UpdateStatus \/ FailoverCommit \/ Crash \/ Settle \/ ZalandoStep
         \/ \E r \in Role, v \in Rotation : Rotate(r, v)
         \/ \E p \in Cluster : UserEdit(p)
  PROVE  CredInv'
<1> USE DEF CredInv, Shape
<1>1. CASE UpdateStatus \/ FailoverCommit \/ Crash
  <2>1. /\ UNCHANGED <<wanted, secret, pg, settled, exposed>> /\ Return
        /\ primary' = primary \/ (primary' = wanted /\ wanted \in exposed)
    BY <1>1 DEF UpdateStatus, FailoverCommit, Crash, At, Exposure
  <2>2. Exposure'
    BY <2>1 DEF Exposure, Complete, Return, NoPass
  <2> QED
    BY <2>1, <2>2, ReturnKeeps
<1>2. CASE Settle
  <2>1. UNCHANGED <<wanted, primary, secret, pg, pass, exposed>> /\ settled' \in BOOLEAN
    BY <1>2 DEF Settle
  <2> QED
    BY <2>1 DEF Authors, Good, Exposure, FetchInv, SyncInv, StandbyInv, Complete
<1>3. ASSUME NEW c \in Cluster, NEW r \in Role, Zalando(c, r)
      PROVE  CredInv'
  <2>1. /\ c \in pg /\ secret[c][r] = NoPassword /\ secret' = [secret EXCEPT ![c][r] = Invented(c, r)]
        /\ UNCHANGED <<wanted, primary, pg, settled, pass, exposed>>
    BY <1>3 DEF Zalando
  <2>2. c \in exposed'
    BY <2>1 DEF Exposure, Complete
  <2>3. PICK x \in AnyPassword : x = Invented(c, r)
    BY NoneIsNoPassword
  <2>4. Good(x, r)' /\ x # NoPassword
    BY <2>2, <2>3, NoneIsNoPassword DEF Good
  <2> QED
    BY <2>1, <2>3, <2>4, WriteBeside
<1>4. ASSUME NEW r \in Role, NEW v \in Rotation, Rotate(r, v)
      PROVE  CredInv'
  <2>1. primary \in Cluster /\ secret' = [secret EXCEPT ![primary][r] = [role |-> r, by |-> v]]
        /\ UNCHANGED <<wanted, primary, pg, settled, pass, exposed>>
    BY <1>4 DEF Rotate
  <2>2. PICK x \in AnyPassword : x = [role |-> r, by |-> v]
    BY NoneIsNoPassword
  <2>3. Good(x, r)' /\ x # NoPassword
    BY <2>1, <2>2, NoneIsNoPassword DEF Good
  <2> QED
    BY <2>1, <2>2, <2>3, WriteBeside
<1>5. ASSUME NEW p \in Cluster, UserEdit(p)
      PROVE  CredInv'
  <2>1. wanted' = p /\ UNCHANGED <<primary, secret, pg, settled, pass, exposed>> /\ pass.pc = "idle"
    BY <1>5 DEF UserEdit, At
  <2>2. Exposure' /\ FetchInv' /\ SyncInv' /\ StandbyInv'
    BY <2>1 DEF Exposure, FetchInv, SyncInv, StandbyInv, Complete
  <2>3. Authors'
    BY <2>1 DEF Authors, Good
  <2> QED
    BY <2>1, <2>2, <2>3
<1> QED
  BY <1>1, <1>2, <1>3, <1>4, <1>5 DEF ZalandoStep

\* The inductive invariant holds in every reachable state.
THEOREM CredentialsInvariance == Spec => []CredInv
<1>1. CredInv /\ [Next]_cvars => CredInv'
  <2>1. CASE UNCHANGED cvars
    BY <2>1 DEF cvars, CredInv, Shape, Authors, Good, Exposure, FetchInv, SyncInv, StandbyInv, Complete
  <2> QED
    BY <2>1, CredPrimary, CredCheck, CredFetch, CredStartSync, CredSync, CredSyncDone, CredStandby,
       CredFailover, CredEnvironment DEF Next, OperatorStep
<1> QED
  BY <1>1, CredInit, PTL DEF Spec

\* For any number of clusters and rotations: a password that a cluster invented sits in its
\* Secret only if that cluster was made primary, a sync failed to reach it or a failover created
\* its postgresql.
THEOREM OwnPasswordCorrect == Spec => []OwnPasswordOnlyWhenExposed
<1>1. CredInv => OwnPasswordOnlyWhenExposed
  <2> SUFFICES ASSUME CredInv, NEW c \in Cluster, NEW r \in Role, secret[c][r] = Invented(c, r)
               PROVE  c \in exposed
    BY DEF OwnPasswordOnlyWhenExposed
  <2>1. Good(secret[c][r], r)
    BY DEF CredInv, Authors
  <2>2. secret[c][r].by = c
    BY NoneIsNoPassword
  <2> QED
    BY <2>1, <2>2 DEF Good
<1> QED
  BY <1>1, CredentialsInvariance, PTL

\* Type correctness for any number of clusters and rotations; in particular no copy ever puts
\* the password of one role into the Secret of the other.
THEOREM CredentialsTypeCorrect == Spec => []TypeOK
<1>1. CredInv => TypeOK
  <2> SUFFICES ASSUME CredInv PROVE TypeOK
    OBVIOUS
  <2>1. pass.roles \in Seq(Role)
    <3>1. <<>> \in Seq(Role) /\ <<"standby">> \in Seq(Role) /\ CredentialRoles \in Seq(Role)
      BY DEF Role, CredentialRoles
    <3> QED
      BY <3>1 DEF CredInv, Shape
  <2>2. /\ \A c \in Cluster, r \in Role : secret[c][r] \in Password(r) \cup {NoPassword}
        /\ \A r \in Role : pass.fetched[r] \in Password(r) \cup {NoPassword}
    BY DEF CredInv, Authors, Good
  <2> QED
    BY <2>1, <2>2 DEF CredInv, Shape, Stage, TypeOK
<1> QED
  BY <1>1, CredentialsInvariance, PTL
=============================================================================
