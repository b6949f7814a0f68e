---------------------------- MODULE Credentials ----------------------------
(***************************************************************************)
(* The credential syncer (internal/credentials) between the Zalando        *)
(* operators of the workload clusters, each of which invents a password    *)
(* for every role of a postgresql that finds no Secret for it.  A standby  *)
(* is of use only with the passwords of its primary, so the reconciler     *)
(* copies the Secrets before it applies the standby; an error of the copy  *)
(* is logged and the standby is applied all the same.                      *)
(*                                                                         *)
(* Every call on a workload cluster is a step, those of a failover too: it *)
(* applies a postgresql on every target and copies no Secret.              *)
(*                                                                         *)
(* A pass reads the roles once, so that an edit during a pass is an edit   *)
(* after it; a target without a client is one whose calls fail.  Hosts are *)
(* known and the object is not deleted: Endpoints and Reconciler have that.*)
(***************************************************************************)
EXTENDS Naturals, Sequences

CONSTANTS
  Cluster, None,
  Position,        \* the order of the targets in spec.clusters
  Rotation,        \* the rotations of a password by a user
  InitPrimary      \* the primary the object is created with

ASSUME CredentialsAssumption ==
  /\ None \notin Cluster \cup Rotation
  /\ Position \in [Cluster -> Nat]
  /\ \A c, d \in Cluster : Position[c] = Position[d] => c = d
  /\ Rotation \cap Cluster = {}
  /\ InitPrimary \in Cluster

CredentialRoles == <<"postgres", "standby">>
Role == {"postgres", "standby"}

\* A password is known by its role and by who made it.
Password(r) == [role : {r}, by : Cluster \cup Rotation]
NoPassword == [role |-> None, by |-> None]
Invented(c, r) == [role |-> r, by |-> c]

VARIABLES
  wanted,   \* the primary of the spec
  primary,  \* status.currentPrimary
  secret,   \* per cluster and role: the password in the Secret
  pg,       \* the clusters that have a postgresql
  settled,  \* no further fault, rotation or failover
  pass,     \* the pass in flight
  exposed   \* history: the clusters that were made primary, that a sync failed to reach,
            \* or that have their postgresql from a failover

cvars == <<wanted, primary, secret, pg, settled, pass, exposed>>

NoneFetched == [r \in Role |-> NoPassword]
NoPass == [pc |-> "idle", fetched |-> NoneFetched, roles |-> <<>>, todo |-> {}]

Init ==
  /\ wanted = InitPrimary
  /\ primary = None
  /\ secret = [c \in Cluster |-> NoneFetched]
  /\ pg = {}
  /\ settled = FALSE
  /\ pass = NoPass
  /\ exposed = {}

-----------------------------------------------------------------------------
MayFail == ~settled
At(s) == pass.pc = s
Return == pass' = NoPass

IsFirst(c, S) == c \in S /\ \A d \in S : Position[c] <= Position[d]

Standbys == Cluster \ {wanted}

\* The pass goes on to stage s, with all roles and the clusters of S to visit.
Goto(s, S) == pass' = [pc |-> s, fetched |-> NoneFetched, roles |-> CredentialRoles, todo |-> S]

\* The Secret of role r on cluster c, by its name.
SecretName(r, c) == [role |-> r, cluster |-> c]

-----------------------------------------------------------------------------
(* The primary.                                                            *)

FailoverPending == primary # None /\ wanted # primary

\* An error ends the pass with the status patch, before any standby.
reconcilePrimary ==
  /\ At("idle") /\ ~FailoverPending
  /\ \/ pg' = pg \cup {wanted} /\ Goto("check", {})
     \/ MayFail /\ pg' \in {pg, pg \cup {wanted}} /\ Goto("standby", {})
  /\ exposed' = exposed \cup {wanted}
  /\ UNCHANGED <<wanted, primary, secret, settled>>

\* Without all the Secrets of the primary the pass leaves the standbys alone.
CheckSecrets ==
  /\ At("check")
  /\ \/ (\A r \in Role : secret[wanted][r] # NoPassword) /\ Goto("fetch", {})
     \/ (\E r \in Role : secret[wanted][r] = NoPassword) /\ Goto("standby", {})
     \/ MayFail /\ Goto("standby", {})
  /\ UNCHANGED <<wanted, primary, secret, pg, settled, exposed>>

-----------------------------------------------------------------------------
(* SyncFromPrimary.                                                        *)

\* One Get per role, a rotation may come between them; an error ends the sync.
fetchCredentials ==
  /\ At("fetch") /\ pass.roles # <<>>
  /\ \/ /\ pass' = [pass EXCEPT !.fetched[Head(pass.roles)] = secret[wanted][Head(pass.roles)],
                             !.roles = Tail(@)]
        /\ UNCHANGED exposed
     \/ /\ MayFail
        /\ Goto("standby", Standbys)
        /\ exposed' = exposed \cup Standbys
  /\ UNCHANGED <<wanted, primary, secret, pg, settled>>

\* The roles whose Secret was found, in their order; a Secret that was not is skipped.
Keep(r) == IF pass.fetched[r] # NoPassword THEN <<r>> ELSE <<>>
Found == Keep("postgres") \o Keep("standby")

\* Mutant: only clusters that have a postgresql get Secrets.
SyncExisting ==
  /\ At("fetch") /\ pass.roles = <<>>
  /\ pass' = [pass EXCEPT !.pc = "sync", !.todo = pg \ {wanted}, !.roles = Found]
  /\ UNCHANGED <<wanted, primary, secret, pg, settled, exposed>>

\* What was found is copied to every standby.
StartSync ==
  /\ At("fetch") /\ pass.roles = <<>>
  /\ pass' = [pass EXCEPT !.pc = "sync", !.todo = Standbys, !.roles = Found]
  /\ UNCHANGED <<wanted, primary, secret, pg, settled, exposed>>

\* Mutant: the name of the first role is the prefix of all.
RewriteToFirst(n, c) == SecretName(Head(CredentialRoles), c)
rewriteClusterName(n, c) == SecretName(n.role, c)

\* Mutant: a Secret that exists is left alone.
CreateSecret(s, n, p) ==
  IF s[n.cluster][n.role] = NoPassword THEN [s EXCEPT ![n.cluster][n.role] = p] ELSE s
applySecret(s, n, p) == [s EXCEPT ![n.cluster][n.role] = p]

\* The syncer turns to the next standby once c has all Secrets or one of them failed.
SyncedWith(c, rs) ==
  pass' = IF rs = <<>> THEN [pass EXCEPT !.todo = @ \ {c}, !.roles = Found]
                       ELSE [pass EXCEPT !.roles = rs]

\* One Secret of one standby.  The creation may meet one the Zalando operator has just made.
syncToStandby(c) ==
  /\ At("sync") /\ IsFirst(c, pass.todo) /\ pass.roles # <<>>
  /\ LET r == Head(pass.roles)
         n == rewriteClusterName(SecretName(r, wanted), c) IN
       \/ /\ secret' = applySecret(secret, n, pass.fetched[r])
          /\ SyncedWith(c, Tail(pass.roles))
          /\ UNCHANGED exposed
       \/ /\ MayFail
          /\ secret' \in {secret, applySecret(secret, n, pass.fetched[r])}
          /\ SyncedWith(c, <<>>)
          /\ exposed' = exposed \cup {c}
       \/ /\ c \in pg /\ secret[c][r] = NoPassword
          /\ secret' = [secret EXCEPT ![c][r] = Invented(c, r)]
          /\ SyncedWith(c, <<>>)
          /\ exposed' = exposed \cup {c}
  /\ UNCHANGED <<wanted, primary, pg, settled>>

\* Whatever the result of the sync, the standbys come next.
SyncDone ==
  /\ At("sync") /\ pass.todo = {}
  /\ Goto("standby", Standbys)
  /\ UNCHANGED <<wanted, primary, secret, pg, settled, exposed>>

reconcileStandby(c) ==
  /\ At("standby") /\ IsFirst(c, pass.todo)
  /\ pg' = pg \cup {c} \/ (MayFail /\ UNCHANGED pg)
  /\ pass' = [pass EXCEPT !.todo = @ \ {c}]
  /\ UNCHANGED <<wanted, primary, secret, settled, exposed>>

\* The primary of the spec is recorded, whether or not its Secrets were there.
UpdateStatus ==
  /\ At("standby") /\ pass.todo = {}
  /\ primary' = wanted \/ (MayFail /\ UNCHANGED primary)
  /\ Return
  /\ UNCHANGED <<wanted, secret, pg, settled, exposed>>

-----------------------------------------------------------------------------
(* A failover, with its standbys applied whether or not they were synced.  *)

\* One apply on cluster c; an error ends the pass.
Apply(c, s, S) ==
  \/ pg' = pg \cup {c} /\ Goto(s, S)
  \/ MayFail /\ pg' \in {pg, pg \cup {c}} /\ Return

demoteCluster ==
  /\ At("idle") /\ FailoverPending
  /\ Apply(primary, "promote", {})
  /\ exposed' = exposed \cup (pg' \ pg)
  /\ UNCHANGED <<wanted, primary, secret, settled>>

promoteCluster ==
  /\ At("promote")
  /\ Apply(wanted, "repoint", Cluster \ {primary, wanted})
  /\ exposed' = exposed \cup {wanted}
  /\ UNCHANGED <<wanted, primary, secret, settled>>

repoint(c) ==
  /\ At("repoint") /\ IsFirst(c, pass.todo)
  /\ Apply(c, "repoint", pass.todo \ {c})
  /\ exposed' = exposed \cup (pg' \ pg)
  /\ UNCHANGED <<wanted, primary, secret, settled>>

\* The aliases, which hold no password, and the record.
FailoverCommit ==
  /\ At("repoint") /\ pass.todo = {}
  /\ primary' = wanted \/ (MayFail /\ UNCHANGED primary)
  /\ Return
  /\ UNCHANGED <<wanted, secret, pg, settled, exposed>>

-----------------------------------------------------------------------------
(* Everything else.                                                        *)

Crash ==
  /\ MayFail /\ ~At("idle")
  /\ Return
  /\ UNCHANGED <<wanted, primary, secret, pg, settled, exposed>>

\* The Zalando operator of c makes the Secrets its postgresql lacks.
Zalando(c, r) ==
  /\ c \in pg /\ secret[c][r] = NoPassword
  /\ secret' = [secret EXCEPT ![c][r] = Invented(c, r)]
  /\ UNCHANGED <<wanted, primary, pg, settled, pass, exposed>>

\* On the primary on record.
Rotate(r, v) ==
  /\ ~settled
  /\ primary # None /\ secret[primary][r] # NoPassword
  /\ secret' = [secret EXCEPT ![primary][r] = [role |-> r, by |-> v]]
  /\ UNCHANGED <<wanted, primary, pg, settled, pass, exposed>>

UserEdit(p) ==
  /\ ~settled /\ At("idle")
  /\ wanted' = p
  /\ UNCHANGED <<primary, secret, pg, settled, pass, exposed>>

\* Between passes: a pass in which nothing fails any more may as well be the last before.
Settle ==
  /\ ~settled /\ At("idle")
  /\ settled' = TRUE
  /\ UNCHANGED <<wanted, primary, secret, pg, pass, exposed>>

OperatorStep ==
  \/ reconcilePrimary \/ CheckSecrets \/ fetchCredentials \/ StartSync \/ SyncDone
  \/ \E c \in Cluster : syncToStandby(c) \/ reconcileStandby(c)
  \/ UpdateStatus
  \/ demoteCluster \/ promoteCluster \/ FailoverCommit
  \/ \E c \in Cluster : repoint(c)

ZalandoStep == \E c \in Cluster, r \in Role : Zalando(c, r)

Next ==
  \/ OperatorStep \/ ZalandoStep
  \/ Crash \/ Settle
  \/ \E r \in Role, v \in Rotation : Rotate(r, v)
  \/ \E p \in Cluster : UserEdit(p)

\* Passes follow one another, and the Zalando operators do their work.
Spec == Init /\ [][Next]_cvars /\ WF_cvars(OperatorStep) /\ WF_cvars(ZalandoStep)

-----------------------------------------------------------------------------
\* The type invariant; the Secret of a role never holds the password of another role.
TypeOK ==
  /\ wanted \in Cluster /\ primary \in Cluster \cup {None}
  /\ \A c \in Cluster, r \in Role : secret[c][r] \in Password(r) \cup {NoPassword}
  /\ pg \subseteq Cluster
  /\ settled \in BOOLEAN
  /\ pass.pc \in {"idle", "check", "fetch", "sync", "standby", "promote", "repoint"}
  /\ \A r \in Role : pass.fetched[r] \in Password(r) \cup {NoPassword}
  /\ pass.roles \in Seq(Role) /\ pass.todo \subseteq Cluster
  /\ exposed \subseteq Cluster

\* A cluster runs with a password of its own invention only if it was made primary, a sync
\* of its Secrets failed, or a failover created its postgresql: in a normal pass whose calls
\* succeed the copies are there before the standby is, whatever rotations, crashes and
\* half-done failovers went before.
OwnPasswordOnlyWhenExposed ==
  \A c \in Cluster, r \in Role : secret[c][r] = Invented(c, r) => c \in exposed

\* Whatever was invented, rotated, half copied or promoted: once faults stop, every cluster
\* has the passwords of the primary of the spec, for good.
CredentialsConverge ==
  <>[]settled =>
    <>[](\A c \in Cluster, r \in Role :
           secret[c][r] = secret[wanted][r] /\ secret[c][r] # NoPassword)
=============================================================================
