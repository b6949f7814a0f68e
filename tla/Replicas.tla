------------------------------ MODULE Replicas ------------------------------
(***************************************************************************)
(* Several copies of the operator over one PostgresMC, each reading the    *)
(* object from the informer cache of its own manager (main.go), which may  *)
(* lag behind the API server.  Leader election is off unless a flag turns  *)
(* it on; with it on, or with one replica, Operator has one element.       *)
(*                                                                         *)
(* Of the reconciler only the control that decides who is writable is      *)
(* kept: the choice between a normal and a failover pass, the calls that   *)
(* change a postgresql, and the status patches with their merge semantics  *)
(* (a patch carries the fields that differ from the copy the pass read).   *)
(* Targets are reachable and the spec is valid throughout.                 *)
(***************************************************************************)
EXTENDS Naturals, Sequences

CONSTANTS
  Cluster, None,
  Position,    \* the order of the targets in spec.clusters
  Operator,    \* the replicas that run
  MaxLag,      \* the most versions of the object a cache is behind
  Flaky,       \* calls may fail, and operators may crash
  InitPrimary  \* the primary the object is created with

ASSUME ReplicasAssumption ==
  /\ None \notin Cluster
  /\ Position \in [Cluster -> Nat]
  /\ MaxLag \in Nat
  /\ Flaky \in BOOLEAN
  /\ InitPrimary \in Cluster

VARIABLES
  obj,       \* the object on the API server: the primary of its spec, status.currentPrimary
  view,      \* per operator: the versions its cache has still to see, the one it shows first
  writable,  \* the clusters whose postgresql is a primary
  settled,   \* no further edit and no further fault
  pass,      \* per operator: the pass in flight
  disturbed  \* history: a pass began on a stale copy, or beside another one

rvars == <<obj, view, writable, settled, pass, disturbed>>

Object == [spec : Cluster, current : Cluster \cup {None}]
NoPass == [pc |-> "idle", copy |-> [spec |-> InitPrimary, current |-> None], todo |-> {}]

Init ==
  /\ obj = [spec |-> InitPrimary, current |-> None]
  /\ view = [o \in Operator |-> <<obj>>]
  /\ writable = {}
  /\ settled = FALSE
  /\ pass = [o \in Operator |-> NoPass]
  /\ disturbed = FALSE

-----------------------------------------------------------------------------
MayFail == Flaky /\ ~settled

\* The targets are visited in the order of the list.
IsFirst(c, S) == c \in S /\ \A d \in S : Position[c] <= Position[d]

At(o, s) == pass[o].pc = s
Copy(o) == pass[o].copy
Return(o) == pass' = [pass EXCEPT ![o] = NoPass]
Goto(o, s, T) == pass' = [pass EXCEPT ![o].pc = s, ![o].todo = T]

\* A write to the object: the server shows it at once, the caches later, at most MaxLag
\* versions later.
Write(n) ==
  /\ obj' = n
  /\ view' = IF n = obj THEN view
             ELSE [o \in Operator |->
                     Append(IF Len(view[o]) > MaxLag THEN Tail(view[o]) ELSE view[o], n)]

\* A watch event reaches the cache of o.
Deliver(o) ==
  /\ Len(view[o]) > 1
  /\ view' = [view EXCEPT ![o] = Tail(@)]
  /\ UNCHANGED <<obj, writable, settled, pass, disturbed>>

FailoverPending(m) == m.current # None /\ m.current # m.spec

\* Reconcile reads the object from the cache.
Read(o) ==
  /\ At(o, "idle")
  /\ LET m == Head(view[o]) IN
       pass' = [pass EXCEPT ![o] = [pc |-> IF FailoverPending(m) THEN "begin" ELSE "primary",
                                    copy |-> m, todo |-> {}]]
  /\ disturbed' = (disturbed \/ Head(view[o]) # obj \/ \E p \in Operator \ {o} : ~At(p, "idle"))
  /\ UNCHANGED <<obj, view, writable, settled>>

-----------------------------------------------------------------------------
(* The normal pass.                                                        *)

\* The standbys are visited only when the primary is ready.
reconcilePrimary(o) ==
  /\ At(o, "primary")
  /\ \/ /\ writable' = writable \cup {Copy(o).spec}
        /\ \/ Goto(o, "standby", Cluster \ {Copy(o).spec})
           \/ MayFail /\ Goto(o, "status", {})
     \/ MayFail /\ Goto(o, "status", {}) /\ UNCHANGED writable
  /\ UNCHANGED <<obj, view, settled, disturbed>>

\* Mutant: a cluster that has a postgresql already is left as it is.
CreateOnly(o, c) ==
  /\ At(o, "standby")
  /\ IsFirst(c, pass[o].todo)
  /\ Goto(o, "standby", pass[o].todo \ {c})
  /\ UNCHANGED <<obj, view, settled, writable, disturbed>>

reconcileStandby(o, c) ==
  /\ At(o, "standby")
  /\ IsFirst(c, pass[o].todo)
  /\ writable' = writable \ {c} \/ (MayFail /\ UNCHANGED writable)
  /\ Goto(o, "standby", pass[o].todo \ {c})
  /\ UNCHANGED <<obj, view, settled, disturbed>>

\* The patch carries currentPrimary only where the copy had another one.
UpdateStatus(o) ==
  /\ At(o, "status") \/ (At(o, "standby") /\ pass[o].todo = {})
  /\ \/ Write([obj EXCEPT !.current = IF Copy(o).current = Copy(o).spec THEN @ ELSE Copy(o).spec])
     \/ MayFail /\ UNCHANGED <<obj, view>>
  /\ Return(o)
  /\ UNCHANGED <<writable, settled, disturbed>>

-----------------------------------------------------------------------------
(* The failover pass.                                                      *)

\* The response of the first patch replaces the copy; an error of it is ignored.
FailoverBegin(o) ==
  /\ At(o, "begin")
  /\ \E m \in {obj} \cup (IF MayFail THEN {Copy(o)} ELSE {}) :
       pass' = [pass EXCEPT ![o].pc = "demote", ![o].copy = m]
  /\ UNCHANGED <<obj, view, writable, settled, disturbed>>

\* The refreshed copy has no other primary to switch to: the orchestrator finds no host.
FailoverRefused(o) ==
  /\ At(o, "demote")
  /\ Copy(o).spec = Copy(o).current
  /\ Return(o)
  /\ UNCHANGED <<obj, view, writable, settled, disturbed>>

\* One call of the orchestrator: it takes effect, or an error ends the pass.
Call(o, W, s, T) ==
  /\ \/ writable' = W /\ Goto(o, s, T)
     \/ MayFail /\ writable' \in {writable, W} /\ Return(o)
  /\ UNCHANGED <<obj, view, settled, disturbed>>

\* Mutant: the failover goes on when the demotion fails.
DemotionIgnored(o) ==
  /\ At(o, "demote")
  /\ Copy(o).spec # Copy(o).current
  /\ writable' = writable \ {Copy(o).current} \/ (MayFail /\ UNCHANGED writable)
  /\ Goto(o, "promote", {})
  /\ UNCHANGED <<obj, view, settled, disturbed>>

demoteCluster(o) ==
  /\ At(o, "demote")
  /\ Copy(o).spec # Copy(o).current
  /\ Call(o, writable \ {Copy(o).current}, "promote", {})

\* Mutant: the failover goes on when the promotion fails.
PromotionIgnored(o) ==
  /\ At(o, "promote")
  /\ writable' = writable \cup {Copy(o).spec} \/ (MayFail /\ UNCHANGED writable)
  /\ Goto(o, "repoint", Cluster \ {Copy(o).spec, Copy(o).current})
  /\ UNCHANGED <<obj, view, settled, disturbed>>

promoteCluster(o) ==
  /\ At(o, "promote")
  /\ Call(o, writable \cup {Copy(o).spec}, "repoint", Cluster \ {Copy(o).spec, Copy(o).current})

repoint(o, c) ==
  /\ At(o, "repoint")
  /\ IsFirst(c, pass[o].todo)
  /\ Call(o, writable \ {c}, "repoint", pass[o].todo \ {c})

FailoverCommit(o) ==
  /\ At(o, "repoint")
  /\ pass[o].todo = {}
  /\ Write([obj EXCEPT !.current = Copy(o).spec]) \/ (MayFail /\ UNCHANGED <<obj, view>>)
  /\ Return(o)
  /\ UNCHANGED <<writable, settled, disturbed>>

-----------------------------------------------------------------------------
Crash(o) ==
  /\ MayFail
  /\ ~At(o, "idle")
  /\ Return(o)
  /\ UNCHANGED <<obj, view, writable, settled, disturbed>>

\* A user changes the primary once the last change is on record.
UserEdit ==
  /\ ~settled
  /\ obj.current = obj.spec
  /\ \E p \in Cluster \ {obj.spec} : Write([obj EXCEPT !.spec = p])
  /\ UNCHANGED <<writable, settled, pass, disturbed>>

Settle ==
  /\ ~settled
  /\ settled' = TRUE
  /\ UNCHANGED <<obj, view, writable, pass, disturbed>>

Step(o) ==
  \/ Read(o) \/ reconcilePrimary(o) \/ UpdateStatus(o)
  \/ FailoverBegin(o) \/ FailoverRefused(o) \/ demoteCluster(o) \/ promoteCluster(o)
  \/ FailoverCommit(o)
  \/ \E c \in Cluster : reconcileStandby(o, c) \/ repoint(o, c)

Next ==
  \/ \E o \in Operator : Step(o) \/ Deliver(o) \/ Crash(o)
  \/ UserEdit \/ Settle

\* Every operator keeps reconciling and every watch event arrives in the end.
Spec ==
  /\ Init
  /\ [][Next]_rvars
  /\ \A o \in Operator : WF_rvars(Step(o)) /\ WF_rvars(Deliver(o))

-----------------------------------------------------------------------------
\* At no time are two clusters told to run as a writable primary.
OneWriter == \A c, d \in writable : c = d

Abstract == INSTANCE Topology WITH desired <- obj.spec, current <- obj.current, live <- TRUE

\* Passes that run one at a time, by whichever replica, and that read the object as it is,
\* never make two clusters writable, whatever calls fail and wherever operators die: a
\* second writer is always owed to a stale read or to a concurrent pass.
OneWriterUntilDisturbed == disturbed \/ OneWriter

\* Until then every step of every operator is one of the single-writer protocol.
TopologyUntilDisturbed ==
  Abstract!Init /\ [][disturbed' \/ Abstract!Next]_(Abstract!tvars)

\* However many replicas ran at once and however stale their reads were: once edits and
\* faults stop, the primary of the spec is the only writable cluster and on record, for good.
Heals == <>[]settled => <>[](writable = {obj.spec} /\ obj.current = obj.spec)
=============================================================================
