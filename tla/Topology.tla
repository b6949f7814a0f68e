------------------------------ MODULE Topology ------------------------------
(***************************************************************************)
(* What the operator promises of the primary role, whatever it does to get *)
(* there: a cluster becomes writable only when no other one is, a writable *)
(* cluster is stopped only for a switch away from it or for good, and a    *)
(* switch is on record only once the new primary is writable.              *)
(***************************************************************************)
CONSTANTS Cluster, None

VARIABLES
  desired,   \* the primary the spec asks for, None while the spec is invalid
  current,   \* the primary on record, None before the first one
  writable,  \* the clusters that run as a primary
  live       \* the object is not being deleted

tvars == <<desired, current, writable, live>>

Init ==
  /\ desired \in Cluster \cup {None}
  /\ current = None
  /\ writable = {}
  /\ live = TRUE

\* The goal moves only while nobody but the primary on record is writable.
Desire ==
  /\ writable \subseteq {current}
  /\ desired' \in Cluster \cup {None}
  /\ UNCHANGED <<current, writable, live>>

Grant(c) ==
  /\ c \in {desired, current}
  /\ writable = {}
  /\ writable' = {c}
  /\ UNCHANGED <<desired, current, live>>

Fence ==
  /\ desired # current
  /\ writable = {current}
  /\ writable' = {}
  /\ UNCHANGED <<desired, current, live>>

\* The first primary is on record as soon as it is chosen, a later one once it is writable.
Record ==
  /\ desired # None
  /\ IF current = None THEN writable \subseteq {desired} ELSE writable = {desired}
  /\ current' = desired
  /\ UNCHANGED <<desired, writable, live>>

Retire ==
  /\ live
  /\ live' = FALSE
  /\ UNCHANGED <<desired, current, writable>>

Teardown ==
  /\ ~live
  /\ writable' = {}
  /\ UNCHANGED <<desired, current, live>>

Next == Desire \/ (\E c \in Cluster : Grant(c)) \/ Fence \/ Record \/ Retire \/ Teardown

Spec == Init /\ [][Next]_tvars
=============================================================================
