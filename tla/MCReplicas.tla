----------------------------- MODULE MCReplicas -----------------------------
(* Small instances of Replicas for TLC. *)
EXTENDS Replicas

CONSTANTS eu, us, ap

MCPosition == [c \in Cluster |-> IF c = eu THEN 1 ELSE IF c = us THEN 2 ELSE 3]
=============================================================================
