--------------------------- MODULE MCCredentials ---------------------------
(* A small instance of Credentials for TLC. *)
EXTENDS Credentials

CONSTANTS eu, us, ap

MCPosition == [c \in Cluster |-> IF c = eu THEN 1 ELSE IF c = us THEN 2 ELSE 3]
=============================================================================
