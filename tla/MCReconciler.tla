---------------------------- MODULE MCReconciler ----------------------------
(* Small instances of Reconciler for TLC. *)
EXTENDS ReconcilerProperties

CONSTANTS eu, us, ap, ns1, ns2

Roles(p) == [c \in Cluster |-> IF c = p THEN "primary" ELSE "standby"]

MCPosition == [c \in Cluster |-> IF c = eu THEN 1 ELSE IF c = us THEN 2 ELSE 3]
AllIP == [c \in Cluster |-> "ip"]
AllDNS == [c \in Cluster |-> "dns"]
OneNamespace == [c \in Cluster |-> ns1]

EuPrimary == {Roles(eu)}
AnyPrimary == {Roles(c) : c \in Cluster}
\* ... and the two ways the roles are invalid, and clusters that leave the list and come back.
AnyRoles == SpecType

MixedHosts == [c \in Cluster |-> IF c = us THEN "dns" ELSE "ip"]
=============================================================================
