----------------------------- MODULE Aggregator -----------------------------
(***************************************************************************)
(* internal/status: the roll-up of the per-cluster Ready conditions into   *)
(* the phase of the PostgresMC.  entries is the set of names that have an  *)
(* entry in status.clusters, ready those whose Ready condition is True.    *)
(***************************************************************************)

Phase == {"", "Pending", "Ready", "Degraded", "FailingOver", "Failed"}

Aggregate(entries, ready, failoverInProgress) ==
  CASE failoverInProgress                  -> "FailingOver"
    [] ~failoverInProgress /\ entries = {} -> "Pending"
    [] OTHER -> IF entries \subseteq ready THEN "Ready"
                ELSE IF entries \cap ready = {} THEN "Failed"
                ELSE "Degraded"
=============================================================================
