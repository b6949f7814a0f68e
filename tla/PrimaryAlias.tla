---------------------------- MODULE PrimaryAlias ----------------------------
(***************************************************************************)
(* The cross-cluster alias Service "<name>-primary" a workload cluster     *)
(* keeps, and what the service manager of internal/crosscluster does to    *)
(* it.  A host is named by the cluster it belongs to; HostKind says        *)
(* whether that host is written as an IP address or as a DNS name.  Ports  *)
(* and labels are left out: no property tells them apart.                  *)
(***************************************************************************)
CONSTANTS Cluster, None, HostKind

ASSUME NoneAssumption == None \notin Cluster
ASSUME HostKindAssumption == HostKind \in [Cluster -> {"ip", "dns"}]

Host == Cluster \cup {None}

\* The Service object and the Endpoints object of the same name.
Alias == [type : {"absent", "ExternalName", "Headless"}, externalName : Host, endpoints : Host]

NoAlias == [type |-> "absent", externalName |-> None, endpoints |-> None]

-----------------------------------------------------------------------------
\* An existing Service is never given another type: only externalName moves.
ensureExternalName(a, h) ==
  IF a.type = "absent" THEN [a EXCEPT !.type = "ExternalName", !.externalName = h]
                       ELSE [a EXCEPT !.externalName = h]

\* The first half of ensureHeadlessWithEndpoints: the Service alone.
HeadlessServiceOnly(a) == IF a.type = "absent" THEN [a EXCEPT !.type = "Headless"] ELSE a

\* A Service that is already there is left as it is, whatever its type.
ensureHeadlessWithEndpoints(a, h) == [HeadlessServiceOnly(a) EXCEPT !.endpoints = h]

EnsurePrimaryAlias(a, h) ==
  IF HostKind[h] = "ip" THEN ensureHeadlessWithEndpoints(a, h) ELSE ensureExternalName(a, h)

\* What a call that reports an error may have left behind.
InterruptedAlias(a, h) ==
  {a, EnsurePrimaryAlias(a, h)} \cup (IF HostKind[h] = "ip" THEN {HeadlessServiceOnly(a)} ELSE {})

\* Deleting the Service takes its Endpoints with it.
DeleteAlias(a) == NoAlias

\* What the alias name resolves to inside the cluster (kube-dns, external).
Resolve(a) ==
  CASE a.type = "ExternalName" -> a.externalName
    [] a.type = "Headless"     -> a.endpoints
    [] OTHER                   -> None
=============================================================================
