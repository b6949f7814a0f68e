----------------------------- MODULE Endpoints -----------------------------
(***************************************************************************)
(* How a standby learns the address of its primary: the replication        *)
(* Service of internal/replicationservice, the discovery of its host, the  *)
(* "host:port" text kept in status.clusters[].endpoint, the alias Service  *)
(* on the standby's side and the port of its postgresql.                   *)
(*                                                                         *)
(* Two clusters: the serving one, whose Service and nodes are modelled and *)
(* which may start as a standby and be promoted by a failover, and the     *)
(* following one, which replicates from it once it is the primary.         *)
(* A host is a sequence of labels and colons (an IPv6 address has both); a *)
(* port is a single token.                                                 *)
(***************************************************************************)
EXTENDS Naturals, Sequences

CONSTANTS
  Label,            \* what hosts are made of, the colon aside
  HostName,         \* the hosts that occur
  HostKind,         \* whether a host is written as an IP address or as a DNS name
  Colon,            \* the token ":"
  Port,             \* the port numbers, NoPort aside
  NoPort,           \* the port 0
  DefaultNodePort,  \* 32432
  PostgresPort,     \* 5432
  Nodes,            \* the number of nodes of the serving cluster, listed as 1..Nodes
  NodeIP,           \* the InternalIP of each node, NoHost where it has none
  Ingress,          \* the load-balancer addresses that may be assigned
  InitCfg           \* what the object may be created with

NoHost == <<>>
NoAddress == [host |-> NoHost, port |-> NoPort]
NoIngress == [hostname |-> NoHost, ip |-> NoHost]

ASSUME HostAssumption ==
  /\ HostName \subseteq Seq(Label \cup {Colon}) \ {NoHost}
  /\ HostKind \in [HostName -> {"ip", "dns"}]
ASSUME PortAssumption ==
  /\ NoPort \notin Port
  /\ {DefaultNodePort, PostgresPort} \subseteq Port
  /\ Colon \notin Port
ASSUME NodeAssumption ==
  /\ Nodes \in Nat
  /\ NodeIP \in [1..Nodes -> HostName \cup {NoHost}]
  /\ Ingress \subseteq [hostname : HostName \cup {NoHost}, ip : HostName \cup {NoHost}]

\* spec.replicationService, with externalHost and externalPort of the serving target.
CfgType == [type : {"NodePort", "LoadBalancer"}, nodePort : Port \cup {NoPort},
            externalHost : HostName \cup {NoHost}, externalPort : Port \cup {NoPort}]

ASSUME CfgAssumption == InitCfg \subseteq CfgType /\ InitCfg # {}

VARIABLES
  cfg,      \* the configuration in the spec
  role,     \* of the serving cluster; "switching": promoted in the spec, not yet on record
  service,  \* the replication Service of the serving cluster
  ready,    \* its nodes that are Ready
  ingress,  \* status.loadBalancer.ingress[0] of the Service
  status,   \* the recorded endpoint of the serving cluster, and whether the phase is Ready
  alias,    \* the alias Service of the following cluster
  pg,       \* spec.standby of its postgresql
  settled,  \* no further fault, edit or change of nodes
  pass      \* the pass in flight

evars == <<cfg, role, service, ready, ingress, status, alias, pg, settled, pass>>
network == <<ready, ingress, settled>>
follower == <<alias, pg>>

A == INSTANCE PrimaryAlias WITH Cluster <- HostName, None <- NoHost

NoService == [type |-> "absent", port |-> NoPort]
NoStandby == [via |-> "none", host |-> NoHost, port |-> NoPort]
Created == [endpoint |-> <<>>, ready |-> FALSE]

Idle == [pc |-> "idle", cfg |-> CHOOSE c \in InitCfg : TRUE, role |-> "standby",
         endpoint |-> <<>>, addr |-> NoAddress, ready |-> FALSE]

Init ==
  /\ cfg \in InitCfg
  /\ role \in {"standby", "primary"}
  /\ service = NoService
  /\ ready = 1..Nodes
  /\ ingress = NoIngress
  /\ status = Created
  /\ alias = A!NoAlias
  /\ pg = NoStandby
  /\ settled = FALSE
  /\ pass = Idle

-----------------------------------------------------------------------------
(* The text of an endpoint.                                                *)

Format(a) == a.host \o <<Colon, a.port>>

\* Mutant: the text is cut at the first colon.
FirstIndex(e) ==
  IF \E i \in DOMAIN e : e[i] = Colon
    THEN CHOOSE i \in DOMAIN e : e[i] = Colon /\ \A j \in DOMAIN e : e[j] = Colon => i <= j
    ELSE 0

LastIndex(e) ==
  IF \E i \in DOMAIN e : e[i] = Colon
    THEN CHOOSE i \in DOMAIN e : e[i] = Colon /\ \A j \in DOMAIN e : e[j] = Colon => j <= i
    ELSE 0

\* Cut at the last colon; no host, or anything but a port after it, is no endpoint.
clusterEndpointFromStatus(e) ==
  LET i == LastIndex(e) IN
  IF i > 1 /\ Len(e) = i + 1 /\ e[Len(e)] \in Port
    THEN [host |-> SubSeq(e, 1, i - 1), port |-> e[Len(e)]]
    ELSE NoAddress

-----------------------------------------------------------------------------
(* The replication-service manager.                                        *)

\* Mutant: the default is left to Kubernetes.
ConfiguredPort(c) == c.nodePort
nodePort(c) == IF c.nodePort = NoPort THEN DefaultNodePort ELSE c.nodePort

\* Mutant: the ports of an existing Service are preserved.
PortsPreserved(s, c) ==
  IF s.type = "absent"
    THEN [type |-> c.type, port |-> IF c.type = "NodePort" THEN nodePort(c) ELSE NoPort]
    ELSE s

\* A Service that is there keeps its type; its ports follow the spec for a NodePort only.
applyService(s, c) ==
  CASE s.type = "absent"   -> [type |-> c.type,
                               port |-> IF c.type = "NodePort" THEN nodePort(c) ELSE NoPort]
    [] s.type # "absent" /\ c.type = "NodePort" -> [s EXCEPT !.port = nodePort(c)]
    [] OTHER -> s

\* The first Ready node that has an InternalIP.
discoverNodeIP ==
  LET usable == {n \in ready : NodeIP[n] # NoHost} IN
  IF usable = {} THEN NoHost ELSE NodeIP[CHOOSE n \in usable : \A m \in usable : n <= m]

discoverLoadBalancerHost == IF ingress.hostname # NoHost THEN ingress.hostname ELSE ingress.ip

discoverHost(c) ==
  CASE c.externalHost # NoHost -> c.externalHost
    [] c.externalHost = NoHost /\ c.type = "NodePort" -> discoverNodeIP
    [] OTHER -> discoverLoadBalancerHost

endpointPort(c) == IF c.type = "NodePort" THEN nodePort(c) ELSE PostgresPort

-----------------------------------------------------------------------------
(* A pass.                                                                 *)

MayFail == ~settled
At(s) == pass.pc = s
Goto(s) == pass' = [pass EXCEPT !.pc = s]
Return == pass' = Idle

\* The pass goes on to the status patch; r: the phase will be Ready.
ToStatus(r) == pass' = [pass EXCEPT !.pc = "status", !.ready = r]

Read ==
  /\ At("idle")
  /\ pass' = [Idle EXCEPT !.pc = IF role = "switching" THEN "failover" ELSE "apply",
                          !.cfg = cfg, !.role = role, !.endpoint = status.endpoint]
  /\ UNCHANGED <<cfg, role, service, network, status, follower>>

\* Standbys are pointed at the serving cluster when it is the primary of the copy.
AfterEnsure == IF pass.role = "primary" THEN "alias" ELSE "status"

\* Mutant: a failed discovery leaves no endpoint.
Forget == pass' = [pass EXCEPT !.pc = AfterEnsure, !.addr = NoAddress, !.endpoint = <<>>]

\* "Fall back to the last known endpoint".
FallBack ==
  pass' = [pass EXCEPT !.pc = AfterEnsure, !.addr = clusterEndpointFromStatus(pass.endpoint)]

EnsureService ==
  /\ At("apply")
  /\ \/ service' = applyService(service, pass.cfg) /\ Goto("discover")
     \/ MayFail /\ service' \in {service, applyService(service, pass.cfg)} /\ FallBack
  /\ UNCHANGED <<cfg, role, network, status, follower>>

\* No call is made, so none fails, when externalHost is set.
Discover ==
  /\ At("discover")
  /\ LET a == [host |-> discoverHost(pass.cfg), port |-> endpointPort(pass.cfg)] IN
       \/ /\ a.host # NoHost
          /\ pass' = [pass EXCEPT !.pc = AfterEnsure, !.addr = a, !.endpoint = Format(a)]
       \/ /\ a.host = NoHost \/ (MayFail /\ pass.cfg.externalHost = NoHost)
          /\ FallBack
  /\ UNCHANGED <<cfg, role, service, network, status, follower>>

\* reconcileStandby, its first half.  A primary that is not ready ends in the same place.
EnsureAlias ==
  /\ At("alias")
  /\ \/ /\ pass.addr.host # NoHost
        /\ alias' = A!EnsurePrimaryAlias(alias, pass.addr.host)
        /\ Goto("standby")
     \/ /\ pass.addr.host = NoHost
        /\ ToStatus(FALSE)
        /\ UNCHANGED alias
     \/ /\ MayFail /\ pass.addr.host # NoHost
        /\ alias' \in A!InterruptedAlias(alias, pass.addr.host)
        /\ ToStatus(FALSE)
  /\ UNCHANGED <<cfg, role, service, network, status, pg>>

ApplyStandby ==
  /\ At("standby")
  /\ LET new == [via |-> "alias", host |-> NoHost, port |-> pass.addr.port] IN
       \/ pg' = new /\ ToStatus(TRUE)
       \/ MayFail /\ pg' \in {pg, new} /\ ToStatus(FALSE)
  /\ UNCHANGED <<cfg, role, service, network, status, alias>>

UpdateStatus ==
  /\ At("status")
  /\ \/ status' = [endpoint |-> pass.endpoint, ready |-> pass.ready]
     \/ MayFail /\ UNCHANGED status
  /\ Return
  /\ UNCHANGED <<cfg, role, service, network, follower>>

-----------------------------------------------------------------------------
(* A failover to the serving cluster.  It runs no discovery.               *)

PlannedHost ==
  IF pass.cfg.externalHost # NoHost THEN pass.cfg.externalHost
                                    ELSE clusterEndpointFromStatus(pass.endpoint).host

PlannedPort ==
  LET recorded == clusterEndpointFromStatus(pass.endpoint).port IN
  CASE recorded # NoPort -> recorded
    [] recorded = NoPort /\ pass.cfg.externalPort # NoPort -> pass.cfg.externalPort
    [] OTHER -> PostgresPort

FailoverRefused ==
  /\ At("failover")
  /\ PlannedHost = NoHost
  /\ Return
  /\ UNCHANGED <<cfg, role, service, network, status, follower>>

\* The host goes into the manifest of the old primary as it is; an error ends the pass.
demoteCluster ==
  /\ At("failover")
  /\ PlannedHost # NoHost
  /\ LET new == [via |-> "host", host |-> PlannedHost, port |-> PlannedPort] IN
       \/ pg' = new /\ Goto("realias")
       \/ MayFail /\ pg' \in {pg, new} /\ Return
  /\ UNCHANGED <<cfg, role, service, network, status, alias>>

UpdateAlias ==
  /\ At("realias")
  /\ \/ alias' = A!EnsurePrimaryAlias(alias, PlannedHost) /\ Goto("commit")
     \/ MayFail /\ alias' \in A!InterruptedAlias(alias, PlannedHost) /\ Return
  /\ UNCHANGED <<cfg, role, service, network, status, pg>>

FailoverCommit ==
  /\ At("commit")
  /\ \/ role' = "primary" /\ status' = [status EXCEPT !.ready = TRUE]
     \/ MayFail /\ UNCHANGED <<role, status>>
  /\ Return
  /\ UNCHANGED <<cfg, service, network, follower>>

-----------------------------------------------------------------------------
(* Everything else.                                                        *)

Crash ==
  /\ MayFail /\ ~At("idle")
  /\ Return
  /\ UNCHANGED <<cfg, role, service, network, status, follower>>

\* The type is left alone: an existing Service never gets another one.
UserEdit ==
  /\ ~settled /\ cfg.type = "NodePort"
  /\ cfg' \in {[cfg EXCEPT !.nodePort = p] : p \in Port \ {PostgresPort}}
  /\ UNCHANGED <<role, service, network, status, follower, pass>>

UserPromote ==
  /\ ~settled /\ role = "standby"
  /\ role' = "switching"
  /\ UNCHANGED <<cfg, service, network, status, follower, pass>>

NodesChange ==
  /\ ~settled
  /\ ready' \in SUBSET (1..Nodes)
  /\ UNCHANGED <<cfg, role, service, ingress, settled, status, follower, pass>>

Provision ==
  /\ ~settled /\ service.type = "LoadBalancer"
  /\ ingress' \in Ingress
  /\ UNCHANGED <<cfg, role, service, ready, settled, status, follower, pass>>

Settle ==
  /\ ~settled
  /\ settled' = TRUE
  /\ UNCHANGED <<cfg, role, service, ready, ingress, status, follower, pass>>

OperatorStep ==
  \/ Read \/ EnsureService \/ Discover \/ EnsureAlias \/ ApplyStandby \/ UpdateStatus
  \/ FailoverRefused \/ demoteCluster \/ UpdateAlias \/ FailoverCommit

Next ==
  \/ OperatorStep
  \/ Crash \/ UserEdit \/ UserPromote \/ NodesChange \/ Provision \/ Settle

\* Passes follow one another (RequeueAfter) and every call returns.
Spec == Init /\ [][Next]_evars /\ WF_evars(OperatorStep)

-----------------------------------------------------------------------------
AddressType == [host : HostName \cup {NoHost}, port : Port \cup {NoPort}]
Text == {<<>>} \cup {Format(a) : a \in [host : HostName, port : Port]}

\* The type invariant.  Every text in the status is an endpoint that can be read back.
TypeOK ==
  /\ cfg \in CfgType
  /\ role \in {"standby", "switching", "primary"}
  /\ service \in [type : {"absent", "NodePort", "LoadBalancer"}, port : Port \cup {NoPort}]
  /\ ready \subseteq 1..Nodes
  /\ ingress \in Ingress \cup {NoIngress}
  /\ status.endpoint \in Text
  /\ status.ready \in BOOLEAN
  /\ alias \in A!Alias
  /\ pg \in [via : {"none", "host", "alias"}, host : HostName \cup {NoHost},
             port : Port \cup {NoPort}]
  /\ settled \in BOOLEAN
  /\ pass.addr \in AddressType

\* The address the following cluster replicates from.
Follower ==
  CASE pg.via = "host"  -> [host |-> pg.host, port |-> pg.port]
    [] pg.via = "alias" -> [host |-> A!Resolve(alias), port |-> pg.port]
    [] OTHER            -> NoAddress

\* The addresses at which the serving cluster answers (Kubernetes, external): its nodes or its
\* load balancer at the port of the Service, and externalHost at externalPort, "the port
\* standbys use to reach this cluster", or at the port of the Service if there is none.
Served ==
  LET port == IF service.type = "NodePort" THEN service.port ELSE PostgresPort
      hosts == IF service.type = "NodePort" THEN {NodeIP[n] : n \in ready}
                                            ELSE {discoverLoadBalancerHost}
      outside == IF cfg.externalPort # NoPort THEN cfg.externalPort ELSE port
  IN {[host |-> h, port |-> port] : h \in hosts \ {NoHost}}
       \cup {[host |-> h, port |-> outside] : h \in {cfg.externalHost} \ {NoHost}}

\* A status patch that says Ready, of a pass or of a failover, tells the truth: the standby
\* replicates from the endpoint on record, if any, whether it was discovered in this pass or
\* read back from the text of an earlier one.
ReadyTellsAddress ==
  [][status'.ready /\ status' # status
       => \/ status'.endpoint = <<>>
          \/ clusterEndpointFromStatus(status'.endpoint) = Follower']_evars

Discoverable == discoverHost(cfg) # NoHost

\* The manager hands out the port of the Service whatever externalPort says, so that an
\* externalHost is of use only where the two agree.
PortsAgree ==
  cfg.externalHost # NoHost => cfg.externalPort \in {NoPort, endpointPort(cfg)}

\* Nodes, load balancers, ports and failures may come and go: once they stop, the serving
\* cluster has an address and an externalHost is served at the port of the Service, the
\* standby comes to replicate from an address that is served.
StandbyReachesPrimary ==
  <>[](settled /\ Discoverable /\ PortsAgree /\ role = "primary") => <>[](Follower \in Served)

HostKnown == cfg.externalHost # NoHost \/ status.endpoint # <<>>

\* "any cluster can act as primary after a failover without manual intervention": a failover
\* to a cluster whose endpoint was recorded once completes, whatever passes were in flight
\* when it was asked for.
PromotionCompletes ==
  <>[]settled => (role = "switching" /\ HostKnown ~> role = "primary")
=============================================================================
