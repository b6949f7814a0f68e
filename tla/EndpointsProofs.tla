-------------------------- MODULE EndpointsProofs --------------------------
(***************************************************************************)
(* The text of an endpoint can be read back, and a status that says Ready  *)
(* tells the address the standby uses, for any hosts, ports and nodes.     *)
(***************************************************************************)
EXTENDS Endpoints, SequenceTheorems, WellFoundedInduction, TLAPS

\* A set of naturals has a least element.
LEMMA LeastExists ==
  ASSUME NEW S, S \subseteq Nat, S # {}
  PROVE  \E n \in S : \A m \in S : n <= m
<1> DEFINE R == {ss \in Nat \X Nat : ss[1] < ss[2]}
<1>1. IsWellFoundedOn(R, Nat)
  BY NatLessThanWellFounded DEF OpToRel
<1>2. PICK n \in S : \A m \in S : ~(<<m, n>> \in R)
  <2> HIDE DEF R
  <2> QED
    BY <1>1, WFMin
<1>3. \A m \in S : ~(m < n)
  BY <1>2
<1> QED
  BY <1>3

-----------------------------------------------------------------------------
(* The text of an endpoint.                                                *)

\* clusterEndpointFromStatus undoes the formatting, whatever colons the host has.
THEOREM EndpointRoundTrip ==
  ASSUME NEW a \in [host : HostName, port : Port]
  PROVE  clusterEndpointFromStatus(Format(a)) = a
<1> DEFINE h == a.host
           p == a.port
           T == Label \cup {Colon} \cup Port
           e == h \o <<Colon, p>>
           n == Len(h)
<1>1. h \in Seq(T) /\ h # <<>> /\ n \in Nat /\ n > 0
  <2>1. h \in Seq(Label \cup {Colon}) /\ h # <<>>
    BY HostAssumption DEF NoHost
  <2>2. n \in Nat /\ n > 0 /\ \A i \in 1..n : h[i] \in T
    BY <2>1
  <2> QED
    BY <2>1, <2>2
<1>2. <<Colon, p>> \in Seq(T) /\ Len(<<Colon, p>>) = 2
  OBVIOUS
<1>3. /\ e \in Seq(T) /\ Len(e) = n + 2
      /\ \A i \in 1..n : e[i] = h[i]
      /\ e[n + 1] = Colon /\ e[n + 2] = p
  BY <1>1, <1>2, ConcatProperties
<1>4. p # Colon
  BY PortAssumption
<1>5. DOMAIN e = 1..(n + 2)
  BY <1>3
<1> HIDE DEF e, n, T
<1>6. LastIndex(e) = n + 1
  <2>1. /\ n + 1 \in DOMAIN e /\ e[n + 1] = Colon
        /\ \A j \in DOMAIN e : e[j] = Colon => j <= n + 1
    BY <1>1, <1>3, <1>4, <1>5
  <2>2. \A i \in DOMAIN e : e[i] = Colon /\ (\A j \in DOMAIN e : e[j] = Colon => j <= i) => i = n + 1
    BY <1>1, <1>5, <2>1
  <2> QED
    BY <2>1, <2>2 DEF LastIndex
<1>7. SubSeq(e, 1, n) = h
  <2>1. \A i \in 1..n : e[i] \in T
    BY <1>1, <1>3
  <2>2. /\ SubSeq(e, 1, n) \in Seq(T) /\ Len(SubSeq(e, 1, n)) = n
        /\ \A i \in 1..n : SubSeq(e, 1, n)[i] = e[i]
    BY <1>1, <2>1, SubSeqProperties
  <2> QED
    BY <1>1, <1>3, <2>2, SeqEqual DEF n
<1>8. LastIndex(e) - 1 = n /\ LastIndex(e) > 1 /\ Len(e) = LastIndex(e) + 1
  BY <1>1, <1>3, <1>6
<1>9. clusterEndpointFromStatus(e) = [host |-> h, port |-> p]
  BY <1>3, <1>7, <1>8 DEF clusterEndpointFromStatus
<1> QED
  BY <1>9 DEF Format, e

LEMMA NothingRecorded == clusterEndpointFromStatus(<<>>) = NoAddress
<1>1. LastIndex(<<>>) = 0
  BY DEF LastIndex
<1> QED
  BY <1>1 DEF clusterEndpointFromStatus

\* What a recorded text is read as.
LEMMA ReadBack ==
  ASSUME NEW e \in Text
  PROVE  /\ clusterEndpointFromStatus(e) \in AddressType
         /\ e = <<>> => clusterEndpointFromStatus(e) = NoAddress
         /\ e # <<>> => clusterEndpointFromStatus(e) \in [host : HostName, port : Port]
<1>1. CASE e = <<>>
  BY <1>1, NothingRecorded DEF NoAddress, AddressType
<1>2. CASE e # <<>>
  <2>1. PICK a \in [host : HostName, port : Port] : e = Format(a)
    BY <1>2 DEF Text
  <2>2. clusterEndpointFromStatus(e) = a
    BY <2>1, EndpointRoundTrip
  <2> QED
    BY <1>2, <2>2 DEF AddressType
<1> QED
  BY <1>1, <1>2

-----------------------------------------------------------------------------
(* Types.                                                                  *)

Stage == {"idle", "apply", "discover", "alias", "standby", "status", "failover", "realias", "commit"}

PassType == [pc : Stage, cfg : CfgType, role : {"standby", "switching", "primary"},
             endpoint : Text, addr : AddressType, ready : BOOLEAN]
PgType == [via : {"none", "host", "alias"}, host : HostName \cup {NoHost}, port : Port \cup {NoPort}]
StatusType == [endpoint : Text, ready : BOOLEAN]
ServiceType == [type : {"absent", "NodePort", "LoadBalancer"}, port : Port \cup {NoPort}]

\* The type of the state, the pass included.
Shape ==
  /\ cfg \in CfgType
  /\ role \in {"standby", "switching", "primary"}
  /\ service \in ServiceType
  /\ ready \subseteq 1..Nodes
  /\ ingress \in Ingress \cup {NoIngress}
  /\ status \in StatusType
  /\ alias \in A!Alias
  /\ pg \in PgType
  /\ settled \in BOOLEAN
  /\ pass \in PassType

LEMMA IdleShape ==
  Idle \in [pc : {"idle"}, cfg : CfgType, role : {"standby"},
            endpoint : {<<>>}, addr : {NoAddress}, ready : {FALSE}]
<1>1. (CHOOSE c \in InitCfg : TRUE) \in InitCfg
  BY CfgAssumption
<1> QED
  BY <1>1, CfgAssumption DEF Idle

LEMMA NoAddressTyped == NoAddress \in AddressType /\ <<>> \in Text
BY DEF NoAddress, AddressType, Text

\* The hosts that a target configured as c may be discovered at.
HostsOf(c) ==
  IF c.externalHost # NoHost THEN {c.externalHost}
  ELSE IF c.type = "NodePort" THEN {NodeIP[n] : n \in 1..Nodes} \ {NoHost}
  ELSE {IF i.hostname # NoHost THEN i.hostname ELSE i.ip : i \in Ingress} \ {NoHost}

LEMMA HostsTyped ==
  ASSUME NEW c \in CfgType
  PROVE  HostsOf(c) \subseteq HostName
BY NodeAssumption DEF HostsOf, CfgType

LEMMA DiscoveredTyped ==
  ASSUME Shape, NEW c \in CfgType
  PROVE  /\ discoverHost(c) \in HostsOf(c) \cup {NoHost}
         /\ discoverHost(c) \in HostName \cup {NoHost}
         /\ endpointPort(c) \in Port /\ nodePort(c) \in Port
<1>1. nodePort(c) \in Port
  BY PortAssumption DEF nodePort, CfgType
<1>2. endpointPort(c) \in Port
  BY <1>1, PortAssumption DEF endpointPort
<1>3. ASSUME c.externalHost = NoHost, c.type = "NodePort"
      PROVE  discoverHost(c) \in HostsOf(c) \cup {NoHost}
  <2> DEFINE usable == {n \in ready : NodeIP[n] # NoHost}
             first == CHOOSE n \in usable : \A m \in usable : n <= m
  <2>1. discoverHost(c) = discoverNodeIP
    BY <1>3 DEF discoverHost
  <2>2. HostsOf(c) = {NodeIP[n] : n \in 1..Nodes} \ {NoHost}
    BY <1>3 DEF HostsOf
  <2>3. CASE usable = {}
    BY <2>1, <2>3 DEF discoverNodeIP
  <2>4. CASE usable # {}
    <3>1. \E n \in usable : \A m \in usable : n <= m
      <4>1. ready \subseteq 1..Nodes
        BY DEF Shape
      <4>2. usable \subseteq ready
        OBVIOUS
      <4> HIDE DEF usable
      <4>3. usable \subseteq Nat
        BY <4>1, <4>2, NodeAssumption
      <4> QED
        BY <2>4, <4>3, LeastExists
    <3>2. first \in usable
      BY <3>1
    <3>3. NodeIP[first] \in HostsOf(c)
      BY <2>2, <3>2 DEF Shape
    <3> QED
      BY <2>1, <2>4, <3>3 DEF discoverNodeIP
  <2> QED
    BY <2>3, <2>4
<1>4. ASSUME c.externalHost = NoHost, c.type = "LoadBalancer"
      PROVE  discoverHost(c) \in HostsOf(c) \cup {NoHost}
  BY <1>4 DEF discoverHost, discoverLoadBalancerHost, HostsOf, Shape, NoIngress
<1>5. CASE c.externalHost # NoHost
  BY <1>5, <1>1, <1>2, HostsTyped DEF discoverHost, HostsOf
<1> QED
  BY <1>1, <1>2, <1>3, <1>4, <1>5, HostsTyped DEF CfgType

-----------------------------------------------------------------------------
(* The invariant.                                                          *)

\* The hosts of one configuration are all IP addresses or all DNS names.
OneKind == \A c \in InitCfg : \A g, h \in HostsOf(c) : HostKind[g] = HostKind[h]

\* An edit moves the port only, so a pass and the object agree on where hosts come from.
TargetInv ==
  /\ OneKind => \A g, h \in HostsOf(cfg) : HostKind[g] = HostKind[h]
  /\ pass.pc # "idle" => /\ pass.cfg.type = cfg.type
                         /\ pass.cfg.externalHost = cfg.externalHost

Recorded(e) == e = <<>> \/ clusterEndpointFromStatus(e).host \in HostsOf(cfg)

\* Whatever was discovered, now or in an earlier pass, is one of these hosts.
RecordInv ==
  /\ Recorded(status.endpoint) /\ Recorded(pass.endpoint)
  /\ pass.addr.host \in HostsOf(cfg) \cup {NoHost}

\* With hosts of one kind the type of the alias suits every host it is to lead to.
Suits(a) ==
  OneKind => \A h \in HostsOf(cfg) : /\ a.type = "Headless" => HostKind[h] = "ip"
                                     /\ a.type = "ExternalName" => HostKind[h] = "dns"

\* The address a pass uses is the one it will record, and with hosts of one kind the standby
\* follows it already when the pass is to say Ready.
AddressInv ==
  /\ pass.ready => pass.pc = "status"
  /\ pass.pc \in {"alias", "standby"} => pass.addr = clusterEndpointFromStatus(pass.endpoint)
  /\ pass.pc = "standby" => pass.addr.host # NoHost /\ (OneKind => A!Resolve(alias) = pass.addr.host)
  /\ pass.ready /\ OneKind => Follower = clusterEndpointFromStatus(pass.endpoint)

Planned == [via |-> "host", host |-> PlannedHost, port |-> PlannedPort]

\* A failover works with the endpoint on record.
FailoverInv ==
  /\ pass.pc \in {"failover", "realias", "commit"} => pass.endpoint = status.endpoint
  /\ pass.pc \in {"realias", "commit"} => pg = Planned /\ PlannedHost # NoHost

EndpointInv == Shape /\ TargetInv /\ RecordInv /\ Suits(alias) /\ AddressInv /\ FailoverInv

LEMMA EndpointInit == Init => EndpointInv
<1> SUFFICES ASSUME Init PROVE EndpointInv
  OBVIOUS
<1>1. pass = Idle /\ status = Created /\ alias = A!NoAlias /\ pg = NoStandby /\ cfg \in InitCfg
  BY DEF Init
<1>2. Shape
  <2>1. alias \in A!Alias
    BY <1>1 DEF A!Alias, A!NoAlias, A!Host
  <2>2. pg \in PgType
    BY <1>1 DEF NoStandby, PgType
  <2>3. status \in StatusType
    BY <1>1, NoAddressTyped DEF Created, StatusType
  <2>4. pass \in PassType
    BY <1>1, IdleShape, NoAddressTyped DEF Stage, PassType
  <2>5. service \in ServiceType
    BY DEF Init, NoService, ServiceType
  <2> QED
    BY <2>1, <2>2, <2>3, <2>4, <2>5, CfgAssumption DEF Init, Shape
<1>3. /\ pass.pc = "idle" /\ pass.endpoint = <<>> /\ pass.addr = NoAddress /\ pass.ready = FALSE
      /\ status.endpoint = <<>> /\ alias.type = "absent"
  BY <1>1, IdleShape DEF Created, A!NoAlias
<1> QED
  BY <1>1, <1>2, <1>3
     DEF EndpointInv, TargetInv, RecordInv, Recorded, Suits, AddressInv, FailoverInv, OneKind, NoAddress

\* A written alias is an alias, and with hosts of one kind it resolves to what was written.
LEMMA AliasWritten ==
  ASSUME TargetInv, cfg \in CfgType, alias \in A!Alias, Suits(alias), NEW h \in HostsOf(cfg)
  PROVE  /\ A!EnsurePrimaryAlias(alias, h) \in A!Alias
         /\ Suits(A!EnsurePrimaryAlias(alias, h))
         /\ OneKind => A!Resolve(A!EnsurePrimaryAlias(alias, h)) = h
         /\ \A b \in A!InterruptedAlias(alias, h) : b \in A!Alias /\ Suits(b)
<1> DEFINE a == alias
<1>1. h \in HostName
  BY HostsTyped
<1>2. A!HeadlessServiceOnly(a) \in A!Alias
  BY DEF A!HeadlessServiceOnly, A!Alias
<1>3. A!EnsurePrimaryAlias(a, h) \in A!Alias
  BY <1>1, <1>2 DEF A!EnsurePrimaryAlias, A!ensureHeadlessWithEndpoints, A!ensureExternalName, A!Alias, A!Host
<1>4. CASE OneKind /\ HostKind[h] = "ip"
  <2>1. \A g \in HostsOf(cfg) : HostKind[g] = "ip"
    BY <1>4 DEF TargetInv
  <2>2. a.type \in {"absent", "Headless"}
    BY <1>4 DEF Suits, A!Alias
  <2>3. A!HeadlessServiceOnly(a).type = "Headless"
    BY <2>2 DEF A!HeadlessServiceOnly, A!Alias
  <2>4. /\ A!EnsurePrimaryAlias(a, h).type = "Headless"
        /\ A!EnsurePrimaryAlias(a, h).endpoints = h
    BY <1>1, <1>2, <1>4, <2>3 DEF A!EnsurePrimaryAlias, A!ensureHeadlessWithEndpoints, A!Alias, A!Host
  <2>5. A!Resolve(A!EnsurePrimaryAlias(a, h)) = h
    BY <2>4 DEF A!Resolve
  <2> QED
    BY <1>2, <1>3, <1>4, <2>1, <2>3, <2>4, <2>5 DEF Suits, A!InterruptedAlias
<1>5. CASE OneKind /\ HostKind[h] = "dns"
  <2>1. \A g \in HostsOf(cfg) : HostKind[g] = "dns"
    BY <1>5 DEF TargetInv
  <2>2. a.type \in {"absent", "ExternalName"}
    BY <1>5 DEF Suits, A!Alias
  <2>3. /\ A!EnsurePrimaryAlias(a, h).type = "ExternalName"
        /\ A!EnsurePrimaryAlias(a, h).externalName = h
    BY <1>1, <1>5, <2>2 DEF A!EnsurePrimaryAlias, A!ensureExternalName, A!Alias, A!Host
  <2>4. A!Resolve(A!EnsurePrimaryAlias(a, h)) = h
    BY <2>3 DEF A!Resolve
  <2> QED
    BY <1>3, <1>5, <2>1, <2>3, <2>4 DEF Suits, A!InterruptedAlias
<1>6. CASE ~OneKind
  BY <1>2, <1>3, <1>6 DEF Suits, A!InterruptedAlias
<1> QED
  BY <1>1, <1>4, <1>5, <1>6, HostAssumption

-----------------------------------------------------------------------------
(* The steps.                                                              *)

Fixed == UNCHANGED <<cfg, network>>

\* A pass that ends leaves only what outlives it to show.
LEMMA EndpointReturn ==
  ASSUME EndpointInv, Fixed, pass' = Idle, service' \in ServiceType,
         role' \in {"standby", "switching", "primary"},
         status' \in StatusType, Recorded(status'.endpoint),
         alias' \in A!Alias, Suits(alias'), pg' \in PgType
  PROVE  EndpointInv'
<1>1. /\ pass' \in PassType
      /\ pass'.pc = "idle" /\ pass'.endpoint = <<>> /\ pass'.addr = NoAddress /\ pass'.ready = FALSE
  BY IdleShape, NoAddressTyped DEF PassType, Stage
<1>2. Shape'
  BY <1>1 DEF EndpointInv, Shape, Fixed, network
<1>3. TargetInv'
  BY <1>1 DEF EndpointInv, TargetInv, Fixed, HostsOf
<1>4. RecordInv' /\ Suits(alias)'
  BY <1>1 DEF RecordInv, Recorded, Suits, Fixed, HostsOf, NoAddress
<1> QED
  BY <1>1, <1>2, <1>3, <1>4 DEF EndpointInv, AddressInv, FailoverInv

LEMMA EndpointRead == EndpointInv /\ Read => EndpointInv'
<1> SUFFICES ASSUME EndpointInv, Read PROVE EndpointInv'
  OBVIOUS
<1>1. /\ pass' \in PassType
      /\ pass'.pc \in {"failover", "apply"} /\ pass'.cfg = cfg /\ pass'.endpoint = status.endpoint
      /\ pass'.addr = NoAddress /\ pass'.ready = FALSE
  BY IdleShape, NoAddressTyped DEF Read, EndpointInv, Shape, StatusType, PassType, Stage
<1>2. UNCHANGED <<cfg, role, service, ready, ingress, settled, status, alias, pg>>
  BY DEF Read, network, follower
<1> HIDE DEF Read
<1>3. Shape'
  BY <1>1, <1>2 DEF EndpointInv, Shape
<1>4. TargetInv'
  BY <1>1, <1>2 DEF EndpointInv, TargetInv, HostsOf
<1>5. RecordInv' /\ Suits(alias)'
  BY <1>1, <1>2 DEF EndpointInv, RecordInv, Recorded, Suits, HostsOf, NoAddress
<1>6. AddressInv' /\ FailoverInv'
  BY <1>1, <1>2 DEF AddressInv, FailoverInv
<1> QED
  BY <1>3, <1>4, <1>5, <1>6 DEF EndpointInv

\* The end of Ensure: the address is the one that the text of the pass tells.
LEMMA EndpointEnsured ==
  ASSUME EndpointInv, Fixed, UNCHANGED <<role, status, alias, pg>>, service' \in ServiceType,
         pass.pc \in {"apply", "discover"},
         NEW e \in Text, NEW a \in AddressType, Recorded(e), a = clusterEndpointFromStatus(e),
         pass' = [pass EXCEPT !.pc = AfterEnsure, !.addr = a, !.endpoint = e]
  PROVE  EndpointInv'
<1> USE DEF EndpointInv
<1>1. /\ pass' \in PassType
      /\ pass'.pc \in {"alias", "status"} /\ pass'.cfg = pass.cfg /\ pass'.endpoint = e
      /\ pass'.addr = a /\ pass'.ready = pass.ready
  BY DEF AfterEnsure, Shape, PassType, Stage
<1>2. pass.ready = FALSE
  BY DEF AddressInv, Shape, PassType
<1>3. Shape'
  BY <1>1 DEF Shape, Fixed, network
<1>4. TargetInv'
  BY <1>1 DEF TargetInv, HostsOf, Fixed
<1>5. RecordInv' /\ Suits(alias)'
  <2>1. a.host \in HostsOf(cfg) \cup {NoHost}
    BY ReadBack DEF Recorded, NoAddress
  <2> QED
    BY <1>1, <2>1 DEF RecordInv, Recorded, Suits, HostsOf, Fixed
<1>6. AddressInv' /\ FailoverInv'
  BY <1>1, <1>2 DEF AddressInv, FailoverInv
<1> QED
  BY <1>3, <1>4, <1>5, <1>6

LEMMA EndpointFallBack ==
  ASSUME EndpointInv, Fixed, UNCHANGED <<role, status, alias, pg>>, service' \in ServiceType,
         pass.pc \in {"apply", "discover"}, FallBack
  PROVE  EndpointInv'
<1>1. pass.endpoint \in Text /\ Recorded(pass.endpoint)
  BY DEF EndpointInv, Shape, PassType, RecordInv
<1>2. clusterEndpointFromStatus(pass.endpoint) \in AddressType
  BY <1>1, ReadBack
<1>3. pass' = [pass EXCEPT !.pc = AfterEnsure, !.addr = clusterEndpointFromStatus(pass.endpoint),
                           !.endpoint = pass.endpoint]
  BY DEF FallBack, EndpointInv, Shape, PassType
<1> QED
  BY <1>1, <1>2, <1>3, EndpointEnsured

LEMMA EndpointService == EndpointInv /\ EnsureService => EndpointInv'
<1> SUFFICES ASSUME EndpointInv, EnsureService PROVE EndpointInv'
  OBVIOUS
<1>1. Fixed /\ UNCHANGED <<role, status, alias, pg>> /\ pass.pc = "apply"
  BY DEF EnsureService, At, Fixed, network, follower
<1>2. applyService(service, pass.cfg) \in ServiceType
  <2>1. nodePort(pass.cfg) \in Port /\ service \in ServiceType /\ pass.cfg \in CfgType
    BY DiscoveredTyped DEF EndpointInv, Shape, PassType
  <2> QED
    BY <2>1 DEF applyService, ServiceType, CfgType
<1>3. service' \in ServiceType
  BY <1>2 DEF EnsureService, EndpointInv, Shape
<1>4. CASE Goto("discover")
  <2>1. /\ pass' \in PassType
        /\ pass'.pc = "discover" /\ pass'.cfg = pass.cfg /\ pass'.endpoint = pass.endpoint
        /\ pass'.addr = pass.addr /\ pass'.ready = pass.ready
    BY <1>4 DEF Goto, EndpointInv, Shape, PassType, Stage
  <2>2. pass.ready = FALSE
    BY <1>1 DEF EndpointInv, AddressInv, Shape, PassType
  <2>3. Shape'
    BY <1>1, <1>3, <2>1 DEF EndpointInv, Shape, Fixed, network
  <2>4. TargetInv'
    BY <1>1, <2>1 DEF EndpointInv, TargetInv, HostsOf, Fixed
  <2>5. RecordInv' /\ Suits(alias)'
    BY <1>1, <2>1 DEF EndpointInv, RecordInv, Recorded, Suits, HostsOf, Fixed
  <2> QED
    BY <2>1, <2>2, <2>3, <2>4, <2>5 DEF EndpointInv, AddressInv, FailoverInv
<1>5. CASE FallBack
  BY <1>1, <1>3, <1>5, EndpointFallBack
<1> QED
  BY <1>4, <1>5 DEF EnsureService

LEMMA EndpointDiscover == EndpointInv /\ Discover => EndpointInv'
<1> SUFFICES ASSUME EndpointInv, Discover PROVE EndpointInv'
  OBVIOUS
<1>1. Fixed /\ UNCHANGED <<role, service, status, alias, pg>> /\ pass.pc = "discover"
  BY DEF Discover, At, Fixed, network, follower
<1>2. service' \in ServiceType
  BY <1>1 DEF EndpointInv, Shape
<1>3. CASE FallBack
  BY <1>1, <1>2, <1>3, EndpointFallBack
<1>4. CASE ~FallBack
  <2> DEFINE a == [host |-> discoverHost(pass.cfg), port |-> endpointPort(pass.cfg)]
  <2>1. /\ discoverHost(pass.cfg) # NoHost
        /\ pass' = [pass EXCEPT !.pc = AfterEnsure, !.addr = a, !.endpoint = Format(a)]
    BY <1>4 DEF Discover
  <2>2. pass.cfg \in CfgType
    BY DEF EndpointInv, Shape, PassType
  <2>3. /\ discoverHost(pass.cfg) \in HostsOf(pass.cfg) /\ discoverHost(pass.cfg) \in HostName
        /\ endpointPort(pass.cfg) \in Port
    BY <2>1, <2>2, DiscoveredTyped DEF EndpointInv
  <2>4. HostsOf(pass.cfg) = HostsOf(cfg)
    BY <1>1 DEF EndpointInv, TargetInv, HostsOf
  <2>5. a \in [host : HostName, port : Port] /\ a \in AddressType /\ a.host \in HostsOf(cfg)
    BY <2>3, <2>4 DEF AddressType
  <2> HIDE DEF a
  <2>6. Format(a) \in Text /\ clusterEndpointFromStatus(Format(a)) = a
    BY <2>5, EndpointRoundTrip DEF Text
  <2>7. Recorded(Format(a))
    BY <2>5, <2>6 DEF Recorded
  <2> QED
    BY <1>1, <1>2, <2>1, <2>5, <2>6, <2>7, EndpointEnsured
<1> QED
  BY <1>3, <1>4

\* A pass that goes on to its status patch without success.
LEMMA EndpointNotReady ==
  ASSUME EndpointInv, Fixed, UNCHANGED <<role, service, status>>, ToStatus(FALSE),
         alias' \in A!Alias, Suits(alias'), pg' \in PgType,
         pass.pc \in {"alias", "standby"}
  PROVE  EndpointInv'
<1>1. /\ pass' \in PassType
      /\ pass'.pc = "status" /\ pass'.cfg = pass.cfg /\ pass'.endpoint = pass.endpoint
      /\ pass'.addr = pass.addr /\ pass'.ready = FALSE
  BY DEF ToStatus, EndpointInv, Shape, PassType, Stage
<1>2. Shape'
  BY <1>1 DEF EndpointInv, Shape, Fixed, network
<1>3. TargetInv'
  BY <1>1 DEF EndpointInv, TargetInv, HostsOf, Fixed
<1>4. RecordInv' /\ Suits(alias)'
  BY <1>1 DEF EndpointInv, RecordInv, Recorded, Suits, HostsOf, Fixed
<1> QED
  BY <1>1, <1>2, <1>3, <1>4 DEF EndpointInv, AddressInv, FailoverInv

LEMMA EndpointAlias == EndpointInv /\ EnsureAlias => EndpointInv'
<1> SUFFICES ASSUME EndpointInv, EnsureAlias PROVE EndpointInv'
  OBVIOUS
<1>1. Fixed /\ UNCHANGED <<role, service, status, pg>> /\ pass.pc = "alias" /\ pg' \in PgType
  BY DEF EnsureAlias, At, Fixed, network, EndpointInv, Shape
<1>2. pass.addr.host # NoHost => pass.addr.host \in HostsOf(cfg)
  BY DEF EndpointInv, RecordInv
<1>3. cfg \in CfgType /\ alias \in A!Alias
  BY DEF EndpointInv, Shape
<1>4. CASE pass.addr.host = NoHost
  BY <1>1, <1>3, <1>4, EndpointNotReady DEF EnsureAlias, EndpointInv
<1>5. CASE /\ pass.addr.host # NoHost
           /\ alias' \in A!InterruptedAlias(alias, pass.addr.host)
           /\ ToStatus(FALSE)
  <2>1. alias' \in A!Alias /\ Suits(alias')
    BY <1>2, <1>3, <1>5, AliasWritten DEF EndpointInv
  <2> QED
    BY <1>1, <1>5, <2>1, EndpointNotReady
<1>6. CASE /\ pass.addr.host # NoHost
           /\ alias' = A!EnsurePrimaryAlias(alias, pass.addr.host)
           /\ Goto("standby")
  <2>1. alias' \in A!Alias /\ Suits(alias') /\ (OneKind => A!Resolve(alias') = pass.addr.host)
    BY <1>2, <1>3, <1>6, AliasWritten DEF EndpointInv
  <2>2. /\ pass' \in PassType
        /\ pass'.pc = "standby" /\ pass'.cfg = pass.cfg /\ pass'.endpoint = pass.endpoint
        /\ pass'.addr = pass.addr /\ pass'.ready = pass.ready
    BY <1>6 DEF Goto, EndpointInv, Shape, PassType, Stage
  <2>3. pass.ready = FALSE /\ pass.addr = clusterEndpointFromStatus(pass.endpoint)
    BY <1>1 DEF EndpointInv, AddressInv, Shape, PassType
  <2>4. Shape'
    BY <1>1, <2>1, <2>2 DEF EndpointInv, Shape, Fixed, network
  <2>5. TargetInv'
    BY <1>1, <2>2 DEF EndpointInv, TargetInv, HostsOf, Fixed
  <2>6. RecordInv' /\ Suits(alias)'
    BY <1>1, <2>1, <2>2 DEF EndpointInv, RecordInv, Recorded, Suits, HostsOf, Fixed
  <2>7. OneKind => A!Resolve(alias)' = pass'.addr.host
    BY <2>1, <2>2 DEF A!Resolve
  <2>8. AddressInv'
    BY <1>6, <2>2, <2>3, <2>7 DEF AddressInv
  <2> QED
    BY <2>2, <2>4, <2>5, <2>6, <2>8 DEF EndpointInv, FailoverInv
<1> QED
  BY <1>4, <1>5, <1>6 DEF EnsureAlias

LEMMA EndpointStandby == EndpointInv /\ ApplyStandby => EndpointInv'
<1> SUFFICES ASSUME EndpointInv, ApplyStandby PROVE EndpointInv'
  OBVIOUS
<1> DEFINE new == [via |-> "alias", host |-> NoHost, port |-> pass.addr.port]
<1>1. Fixed /\ UNCHANGED <<role, service, status, alias>> /\ pass.pc = "standby"
  BY DEF ApplyStandby, At, Fixed, network
<1>2. new \in PgType /\ pg \in PgType /\ alias \in A!Alias
  BY DEF EndpointInv, Shape, PassType, AddressType, PgType
<1>3. CASE ToStatus(FALSE) /\ pg' \in {pg, new}
  BY <1>1, <1>2, <1>3, EndpointNotReady DEF EndpointInv
<1>4. CASE ToStatus(TRUE) /\ pg' = new
  <2>1. /\ pass' \in PassType
        /\ pass'.pc = "status" /\ pass'.cfg = pass.cfg /\ pass'.endpoint = pass.endpoint
        /\ pass'.addr = pass.addr /\ pass'.ready = TRUE
    BY <1>4 DEF ToStatus, EndpointInv, Shape, PassType, Stage
  <2>2. Shape'
    BY <1>1, <1>2, <1>4, <2>1 DEF EndpointInv, Shape, Fixed, network
  <2>3. TargetInv'
    BY <1>1, <2>1 DEF EndpointInv, TargetInv, HostsOf, Fixed
  <2>4. RecordInv' /\ Suits(alias)'
    BY <1>1, <2>1 DEF EndpointInv, RecordInv, Recorded, Suits, HostsOf, Fixed
  <2>5. /\ pass.addr = clusterEndpointFromStatus(pass.endpoint)
        /\ (OneKind => A!Resolve(alias) = pass.addr.host) /\ pass.addr \in AddressType
    BY <1>1 DEF EndpointInv, AddressInv, Shape, PassType
  <2>6. Follower' = [host |-> A!Resolve(alias)', port |-> pg'.port]
    BY <1>4 DEF Follower
  <2>7. OneKind => A!Resolve(alias)' = pass.addr.host
    BY <1>1, <2>5 DEF A!Resolve
  <2>8. OneKind => Follower' = pass.addr
    BY <1>4, <2>5, <2>6, <2>7 DEF AddressType
  <2> QED
    BY <2>1, <2>2, <2>3, <2>4, <2>5, <2>8 DEF EndpointInv, AddressInv, FailoverInv
<1> QED
  BY <1>3, <1>4 DEF ApplyStandby

LEMMA EndpointStatus == EndpointInv /\ UpdateStatus => EndpointInv'
<1> SUFFICES ASSUME EndpointInv, UpdateStatus PROVE EndpointInv'
  OBVIOUS
<1>1. Fixed /\ UNCHANGED <<role, service, alias, pg>> /\ pass' = Idle
  BY DEF UpdateStatus, Fixed, network, follower, Return
<1>2. status' \in StatusType /\ Recorded(status'.endpoint)
  BY DEF UpdateStatus, EndpointInv, Shape, PassType, StatusType, RecordInv
<1> QED
  BY <1>1, <1>2, EndpointReturn DEF EndpointInv, Shape

\* What a failover hands out is an address of the new primary, the one on record if there is one.
LEMMA PlannedAddress ==
  ASSUME EndpointInv, pass.pc # "idle", PlannedHost # NoHost
  PROVE  /\ Planned \in PgType /\ PlannedHost \in HostsOf(cfg)
         /\ pass.endpoint # <<>> => clusterEndpointFromStatus(pass.endpoint)
                                     = [host |-> PlannedHost, port |-> PlannedPort]
<1> DEFINE r == clusterEndpointFromStatus(pass.endpoint)
<1>1. /\ pass.cfg \in CfgType /\ pass.endpoint \in Text /\ Recorded(pass.endpoint)
      /\ pass.cfg.externalHost = cfg.externalHost /\ cfg \in CfgType
  BY DEF EndpointInv, Shape, PassType, RecordInv, TargetInv
<1>2. /\ r \in AddressType
      /\ pass.endpoint = <<>> => r = NoAddress
      /\ pass.endpoint # <<>> => r \in [host : HostName, port : Port]
  BY <1>1, ReadBack
<1>3. pass.endpoint # <<>> => r.host \in HostsOf(cfg)
  BY <1>1 DEF Recorded
<1> HIDE DEF r
<1>4. PlannedHost = IF pass.cfg.externalHost # NoHost THEN pass.cfg.externalHost ELSE r.host
  BY DEF PlannedHost, r
<1>5. cfg.externalHost # NoHost => HostsOf(cfg) = {cfg.externalHost}
  BY DEF HostsOf
<1>6. PlannedHost \in HostsOf(cfg)
  BY <1>1, <1>2, <1>3, <1>4, <1>5 DEF NoAddress
<1>7. pass.endpoint # <<>> => PlannedHost = r.host
  BY <1>1, <1>3, <1>4, <1>5
<1>8. r.port # NoPort => PlannedPort = r.port
  BY DEF PlannedPort, r
<1>9. r.port = NoPort => PlannedPort \in {pass.cfg.externalPort, PostgresPort}
  BY DEF PlannedPort, r
<1>10. PlannedPort \in Port \cup {NoPort}
  BY <1>1, <1>2, <1>8, <1>9, PortAssumption DEF AddressType, CfgType
<1>11. PlannedHost \in HostName
  BY <1>1, <1>6, HostsTyped
<1>12. Planned \in PgType
  BY <1>10, <1>11 DEF Planned, PgType
<1>13. pass.endpoint # <<>> => r = [host |-> PlannedHost, port |-> PlannedPort]
  <2> SUFFICES ASSUME pass.endpoint # <<>> PROVE r = [host |-> PlannedHost, port |-> PlannedPort]
    OBVIOUS
  <2>1. r.port = PlannedPort /\ r.host = PlannedHost /\ r \in [host : HostName, port : Port]
    BY <1>2, <1>7, <1>8, PortAssumption
  <2> QED
    BY <2>1
<1> QED
  BY <1>6, <1>12, <1>13 DEF r

\* A failover that goes on to its next call.
LEMMA EndpointPlan ==
  ASSUME EndpointInv, Fixed, UNCHANGED <<role, service, status>>, NEW t \in {"realias", "commit"}, Goto(t),
         pass.pc \in {"failover", "realias"}, PlannedHost # NoHost, pg' = Planned,
         alias' \in A!Alias, Suits(alias')
  PROVE  EndpointInv'
<1>1. /\ pass' \in PassType
      /\ pass'.pc = t /\ pass'.cfg = pass.cfg /\ pass'.endpoint = pass.endpoint
      /\ pass'.addr = pass.addr /\ pass'.ready = pass.ready
  BY DEF Goto, EndpointInv, Shape, PassType, Stage
<1>2. pass.ready = FALSE /\ pass.endpoint = status.endpoint
  BY DEF EndpointInv, AddressInv, FailoverInv, Shape, PassType
<1>3. Planned \in PgType
  BY PlannedAddress
<1>4. Shape'
  BY <1>1, <1>3 DEF EndpointInv, Shape, Fixed, network
<1>5. TargetInv'
  BY <1>1 DEF EndpointInv, TargetInv, HostsOf, Fixed
<1>6. RecordInv' /\ Suits(alias)'
  BY <1>1 DEF EndpointInv, RecordInv, Recorded, Suits, HostsOf, Fixed
<1>7. PlannedHost' = PlannedHost /\ PlannedPort' = PlannedPort
  BY <1>1 DEF PlannedHost, PlannedPort
<1>8. pg' = Planned' /\ PlannedHost' # NoHost
  BY <1>7 DEF Planned
<1> QED
  BY <1>1, <1>2, <1>4, <1>5, <1>6, <1>8 DEF EndpointInv, AddressInv, FailoverInv

LEMMA EndpointFailover ==
  EndpointInv /\ (FailoverRefused \/ demoteCluster \/ UpdateAlias \/ FailoverCommit) => EndpointInv'
<1> SUFFICES ASSUME EndpointInv, FailoverRefused \/ demoteCluster \/ UpdateAlias \/ FailoverCommit
             PROVE  EndpointInv'
  OBVIOUS
<1>0. /\ cfg \in CfgType /\ alias \in A!Alias /\ Suits(alias) /\ pg \in PgType /\ service \in ServiceType
      /\ status \in StatusType /\ Recorded(status.endpoint) /\ TargetInv
      /\ role \in {"standby", "switching", "primary"}
  BY DEF EndpointInv, Shape, RecordInv
<1>1. CASE FailoverRefused
  BY <1>0, <1>1, EndpointReturn DEF FailoverRefused, Return, Fixed, network, follower
<1>2. CASE demoteCluster
  <2>1. /\ Fixed /\ UNCHANGED <<role, service, status, alias>>
        /\ pass.pc = "failover" /\ PlannedHost # NoHost
    BY <1>2 DEF demoteCluster, At, Fixed, network
  <2>2. Planned \in PgType
    BY <2>1, PlannedAddress
  <2>3. CASE pg' = Planned /\ Goto("realias")
    BY <1>0, <2>1, <2>3, EndpointPlan
  <2>4. CASE pg' \in {pg, Planned} /\ Return
    BY <1>0, <2>1, <2>2, <2>4, EndpointReturn DEF Return
  <2> QED
    BY <1>2, <2>3, <2>4 DEF demoteCluster, Planned
<1>3. CASE UpdateAlias
  <2>1. /\ Fixed /\ UNCHANGED <<role, service, status, pg>>
        /\ pass.pc = "realias" /\ PlannedHost # NoHost /\ pg = Planned
    BY <1>3 DEF UpdateAlias, At, Fixed, network, EndpointInv, FailoverInv
  <2>2. PlannedHost \in HostsOf(cfg)
    BY <2>1, PlannedAddress
  <2>3. CASE alias' = A!EnsurePrimaryAlias(alias, PlannedHost) /\ Goto("commit")
    <3>1. alias' \in A!Alias /\ Suits(alias')
      BY <1>0, <2>2, <2>3, AliasWritten
    <3> QED
      BY <2>1, <2>3, <3>1, EndpointPlan
  <2>4. CASE alias' \in A!InterruptedAlias(alias, PlannedHost) /\ Return
    <3>1. alias' \in A!Alias /\ Suits(alias')
      BY <1>0, <2>2, <2>4, AliasWritten
    <3> QED
      BY <1>0, <2>1, <2>4, <3>1, EndpointReturn DEF Return
  <2> QED
    BY <1>3, <2>3, <2>4 DEF UpdateAlias
<1>4. CASE FailoverCommit
  <2>1. Fixed /\ UNCHANGED <<service, alias, pg>> /\ pass' = Idle
    BY <1>4 DEF FailoverCommit, Fixed, network, follower, Return
  <2>2. /\ status' \in StatusType /\ status'.endpoint = status.endpoint
        /\ role' \in {"standby", "switching", "primary"}
    BY <1>0, <1>4 DEF FailoverCommit, StatusType
  <2> QED
    BY <1>0, <2>1, <2>2, EndpointReturn
<1> QED
  BY <1>1, <1>2, <1>3, <1>4

LEMMA EndpointEnvironment ==
  EndpointInv /\ (Crash \/ UserEdit \/ UserPromote \/ NodesChange \/ Provision \/ Settle \/ UNCHANGED evars)
    => EndpointInv'
<1> SUFFICES ASSUME EndpointInv, Crash \/ UserEdit \/ UserPromote \/ NodesChange \/ Provision \/ Settle
                                 \/ UNCHANGED evars
             PROVE  EndpointInv'
  OBVIOUS
<1>1. CASE Crash
  BY <1>1, EndpointReturn
     DEF Crash, Return, Fixed, network, follower, EndpointInv, Shape, RecordInv
<1>2. CASE ~Crash
  <2>1. UNCHANGED <<service, status, alias, pg, pass>>
    BY <1>2 DEF UserEdit, UserPromote, NodesChange, Provision, Settle, evars, network, follower
  <2>2. /\ cfg' \in CfgType /\ cfg'.type = cfg.type /\ cfg'.externalHost = cfg.externalHost
    BY <1>2 DEF UserEdit, UserPromote, NodesChange, Provision, Settle, evars, network, EndpointInv, Shape,
                CfgType
  <2>3. /\ role' \in {"standby", "switching", "primary"} /\ ready' \subseteq 1..Nodes
        /\ ingress' \in Ingress \cup {NoIngress} /\ settled' \in BOOLEAN
    BY <1>2 DEF UserEdit, UserPromote, NodesChange, Provision, Settle, evars, network, EndpointInv, Shape
  <2>4. HostsOf(cfg') = HostsOf(cfg) /\ HostsOf(cfg)' = HostsOf(cfg)
    BY <2>2 DEF HostsOf
  <2>5. Shape'
    BY <2>1, <2>2, <2>3 DEF EndpointInv, Shape
  <2>6. TargetInv'
    BY <2>1, <2>2, <2>4 DEF EndpointInv, TargetInv
  <2>7. RecordInv' /\ Suits(alias)'
    BY <2>1, <2>4 DEF EndpointInv, RecordInv, Recorded, Suits
  <2>8. AddressInv'
    BY <2>1 DEF EndpointInv, AddressInv, Follower
  <2>9. FailoverInv'
    BY <2>1 DEF EndpointInv, FailoverInv, Planned, PlannedHost, PlannedPort
  <2> QED
    BY <2>5, <2>6, <2>7, <2>8, <2>9 DEF EndpointInv
<1> QED
  BY <1>1, <1>2

LEMMA EndpointStep == EndpointInv /\ [Next]_evars => EndpointInv'
BY EndpointRead, EndpointService, EndpointDiscover, EndpointAlias, EndpointStandby, EndpointStatus,
   EndpointFailover, EndpointEnvironment
   DEF Next, OperatorStep

-----------------------------------------------------------------------------
\* The invariant holds in every reachable state, its last parts for hosts of one kind.
THEOREM EndpointInvariance == Spec => []EndpointInv
BY EndpointInit, EndpointStep, PTL DEF Spec

\* Type correctness: in particular every text the status ever holds can be read back, whatever
\* kinds of hosts are mixed.
THEOREM EndpointsTypeCorrect == Spec => []TypeOK
<1>1. EndpointInv => TypeOK
  BY DEF EndpointInv, Shape, TypeOK, StatusType, PgType, ServiceType, PassType
<1> QED
  BY <1>1, EndpointInvariance, PTL

\* Whatever nodes, load balancers and ports did, whichever calls failed and whether the pass
\* was a failover or not: a status patch that says Ready names the address the standby replicates
\* from, for any number of nodes, hosts (IPv6 among them) and ports.
THEOREM ReadyTellsAddressCorrect ==
  ASSUME OneKind
  PROVE  Spec => ReadyTellsAddress
<1>1. ASSUME EndpointInv, [Next]_evars, status'.ready, status' # status, status'.endpoint # <<>>
      PROVE  clusterEndpointFromStatus(status'.endpoint) = Follower'
  <2>1. UpdateStatus \/ FailoverCommit
    BY <1>1 DEF Next, OperatorStep, Read, EnsureService, Discover, EnsureAlias, ApplyStandby,
                FailoverRefused, demoteCluster, UpdateAlias, Crash, UserEdit, UserPromote, NodesChange,
                Provision, Settle, evars
  <2>2. Follower' = Follower
    BY <2>1 DEF UpdateStatus, FailoverCommit, follower, Follower
  <2>3. CASE UpdateStatus
    <3>1. status'.endpoint = pass.endpoint /\ pass.ready
      BY <1>1, <2>3 DEF UpdateStatus
    <3> QED
      BY <1>1, <2>2, <3>1, OneKind DEF EndpointInv, AddressInv
  <2>4. CASE FailoverCommit
    <3>1. pass.pc = "commit" /\ status'.endpoint = status.endpoint
      BY <1>1, <2>4 DEF FailoverCommit, At, EndpointInv, Shape, StatusType
    <3>2. pass.endpoint = status.endpoint /\ pg = Planned /\ PlannedHost # NoHost
      BY <1>1, <3>1 DEF EndpointInv, FailoverInv
    <3>3. clusterEndpointFromStatus(pass.endpoint) = [host |-> PlannedHost, port |-> PlannedPort]
      BY <1>1, <3>1, <3>2, PlannedAddress
    <3>4. Follower = [host |-> PlannedHost, port |-> PlannedPort]
      BY <3>2 DEF Follower, Planned
    <3> QED
      BY <2>2, <3>1, <3>2, <3>3, <3>4
  <2> QED
    BY <2>1, <2>3, <2>4
<1>2. EndpointInv /\ [Next]_evars
        => [status'.ready /\ status' # status
              => \/ status'.endpoint = <<>>
                 \/ clusterEndpointFromStatus(status'.endpoint) = Follower']_evars
  BY <1>1
<1> QED
  BY <1>2, EndpointInvariance, PTL DEF Spec, ReadyTellsAddress
=============================================================================
