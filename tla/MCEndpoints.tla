---------------------------- MODULE MCEndpoints ----------------------------
(* A small instance of Endpoints for TLC: an IPv4 and an IPv6 node, a load *)
(* balancer with a hostname, and a target with an externalHost.            *)
EXTENDS Endpoints

CONSTANTS tokA, tokB, lb, ext, p30001

IPv4 == <<tokA>>
IPv6 == <<tokA, Colon, tokB>>
LBHost == <<lb>>
ExternalName == <<ext>>

MCHost == {IPv4, IPv6, LBHost, ExternalName}
MCHostKind == [h \in MCHost |-> IF h \in {IPv4, IPv6} THEN "ip" ELSE "dns"]
MCNodeIP == <<IPv6, IPv4>>
MCIngress == {[hostname |-> LBHost, ip |-> IPv4], NoIngress}

\* The API server fills in 5432 where there is no externalPort.
MCInitCfg ==
  {[type |-> t, nodePort |-> NoPort, externalHost |-> h, externalPort |-> p] :
     t \in {"NodePort", "LoadBalancer"}, h \in {NoHost, ExternalName}, p \in {PostgresPort, p30001}}
=============================================================================
