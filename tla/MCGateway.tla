----------------------------- MODULE MCGateway -----------------------------
(* Instances of Gateway for TLC.                                           *)
EXTENDS Gateway

(* The attempts and the mirror share no state, so an instance with both at *)
(* work has the product of their states and no behaviour of either that an *)
(* instance with one of them lacks: each behaviour here uses one.          *)
VARIABLE side

Card(interfaces, skills, private) ==
  [interfaces |-> interfaces, skills |-> skills, valid |-> TRUE,
   privateReference |-> private]

(* A card that can be published, one with a private reference, another     *)
(* that can be published.                                                  *)
MCCardOf ==
  << Card({"JSONRPC 1.0", "gRPC 1.0"}, {"lookup", "admin"}, FALSE),
     Card({"JSONRPC 1.0"}, {"lookup"}, TRUE),
     Card({"HTTP+JSON 1.0"}, {"lookup"}, FALSE) >>

MCInit == GatewayInit /\ side \in {"proxy", "card"}

MCNext ==
  /\ \/ side = "proxy" /\ ProxyNext /\ UNCHANGED mirrorVars
     \/ side = "card" /\ MirrorNext /\ UNCHANGED proxyVars
  /\ UNCHANGED side

MCSpec == MCInit /\ [][MCNext]_<<vars, side>> /\ ProxyFairness /\ MirrorFairness
=============================================================================
