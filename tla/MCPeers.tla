------------------------------- MODULE MCPeers -------------------------------
(***************************************************************************)
(* Two remote addresses of one IP, of which a1 may also be configured as a *)
(* persistent host, and the address of the node itself.  The limits are    *)
(* small enough to be reached: two inbound peers (the second of which is   *)
(* turned away), one outbound, and one address in the range of the two, so *)
(* that each new address evicts the other.                                 *)
(***************************************************************************)
EXTENDS P2PNode

CONSTANTS a1, a2, ownAddr, h, aNonce

MCAddr == {a1, a2, ownAddr}

MCIp == [a \in MCAddr |-> IF a = ownAddr THEN "own" ELSE "remote"]

MCResolves == [x \in Host |-> {a1}]

MCVersionMsg ==
  {[type |-> "version", supported |-> v, services |-> s, nonce |-> aNonce, receiver |-> ownAddr] :
     v \in BOOLEAN, s \in BOOLEAN}

MCCommand == {[cmd |-> "start"], [cmd |-> "ban", addr |-> a1]}

=============================================================================
