----------------------------- MODULE AddressBook -----------------------------
(***************************************************************************)
(* crates/p2p/src/fsm/addrmgr.rs: the addresses the node knows of.  They   *)
(* are kept twice, in the store peers and, grouped by the range of their   *)
(* IP, in address_ranges (here ranged; the group of key k is RangeOf(k),   *)
(* and a group the code would drop as empty has no member).  sample_with   *)
(* and received_getaddr walk over the ranges and look every address up in  *)
(* the store; the panic of a lookup that fails is not modelled.            *)
(*                                                                         *)
(* The manager is a record, and an operation maps it to the set of the     *)
(* records it may become (which address a full range gives up is left to   *)
(* the rng) or, when there is only one, to that one.  A time is kept as    *)
(* what the code asks of it: whether an address has been attempted and     *)
(* whether it has succeeded.  Whether it was sampled less than             *)
(* SAMPLE_TIMEOUT ago is left open, so any set of the eligible addresses   *)
(* may be the one that sampling finds.  The services of an address only    *)
(* order the sampling (those that have them first, and then all).  The     *)
(* addresses of an addr message are inserted one by one: a message with    *)
(* several of them is several messages here.                               *)
(***************************************************************************)
EXTENDS Naturals, FiniteSets, Functions

CONSTANTS
  Addr,            \* socket addresses
  Ip,              \* the IP of an address
  AddrKey,         \* addr_key: the range of an address
  MAX_RANGE_SIZE   \* how many addresses a range holds

ASSUME AddressBookAssumption ==
  /\ MAX_RANGE_SIZE \in Nat \ {0}
  /\ IsFiniteSet(Addr)
  /\ \A a, b \in Addr : Ip[a] = Ip[b] => AddrKey[a] = AddrKey[b]

NewAddress == [attempted |-> FALSE, succeeded |-> FALSE]

(* What AddressManager::new makes of an empty store.                       *)
EmptyBook ==
  [peers       |-> << >>,  \* what is known of an address
   ranged      |-> {},     \* the addresses in address_ranges
   bans        |-> {},     \* banned IPs
   connected   |-> {},     \* addresses with a connection
   sources     |-> {},     \* negotiated peers, asked for more addresses
   local_addrs |-> {}]     \* addresses of this node

-----------------------------------------------------------------------------
RangeOf(b, a) == {x \in b.ranged : AddrKey[x] = AddrKey[a]}

Without(b, a) == Restrict(b.peers, DOMAIN b.peers \ {a})

(* Faulty: the store keeps what a full range gives up.                     *)
populate_address_ranges_keeps(b, a) ==
  IF Cardinality(RangeOf(b, a)) # MAX_RANGE_SIZE
  THEN {[b EXCEPT !.ranged = @ \cup {a}]}
  ELSE {[b EXCEPT !.ranged = (@ \ {v}) \cup {a}] : v \in RangeOf(b, a)}

populate_address_ranges(b, a) ==
  IF Cardinality(RangeOf(b, a)) # MAX_RANGE_SIZE
  THEN {[b EXCEPT !.ranged = @ \cup {a}]}
  ELSE {[b EXCEPT !.ranged = (@ \ {v}) \cup {a}, !.peers = Without(b, v)] :
          v \in RangeOf(b, a)}

(* Faulty: the bans are not looked at.                                     *)
insert_banned(b, a) ==
  IF a \in b.local_addrs \/ a \in DOMAIN b.peers
  THEN {b}
  ELSE populate_address_ranges(
         [b EXCEPT !.peers = [x \in DOMAIN @ \cup {a} |->
                                IF x = a THEN NewAddress ELSE @[x]]], a)

(* An address that is banned, ours or known already is not inserted.  The  *)
(* ones with a time of zero (those of ImportAddresses among them) or far   *)
(* in the future never get here.                                           *)
insert(b, a) ==
  IF Ip[a] \in b.bans \/ a \in b.local_addrs \/ a \in DOMAIN b.peers
  THEN {b}
  ELSE populate_address_ranges(
         [b EXCEPT !.peers = [x \in DOMAIN @ \cup {a} |->
                                IF x = a THEN NewAddress ELSE @[x]]], a)

-----------------------------------------------------------------------------
(* Events.                                                                 *)

record_local_address(b, l) == [b EXCEPT !.local_addrs = @ \cup {l}]

(* The address goes into its range whether it has been inserted or not.    *)
BookConnected(b, a) ==
  {[c EXCEPT !.connected = @ \cup {a}] :
     c \in UNION {populate_address_ranges(i, a) : i \in insert(b, a)}}

Mark(b, a, field) ==
  IF a \in DOMAIN b.peers THEN [b EXCEPT !.peers[a][field] = TRUE] ELSE b

BookAttempted(b, a) == Mark(b, a, "attempted")

BookNegotiated(b, a) ==
  [Mark(b, a, "succeeded") EXCEPT !.sources = @ \cup {a}]

(* The whole IP is banned; its other addresses stay where they are.        *)
ban(b, a) ==
  IF RangeOf(b, a) = {}
  THEN b
  ELSE [b EXCEPT !.peers = Without(b, a),
                 !.ranged = @ \ {a},
                 !.bans = @ \cup {Ip[a]}]

(* Nothing happens unless the address has a connection.  isFinal tells     *)
(* whether the reason is one after which the peer is not tried again.      *)
BookDisconnected(b, a, isFinal) ==
  IF a \notin b.connected THEN b
  ELSE LET d == [b EXCEPT !.connected = @ \ {a}, !.sources = @ \ {a}]
       IN  IF isFinal THEN ban(d, a) ELSE d

(* What sample_with may return, unless it has sampled it recently.         *)
Eligible(b) ==
  {a \in b.ranged \cap DOMAIN b.peers :
     /\ b.peers[a].attempted => b.peers[a].succeeded
     /\ a \notin b.connected}

is_banned(b, a) == Ip[a] \in b.bans

=============================================================================
