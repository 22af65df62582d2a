----------------------------- MODULE PeerManager -----------------------------
(***************************************************************************)
(* The state machine of crates/p2p/src/fsm: the peer manager (peermgr.rs), *)
(* the ping manager (pingmgr.rs), the inventory manager (invmgr.rs), the   *)
(* address manager (AddressBook), the outbox they push into (output.rs)    *)
(* and the handlers that call them one after the other (handler.rs).       *)
(*                                                                         *)
(* The machine is a record, and a handler maps it to the set of machines   *)
(* it may become.  Of the outbox the connections and disconnections are    *)
(* kept: writes, timers and events change no state.  The whitelist is part *)
(* of what a version message is taken for.  A time is kept as              *)
(* what a wake asks of it, whether it has expired, and any of the pending  *)
(* ones may have.                                                          *)
(***************************************************************************)
EXTENDS AddressBook, Sequences

CONSTANTS
  Host,                   \* peers of the configuration (PeerAddr)
  Resolves,               \* the addresses a host resolves to
  Nonce,                  \* nonces of version messages
  NoHost,
  NoNonce,
  max_inbound_peers,
  target_outbound_peers

ASSUME PeerManagerAssumption ==
  /\ max_inbound_peers \in Nat
  /\ target_outbound_peers \in Nat
  /\ Resolves \in [Host -> SUBSET Addr]
  /\ NoHost \notin Host
  /\ NoNonce \notin Nonce

(* persistent is the configured subset of Host.                            *)
NewMachine(persistent) ==
  [book       |-> EmptyBook,
   state      |-> [a \in Addr |-> "none"],     \* peers_storage
   link       |-> [a \in Addr |-> "inbound"],
   host       |-> [a \in Addr |-> NoHost],
   nonce      |-> [a \in Addr |-> NoNonce],
   persistent |-> persistent,
   retry      |-> [h \in Host |-> "none"],     \* persistent_disconnected
   pings      |-> [a \in Addr |-> "none"],     \* pingmgr.peers
   inv        |-> {},                          \* invmgr.peers
   outbox     |-> << >>]

Output == [io : {"connect", "disconnect"}, addr : Addr, isFinal : BOOLEAN]

-----------------------------------------------------------------------------
is_connected(m, a) == m.state[a] \notin {"none", "connecting"}

ConnectedPeers(m) == {a \in Addr : is_connected(m, a)}

negotiated(m, link) == {a \in Addr : m.state[a] = "verack" /\ m.link[a] = link}

Io(io, a, isFinal) == [io |-> io, addr |-> a, isFinal |-> isFinal]

(* The orders of a set.                                                    *)
Orders(S) == Bijection(1 .. Cardinality(S), S)

(* _disconnect: queued whatever the state of the peer.  The transient      *)
(* reasons are ConnectionLimit and PeerTimeout; all others are final.      *)
Disconnect(m, a, isFinal) ==
  [m EXCEPT !.outbox = Append(@, Io("disconnect", a, isFinal))]

(* Several of them, in any order.                                          *)
DisconnectAll(m, S, isFinal) ==
  {[m EXCEPT !.outbox = @ \o [i \in DOMAIN q |-> Io("disconnect", q[i], isFinal)]] :
     q \in Orders(S)}

disconnect(m, a, isFinal) == IF is_connected(m, a) THEN Disconnect(m, a, isFinal) ELSE m

(* connect for the addresses in the domain of host, in any order, each     *)
(* with its host.  One that is connected or connecting is left alone.      *)
ConnectAll(m, host) ==
  LET new == {a \in DOMAIN host : m.state[a] = "none"}
  IN  {[m EXCEPT !.state = [a \in Addr |-> IF a \in new THEN "connecting" ELSE @[a]],
                 !.host = [a \in Addr |-> IF a \in new THEN host[a] ELSE @[a]],
                 !.outbox = @ \o [i \in DOMAIN q |-> Io("connect", q[i], FALSE)]] :
         q \in Orders(new)}

(* How many new connections maintain_connections makes: target_outbound_   *)
(* peers and half as many again at most, all peers counted.                *)
delta(m) ==
  LET primary == Cardinality(negotiated(m, "outbound"))
      unknown == Cardinality({a \in Addr : m.state[a] # "none"}) - primary
      total   == primary + unknown
      max     == target_outbound_peers + target_outbound_peers \div 2
  IN  IF total > max \/ primary + unknown > target_outbound_peers THEN 0
      ELSE IF max - total < target_outbound_peers - (primary + unknown)
           THEN max - total
           ELSE target_outbound_peers - (primary + unknown)

(* Samples until it has enough addresses or finds none; there are no DNS   *)
(* seeds to fall back on.  A sampled address that is being connected to    *)
(* counts as well.                                                         *)
maintain_connections(m) ==
  LET E == Eligible(m.book)
      n == IF Cardinality(negotiated(m, "outbound")) >= target_outbound_peers
           THEN 0 ELSE delta(m)
  IN  IF m.persistent # {} THEN {m}
      ELSE UNION {ConnectAll(m, [a \in S |-> NoHost]) :
                    S \in {T \in SUBSET E : Cardinality(T) <= n}}

(* Connects to every address that can be sampled.                          *)
maintain_newcome(m) ==
  UNION {ConnectAll(m, [a \in S |-> NoHost]) : S \in SUBSET Eligible(m.book)}

(* Connects to the addresses that the hosts in R resolve to.               *)
ConnectHosts(m, R) ==
  LET found == UNION {Resolves[h] : h \in R}
  IN  UNION {ConnectAll(m, host) :
               host \in {f \in [found -> R] : \A a \in found : a \in Resolves[f[a]]}}

-----------------------------------------------------------------------------
(* The handlers of the state machine.                                      *)

(* A host that does not resolve is tried again later.                      *)
initialize(m) ==
  UNION {ConnectHosts([m EXCEPT !.retry = [h \in Host |-> IF h \in F THEN "scheduled" ELSE @[h]]],
                      m.persistent \ F) : F \in SUBSET m.persistent}

attempted(m, a) == [m EXCEPT !.book = BookAttempted(@, a)]

(* Faulty: the limit is tested before the peer is counted in.              *)
connected_off_by_one(m, a, l, link) ==
  LET p == [m EXCEPT !.state[a] = "new", !.link[a] = link, !.host[a] = NoHost,
                     !.nonce[a] = NoNonce,
                     !.retry = [h \in Host |-> IF h = m.host[a] THEN "none" ELSE @[h]]]
      inbound == {x \in ConnectedPeers(m) : m.link[x] = "inbound"}
      n == IF link = "inbound" /\ Cardinality(inbound) >= max_inbound_peers
           THEN Disconnect(p, a, FALSE) ELSE p
  IN  {[n EXCEPT !.book = b] : b \in BookConnected(record_local_address(m.book, l), a)}

(* A peer that takes part in the limit of inbound peers is counted with    *)
(* them, so that the limit itself is never reached for long.  The host of  *)
(* the address is forgotten.                                               *)
connected(m, a, l, link) ==
  LET p == [m EXCEPT !.state[a] = "new", !.link[a] = link, !.host[a] = NoHost,
                     !.nonce[a] = NoNonce,
                     !.retry = [h \in Host |-> IF h = m.host[a] THEN "none" ELSE @[h]]]
      inbound == {x \in ConnectedPeers(p) : p.link[x] = "inbound"}
      n == IF link = "inbound" /\ Cardinality(inbound) >= max_inbound_peers
           THEN Disconnect(p, a, FALSE) ELSE p
  IN  {[n EXCEPT !.book = b] : b \in BookConnected(record_local_address(m.book, l), a)}

(* Faulty: the ping manager is not told.                                   *)
disconnected_ping_left(m, a, isFinal) ==
  LET p == [m EXCEPT !.book = BookDisconnected(@, a, isFinal),
                     !.state[a] = "none", !.link[a] = "inbound", !.host[a] = NoHost,
                     !.nonce[a] = NoNonce,
                     !.inv = @ \ {a}]
  IN  IF m.host[a] # NoHost
      THEN {[p EXCEPT !.retry[m.host[a]] = "scheduled"]}
      ELSE maintain_connections(p)

(* Only a peer that is still being connected to has its host left, and is  *)
(* scheduled again; for all others connections are made up.                *)
disconnected(m, a, isFinal) ==
  LET p == [m EXCEPT !.book = BookDisconnected(@, a, isFinal),
                     !.pings[a] = "none",
                     !.state[a] = "none", !.link[a] = "inbound", !.host[a] = NoHost,
                     !.nonce[a] = NoNonce,
                     !.inv = @ \ {a}]
  IN  IF m.host[a] # NoHost
      THEN {[p EXCEPT !.retry[m.host[a]] = "scheduled"]}
      ELSE maintain_connections(p)

(* v says what the checks ask of the message: whether its protocol version *)
(* is supported, whether it offers the required services or its sender is  *)
(* trusted (whitelisted or local) without them, its nonce and the address  *)
(* it has of us.                                                           *)
received_version(m, a, v) ==
  LET self == \E x \in Addr : /\ m.state[x] \in {"version", "ltxidack", "verack"}
                              /\ m.link[x] = "outbound"
                              /\ m.nonce[x] = v.nonce
  IN  IF ~v.supported THEN Disconnect(m, a, TRUE)
      ELSE IF m.link[a] = "outbound" /\ ~v.services THEN Disconnect(m, a, TRUE)
      ELSE IF self THEN Disconnect(m, a, TRUE)
      ELSE IF /\ m.link[a] = "outbound"
              /\ Cardinality(negotiated(m, "outbound")) >= target_outbound_peers
           THEN Disconnect(m, a, FALSE)
      ELSE [m EXCEPT !.book = record_local_address(@, v.receiver),
                     !.state[a] = "version",
                     !.nonce[a] = v.nonce]

(* wtxidrelay and ltxidrelay.                                              *)
received_relay(m, a) ==
  IF m.state[a] \in {"ltxidack", "verack"} THEN disconnect(m, a, TRUE) ELSE m

received_ltxidack(m, a) ==
  CASE m.state[a] = "version"              -> [m EXCEPT !.state[a] = "ltxidack"]
    [] m.state[a] \in {"ltxidack", "verack"} -> Disconnect(m, a, TRUE)
    [] OTHER                               -> m

received_verack(m, a) ==
  CASE m.state[a] = "ltxidack" ->
         [m EXCEPT !.state[a] = "verack",
                   !.book = BookNegotiated(@, a),
                   !.pings[a] = "awaiting",
                   !.inv = @ \cup {a}]
    [] m.state[a] \in {"version", "verack"} -> Disconnect(m, a, TRUE)
    [] OTHER -> m

received_pong(m, a) ==
  IF m.pings[a] = "awaiting" THEN [m EXCEPT !.pings[a] = "idle"] ELSE m

received_addr(m, x) == {[m EXCEPT !.book = b] : b \in insert(m.book, x)}

-----------------------------------------------------------------------------
(* timer_expired.  The peers in expired have been in their state for too   *)
(* long, the hosts in due are to be retried, and idle says that            *)
(* IDLE_TIMEOUT has passed.  A handshake is timed out until its ltxidack.  *)
PingWake(m, expired) ==
  DisconnectAll([m EXCEPT !.pings = [a \in Addr |->
                   IF a \in expired /\ @[a] = "idle" THEN "awaiting" ELSE @[a]]],
                {a \in expired : m.pings[a] = "awaiting"}, FALSE)

PeerWake(m, expired) ==
  UNION {DisconnectAll(n, negotiated(n, "outbound") \ n.inv, TRUE) :
           n \in DisconnectAll(m, {a \in expired : m.state[a] \in {"connecting", "new", "version"}},
                               FALSE)}

(* A host that is due and does not resolve is not scheduled again.         *)
maintain_persistent(m, due) ==
  UNION {ConnectHosts([m EXCEPT !.retry = [h \in Host |-> IF h \in due THEN "fired" ELSE @[h]]], R) :
           R \in SUBSET due}

timer_expired(m, expired, due, idle) ==
  LET pinged == UNION {PeerWake(n, expired) : n \in PingWake(m, expired)}
      maintained == IF idle THEN UNION {maintain_connections(n) : n \in pinged} ELSE pinged
      retried == UNION {maintain_persistent(n, due) : n \in maintained}
  IN  UNION {maintain_newcome(n) : n \in retried}

(* Command::BanPeer.                                                       *)
BanPeer(m, a) == disconnect([m EXCEPT !.book = BookDisconnected(@, a, TRUE)], a, TRUE)

(* Command::Connect.                                                       *)
ConnectCommand(m, a) == ConnectAll(m, [x \in {a} |-> NoHost])

=============================================================================
