------------------------------- MODULE P2PNode -------------------------------
(***************************************************************************)
(* The P2P node: the reactor (crates/p2p/src/net/reactor.rs), the service  *)
(* around the state machine (client/service.rs), and the handle by which   *)
(* the controller sends it commands (client/controller.rs).                *)
(*                                                                         *)
(* The reactor is one thread.  An iteration handles the events it has      *)
(* polled, one step each, then an expired timer, and then processes the    *)
(* outbox until it is empty.  The remote peers and the controller act at   *)
(* any time.                                                               *)
(***************************************************************************)
EXTENDS PeerManager

CONSTANTS
  Own,          \* addresses of this node
  VersionMsg,   \* version messages the peers send
  Gossip,       \* addresses the peers tell of
  Command,      \* commands of the users of the handle
  MaxOutbox     \* bound on the outbox

ASSUME P2PNodeAssumption ==
  /\ Own \subseteq Addr /\ Gossip \subseteq Addr
  /\ VersionMsg \subseteq [type : {"version"}, supported : BOOLEAN, services : BOOLEAN,
                           nonce : Nonce, receiver : Own]
  /\ \A c \in Command : c.cmd \in {"ban", "connect", "disconnect"} => c.addr \in Addr

VARIABLES
  machine,      \* the state machine
  socket,       \* the link of the sockets registered for an address
  connecting,   \* sockets that are not writable yet
  inboxes,      \* decoders of the connected peers
  phase,        \* "off", "poll", "process", "blocked": what the reactor does
  commands,     \* the command channel
  woken,        \* the waker has been written to
  sending,      \* a sender has sent its command and not woken the reactor yet
  unsent        \* commands that have not been sent yet: each is sent once

vars == <<machine, socket, connecting, inboxes, phase, commands, woken, sending, unsent>>

reactorVars == <<socket, connecting, inboxes>>

handleVars == <<commands, woken, sending, unsent>>

Init ==
  /\ \E P \in SUBSET Host : machine = NewMachine(P)
  /\ socket = [a \in Addr |-> "none"]
  /\ connecting = {}
  /\ inboxes = {}
  /\ phase = "off"
  /\ commands = << >>
  /\ woken = FALSE
  /\ sending = FALSE
  /\ unsent = Command

-----------------------------------------------------------------------------
(* The handle: a command is sent and then the reactor is woken.            *)

Send(c) ==
  /\ ~sending
  /\ c \in unsent
  /\ commands' = Append(commands, c)
  /\ sending' = TRUE
  /\ unsent' = unsent \ {c}
  /\ UNCHANGED <<machine, reactorVars, phase, woken>>

Wake ==
  /\ sending
  /\ sending' = FALSE
  /\ woken' = TRUE
  /\ UNCHANGED <<machine, reactorVars, phase, commands, unsent>>

(* P2PClient::run: all commands are dropped until the first Start.  The    *)
(* outbox of initialize is processed before anything is polled.            *)
Start ==
  /\ phase = "off"
  /\ commands # << >>
  /\ commands' = Tail(commands)
  /\ IF Head(commands).cmd = "start"
     THEN /\ phase' = "process"
          /\ machine' \in initialize(machine)
     ELSE UNCHANGED <<machine, phase>>
  /\ UNCHANGED <<reactorVars, woken, sending, unsent>>

-----------------------------------------------------------------------------
(* The reactor: events.                                                    *)

Polling == phase = "poll" /\ Len(machine.outbox) < MaxOutbox

(* service.connected: a banned peer gets no inbox, but keeps its socket.   *)
Connected(a, l, link) ==
  IF is_banned(machine.book, a)
  THEN UNCHANGED <<machine, inboxes>>
  ELSE /\ machine' \in connected(machine, a, l, link)
       /\ inboxes' = inboxes \cup {a}

(* A peer connects to us.  Its socket takes the place of one that is       *)
(* already there, as when we are dialling the peer at the same time.       *)
Accept(a, l) ==
  /\ Polling
  /\ a \notin Own
  /\ socket' = [socket EXCEPT ![a] = "inbound"]
  /\ Connected(a, l, "inbound")
  /\ UNCHANGED <<connecting, phase, handleVars>>

(* A dialled socket is writable: the connection is established.            *)
Writable(a, l) ==
  /\ Polling
  /\ a \in connecting
  /\ connecting' = connecting \ {a}
  /\ Connected(a, l, socket[a])
  /\ UNCHANGED <<socket, phase, handleVars>>

Disconnected(a, isFinal) ==
  /\ machine' \in disconnected(machine, a, isFinal)
  /\ inboxes' = inboxes \ {a}

Unregister(a, isFinal) ==
  /\ socket' = [socket EXCEPT ![a] = "none"]
  /\ connecting' = connecting \ {a}
  /\ Disconnected(a, isFinal)

(* The peer has closed the connection, or a write has failed.              *)
Eof(a) ==
  /\ Polling
  /\ socket[a] # "none"
  /\ Unregister(a, FALSE)
  /\ UNCHANGED <<phase, handleVars>>

(* What a message does to the machine.  "bad" does not decode, or has the  *)
(* magic of another network.  The ones for the controller (inv, getdata,   *)
(* transactions, signatures) and ping change nothing here.                 *)
Handled(a, msg) ==
  CASE msg.type = "version"  -> {received_version(machine, a, msg)}
    [] msg.type = "relay"    -> {received_relay(machine, a)}
    [] msg.type = "ltxidack" -> {received_ltxidack(machine, a)}
    [] msg.type = "verack"   -> {received_verack(machine, a)}
    [] msg.type = "pong"     -> {received_pong(machine, a)}
    [] msg.type = "addr"     -> received_addr(machine, msg.addr)
    [] msg.type = "bad"      -> {disconnect(machine, a, TRUE)}

Message ==
  VersionMsg
    \cup {[type |-> t] : t \in {"relay", "ltxidack", "verack", "pong", "bad"}}
    \cup {[type |-> "addr", addr |-> x] : x \in Gossip}

Receive(a, msg) ==
  /\ Polling
  /\ socket[a] # "none"
  /\ a \in inboxes
  /\ is_connected(machine, a)
  /\ machine' \in Handled(a, msg)
  /\ UNCHANGED <<reactorVars, phase, handleVars>>

(* Those that only write to peers, or answer a question, change nothing.   *)
Execute(c) ==
  machine' \in CASE c.cmd = "ban"        -> {BanPeer(machine, c.addr)}
                 [] c.cmd = "connect"    -> ConnectCommand(machine, c.addr)
                 [] c.cmd = "disconnect" -> {disconnect(machine, c.addr, TRUE)}
                 [] OTHER                -> {machine}

(* One command for however many wakes; with none left the reactor waits    *)
(* for the next one.                                                       *)
Woken ==
  /\ Polling
  /\ woken
  /\ woken' = FALSE
  /\ IF commands = << >>
     THEN phase' = "blocked" /\ UNCHANGED <<machine, commands>>
     ELSE Execute(Head(commands)) /\ commands' = Tail(commands) /\ UNCHANGED phase
  /\ UNCHANGED <<reactorVars, sending, unsent>>

Unblocked ==
  /\ phase = "blocked"
  /\ commands # << >>
  /\ Execute(Head(commands))
  /\ commands' = Tail(commands)
  /\ phase' = "poll"
  /\ UNCHANGED <<reactorVars, woken, sending, unsent>>

-----------------------------------------------------------------------------
(* The reactor: timers and the outbox.                                     *)

Timer ==
  /\ Polling
  /\ \E expired \in SUBSET {a \in Addr : machine.state[a] # "none"},
        due \in SUBSET {h \in Host : machine.retry[h] = "scheduled"},
        idle \in BOOLEAN :
       machine' \in timer_expired(machine, expired, due, idle)
  /\ phase' = "process"
  /\ UNCHANGED <<reactorVars, handleVars>>

NoTimer ==
  /\ phase = "poll"
  /\ machine.outbox # << >>
  /\ phase' = "process"
  /\ UNCHANGED <<machine, reactorVars, handleVars>>

Popped == [machine EXCEPT !.outbox = Tail(@)]

(* handle_connect_process: the new socket takes the place of one that is   *)
(* already there.                                                          *)
Dial(a) ==
  /\ socket' = [socket EXCEPT ![a] = "outbound"]
  /\ connecting' = connecting \cup {a}
  /\ machine' = attempted(Popped, a)
  /\ UNCHANGED inboxes

(* AlreadyExists: the dial is left to the one under way.                   *)
DialIgnored ==
  /\ machine' = Popped
  /\ UNCHANGED reactorVars

DialError(a) ==
  /\ machine' \in disconnected(Popped, a, TRUE)
  /\ inboxes' = inboxes \ {a}
  /\ UNCHANGED <<socket, connecting>>

Process ==
  /\ phase = "process"
  /\ machine.outbox # << >>
  /\ LET out == Head(machine.outbox)
     IN  \/ out.io = "connect" /\ Dial(out.addr)
         \/ out.io = "connect" /\ DialIgnored
         \/ out.io = "connect" /\ DialError(out.addr)
         \/ /\ out.io = "disconnect"
            /\ socket' = [socket EXCEPT ![out.addr] = "none"]
            /\ connecting' = connecting \ {out.addr}
            /\ machine' \in disconnected(Popped, out.addr, out.isFinal)
            /\ inboxes' = inboxes \ {out.addr}
  /\ UNCHANGED <<phase, handleVars>>

Processed ==
  /\ phase = "process"
  /\ machine.outbox = << >>
  /\ phase' = "poll"
  /\ UNCHANGED <<machine, reactorVars, handleVars>>

Next ==
  \/ \E c \in Command : Send(c)
  \/ Wake
  \/ Start
  \/ \E a \in Addr, l \in Own : Accept(a, l) \/ Writable(a, l)
  \/ \E a \in Addr : Eof(a)
  \/ \E a \in Addr, msg \in Message : Receive(a, msg)
  \/ Woken
  \/ Unblocked
  \/ Timer
  \/ NoTimer
  \/ Process
  \/ Processed

Spec == Init /\ [][Next]_vars

-----------------------------------------------------------------------------

(* Four managers, the service and the reactor each keep their own table of *)
(* peers, changed one after the other by connected, by received_verack, by *)
(* disconnected and by BanPeer.  When the outbox is empty they agree: the  *)
(* peers the peer manager takes for connected are those of the address     *)
(* manager and those with an inbox, each has a socket, and the negotiated  *)
(* ones are known to the ping and to the inventory manager.                *)
ManagersAgree ==
  machine.outbox = << >> =>
    LET up == ConnectedPeers(machine)
    IN  /\ machine.book.connected = up
        /\ inboxes = up
        /\ {a \in Addr : machine.pings[a] # "none"} = machine.inv
        /\ machine.inv \subseteq up
        /\ \A a \in Addr : machine.state[a] = "verack" => a \in machine.inv
        /\ \A a \in up : socket[a] # "none"

(* max_inbound_peers is a limit the code goes over only until the outbox   *)
(* is processed (`Don't allow inbound connections beyond the configured    *)
(* limit`), whatever comes in or times out in between.                     *)
InboundBounded ==
  machine.outbox = << >> =>
    LET inbound == {a \in ConnectedPeers(machine) : machine.link[a] = "inbound"}
    IN  inbound = {} \/ Cardinality(inbound) < max_inbound_peers

(* A ban is for good: the IP stays banned, a banned address that is not in *)
(* the ranges does not come back into them by gossip or by a connection,   *)
(* and one without a connection gets none (`prevent it from being sampled  *)
(* again`, ban; `Prevented an attempt of banned peer`, connected).         *)
BansLast ==
  [][\A a \in Addr :
       is_banned(machine.book, a) =>
         /\ is_banned(machine'.book, a)
         /\ a \notin machine.book.ranged => a \notin machine'.book.ranged
         /\ ~is_connected(machine, a) => ~is_connected(machine', a)]_vars

(* The address manager keeps an address in the store only as long as it is *)
(* in a range, where sampling finds it, and no range outgrows              *)
(* MAX_RANGE_SIZE: whatever is inserted, connected, evicted and banned in  *)
(* whatever order, the store is bounded by its ranges.  (The converse does *)
(* not hold: peer_connected may evict the address that it has inserted and *)
(* put it back into the range alone.)                                      *)
BookBounded ==
  /\ DOMAIN machine.book.peers \subseteq machine.book.ranged
  /\ \A a \in Addr : Cardinality(RangeOf(machine.book, a)) <= MAX_RANGE_SIZE

=============================================================================
