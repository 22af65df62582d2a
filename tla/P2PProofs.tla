----------------------------- MODULE P2PProofs -----------------------------
(***************************************************************************)
(* What the P2P node keeps true for every set of addresses, peers and      *)
(* limits: a ban is for good, the limit of inbound peers holds whenever    *)
(* the outbox is empty, the tables of the managers agree, and the address  *)
(* book is bounded.                                                        *)
(*                                                                         *)
(* Most handlers only queue connections and disconnections.  Quiet(m, n)   *)
(* says what they leave alone, and every one of them is shown to be quiet; *)
(* the invariants are then about the few that are not: connected,          *)
(* disconnected, BanPeer and the messages of the handshake.                *)
(***************************************************************************)
EXTENDS P2PNode, FiniteSetTheorems, TLAPS

(* Unless a leaf names another prover, Zenon is the one that checks it.     *)
USE Zenon

PeerState == {"none", "connecting", "new", "version", "ltxidack", "verack"}

Link == {"inbound", "outbound"}

KnownAddress == [attempted : BOOLEAN, succeeded : BOOLEAN]

Book ==
  [peers       : UNION {[D -> KnownAddress] : D \in SUBSET Addr},
   ranged      : SUBSET Addr,
   bans        : SUBSET {Ip[a] : a \in Addr},
   connected   : SUBSET Addr,
   sources     : SUBSET Addr,
   local_addrs : SUBSET Own]

Machine ==
  [book       : Book,
   state      : [Addr -> PeerState],
   link       : [Addr -> Link],
   host       : [Addr -> Host \cup {NoHost}],
   nonce      : [Addr -> Nonce \cup {NoNonce}],
   persistent : SUBSET Host,
   retry      : [Host -> {"none", "scheduled", "fired"}],
   pings      : [Addr -> {"none", "idle", "awaiting"}],
   inv        : SUBSET Addr,
   outbox     : Seq(Output)]

(* The tables of the peer manager, by address.                             *)
LEMMA Tables ==
  ASSUME NEW m \in Machine
  PROVE  /\ m.book \in Book
         /\ m.state \in [Addr -> PeerState] /\ m.link \in [Addr -> Link]
         /\ m.pings \in [Addr -> {"none", "idle", "awaiting"}]
  BY DEF Machine

(* A disconnection of the address is in the outbox.                        *)
Pending(m, a) ==
  \E i \in DOMAIN m.outbox : m.outbox[i].io = "disconnect" /\ m.outbox[i].addr = a

(* What a handler that only queues outputs does to the machine.            *)
Quiet(m, n) ==
  /\ n.book = m.book /\ n.link = m.link /\ n.inv = m.inv
  /\ \A a \in Addr : \/ n.state[a] = m.state[a]
                     \/ m.state[a] = "none" /\ n.state[a] = "connecting"
  /\ \A a \in Addr : n.pings[a] = "none" <=> m.pings[a] = "none"
  /\ \A a \in Addr : Pending(m, a) => Pending(n, a)

(* Being quiet is reflexive.                                               *)
LEMMA QuietSelf == \A m : Quiet(m, m)
  BY DEF Quiet

(* Quiet handlers one after the other are quiet.                           *)
LEMMA QuietThen ==
  ASSUME NEW m, NEW n, NEW k, Quiet(m, n), Quiet(n, k)
  PROVE  Quiet(m, k)
  BY ZenonT(30) DEF Quiet

(* A queue of outputs is added behind what is in the outbox: what was      *)
(* pending still is.                                                       *)
LEMMA Queued ==
  ASSUME NEW outbox \in Seq(Output), NEW more \in Seq(Output)
  PROVE  /\ outbox \o more \in Seq(Output)
         /\ \A i \in DOMAIN outbox : i \in DOMAIN (outbox \o more) /\ (outbox \o more)[i] = outbox[i]
         /\ \A i \in DOMAIN (outbox \o more) :
              \/ i \in DOMAIN outbox /\ (outbox \o more)[i] = outbox[i]
              \/ \E j \in DOMAIN more : (outbox \o more)[i] = more[j]
  <1>1. /\ outbox \o more \in Seq(Output)
        /\ \A i \in DOMAIN outbox : i \in DOMAIN (outbox \o more) /\ (outbox \o more)[i] = outbox[i]
    BY SMT
  <1>2. ASSUME NEW i \in DOMAIN (outbox \o more), i \notin DOMAIN outbox
        PROVE  \E j \in DOMAIN more : (outbox \o more)[i] = more[j]
    <2>1. i - Len(outbox) \in DOMAIN more /\ (outbox \o more)[i] = more[i - Len(outbox)]
      BY SMT, <1>2
    <2> QED
      BY <2>1
  <1> QED
    BY <1>1, <1>2

(* The order in which the members of a set are taken is a sequence of      *)
(* them.                                                                   *)
LEMMA OrderOfSet ==
  ASSUME NEW S \in SUBSET Addr, NEW q \in Orders(S)
  PROVE  q \in Seq(Addr)
  <1>1. IsFiniteSet(S)
    BY FS_Subset, AddressBookAssumption
  <1>2. Cardinality(S) \in Nat
    BY <1>1, FS_CardinalityType
  <1>3. q \in [1 .. Cardinality(S) -> S]
    BY DEF Orders, Bijection, Injection
  <1> QED
    BY SMT, <1>2, <1>3

(* The outputs made of a sequence of addresses are outputs.                *)
LEMMA OutputsOfAddresses ==
  ASSUME NEW q \in Seq(Addr), NEW io \in {"connect", "disconnect"}, NEW isFinal \in BOOLEAN
  PROVE  [i \in DOMAIN q |-> Io(io, q[i], isFinal)] \in Seq(Output)
  <1>1. DOMAIN q = 1 .. Len(q) /\ Len(q) \in Nat
    BY SMT
  <1>2. \A i \in 1 .. Len(q) : Io(io, q[i], isFinal) \in Output
    BY SMT DEF Io, Output
  <1>3. [i \in 1 .. Len(q) |-> Io(io, q[i], isFinal)] \in [1 .. Len(q) -> Output]
    BY <1>2
  <1> QED
    BY SMT, <1>1, <1>3

(* DisconnectAll only adds to the outbox.                                  *)
LEMMA DisconnectAllQuiet ==
  ASSUME NEW m \in Machine, NEW S \in SUBSET Addr, NEW isFinal \in BOOLEAN,
         NEW n \in DisconnectAll(m, S, isFinal)
  PROVE  n \in Machine /\ Quiet(m, n)
  <1>1. PICK q \in Orders(S) :
          n = [m EXCEPT !.outbox = @ \o [i \in DOMAIN q |-> Io("disconnect", q[i], isFinal)]]
    BY DEF DisconnectAll
  <1> DEFINE more == [i \in DOMAIN q |-> Io("disconnect", q[i], isFinal)]
  <1>2. q \in Seq(Addr)
    BY OrderOfSet
  <1>3. more \in Seq(Output)
    BY <1>2, OutputsOfAddresses
  <1>4. m.outbox \in Seq(Output)
    BY DEF Machine
  <1> HIDE DEF more
  <1>5. n = [m EXCEPT !.outbox = m.outbox \o more]
    BY <1>1 DEF more
  <1>6. m.outbox \o more \in Seq(Output)
    BY <1>3, <1>4, Queued
  <1>7. n \in Machine /\ n.outbox = m.outbox \o more
    BY <1>5, <1>6 DEF Machine
  <1>8. \A a \in Addr : Pending(m, a) => Pending(n, a)
    BY SMT, <1>3, <1>4, <1>7, Queued DEF Pending
  <1>9. /\ n.book = m.book /\ n.link = m.link /\ n.inv = m.inv
        /\ n.state = m.state /\ n.pings = m.pings
    BY <1>5 DEF Machine
  <1> QED
    BY <1>7, <1>8, <1>9 DEF Quiet

(* ConnectAll adds to the outbox and turns "none" into "connecting".       *)
LEMMA ConnectAllQuiet ==
  ASSUME NEW m \in Machine, NEW D \in SUBSET Addr, NEW host \in [D -> Host \cup {NoHost}],
         NEW n \in ConnectAll(m, host)
  PROVE  n \in Machine /\ Quiet(m, n)
  <1> DEFINE new == {a \in DOMAIN host : m.state[a] = "none"}
             state == [a \in Addr |-> IF a \in new THEN "connecting" ELSE m.state[a]]
             hosts == [a \in Addr |-> IF a \in new THEN host[a] ELSE m.host[a]]
  <1>1. PICK q \in Orders(new) :
          n = [m EXCEPT !.state = state, !.host = hosts,
                        !.outbox = @ \o [i \in DOMAIN q |-> Io("connect", q[i], FALSE)]]
    BY DEF ConnectAll, Machine
  <1> DEFINE more == [i \in DOMAIN q |-> Io("connect", q[i], FALSE)]
  <1>2. new \in SUBSET Addr
    OBVIOUS
  <1>3. q \in Seq(Addr)
    BY <1>2, OrderOfSet
  <1>4. more \in Seq(Output)
    BY <1>3, OutputsOfAddresses
  <1>5. m.outbox \in Seq(Output)
    BY DEF Machine
  <1>6. state \in [Addr -> PeerState] /\ hosts \in [Addr -> Host \cup {NoHost}]
    BY DEF Machine, PeerState
  <1>7. \A a \in Addr : \/ state[a] = m.state[a]
                        \/ m.state[a] = "none" /\ state[a] = "connecting"
    OBVIOUS
  <1>8. n = [m EXCEPT !.state = state, !.host = hosts, !.outbox = m.outbox \o more]
    BY <1>1 DEF more
  <1> HIDE DEF more, state, hosts
  <1>9. m.outbox \o more \in Seq(Output)
    BY <1>4, <1>5, Queued
  <1>10. n \in Machine /\ n.outbox = m.outbox \o more /\ n.state = state
    BY <1>6, <1>8, <1>9 DEF Machine
  <1>11. \A a \in Addr : Pending(m, a) => Pending(n, a)
    BY SMT, <1>4, <1>5, <1>10, Queued DEF Pending
  <1>12. n.book = m.book /\ n.link = m.link /\ n.inv = m.inv /\ n.pings = m.pings
    BY <1>8 DEF Machine
  <1> QED
    BY <1>7, <1>10, <1>11, <1>12 DEF Quiet

-----------------------------------------------------------------------------
(* The handlers that only queue.                                           *)

(* One disconnection, too.                                                 *)
LEMMA DisconnectQuiet ==
  ASSUME NEW m \in Machine, NEW a \in Addr, NEW isFinal \in BOOLEAN
  PROVE  /\ Disconnect(m, a, isFinal) \in Machine
         /\ Quiet(m, Disconnect(m, a, isFinal))
         /\ Pending(Disconnect(m, a, isFinal), a)
  <1> DEFINE out == Io("disconnect", a, isFinal)
             n == Disconnect(m, a, isFinal)
             j == Len(m.outbox) + 1
  <1>1. out \in Output /\ out.io = "disconnect" /\ out.addr = a
    BY DEF Io, Output
  <1>2. m.outbox \in Seq(Output)
    BY DEF Machine
  <1> HIDE DEF out
  <1>3. n = [m EXCEPT !.outbox = Append(m.outbox, out)]
    BY DEF Disconnect, out
  <1>4. Append(m.outbox, out) \in Seq(Output)
    BY SMT, <1>1, <1>2
  <1> HIDE DEF n
  <1>5. n \in Machine /\ n.outbox = Append(m.outbox, out)
    BY <1>3, <1>4 DEF Machine
  <1>6. /\ n.book = m.book /\ n.link = m.link /\ n.inv = m.inv
        /\ n.state = m.state /\ n.pings = m.pings
    BY <1>3 DEF Machine
  <1>7. /\ \A i \in DOMAIN m.outbox : i \in DOMAIN n.outbox /\ n.outbox[i] = m.outbox[i]
        /\ \A i \in DOMAIN n.outbox : i \in DOMAIN m.outbox \/ i = j
        /\ j \in DOMAIN n.outbox /\ n.outbox[j] = out
    BY SMT, <1>1, <1>2, <1>5
  <1> HIDE DEF j
  <1>8. Pending(n, a) /\ \A x \in Addr : Pending(m, x) => Pending(n, x)
    BY <1>1, <1>7 DEF Pending
  <1> QED
    BY <1>5, <1>6, <1>8 DEF Quiet, n

(* disconnect leaves a disconnection pending for a peer it finds connected.*)
LEMMA disconnectQuiet ==
  ASSUME NEW m \in Machine, NEW a \in Addr, NEW isFinal \in BOOLEAN
  PROVE  /\ disconnect(m, a, isFinal) \in Machine
         /\ Quiet(m, disconnect(m, a, isFinal))
         /\ is_connected(m, a) => Pending(disconnect(m, a, isFinal), a)
  BY DisconnectQuiet, QuietSelf DEF disconnect

(* Connecting to what can be sampled.                                      *)
LEMMA SampledQuiet ==
  ASSUME NEW m \in Machine, NEW S \in SUBSET Eligible(m.book),
         NEW n \in ConnectAll(m, [a \in S |-> NoHost])
  PROVE  n \in Machine /\ Quiet(m, n)
  <1>1. S \in SUBSET Addr
    BY DEF Eligible, Machine, Book
  <1>2. [a \in S |-> NoHost] \in [S -> Host \cup {NoHost}]
    OBVIOUS
  <1> QED
    BY <1>1, <1>2, ConnectAllQuiet

(* maintain_connections and maintain_newcome connect to what is sampled.   *)
LEMMA MaintainQuiet ==
  ASSUME NEW m \in Machine, NEW n, n \in maintain_connections(m) \/ n \in maintain_newcome(m)
  PROVE  n \in Machine /\ Quiet(m, n)
  <1>1. CASE n \in maintain_newcome(m)
    BY <1>1, SampledQuiet DEF maintain_newcome
  <1>2. CASE n \in maintain_connections(m)
    <2>1. n = m \/ \E S \in SUBSET Eligible(m.book) : n \in ConnectAll(m, [a \in S |-> NoHost])
      BY <1>2 DEF maintain_connections
    <2> QED
      BY <2>1, SampledQuiet, QuietSelf
  <1> QED
    BY <1>1, <1>2

(* ConnectHosts connects to what the hosts resolve to.                     *)
LEMMA ConnectHostsQuiet ==
  ASSUME NEW m \in Machine, NEW R \in SUBSET Host, NEW n \in ConnectHosts(m, R)
  PROVE  n \in Machine /\ Quiet(m, n)
  <1> DEFINE found == UNION {Resolves[h] : h \in R}
  <1>1. PICK host \in [found -> R] : n \in ConnectAll(m, host)
    BY DEF ConnectHosts
  <1>2. found \in SUBSET Addr
    BY ZenonT(30), PeerManagerAssumption
  <1>3. host \in [found -> Host \cup {NoHost}]
    BY <1>1
  <1> HIDE DEF found
  <1> QED
    BY <1>1, <1>2, <1>3, ConnectAllQuiet

(* When a host is to be tried again concerns nobody else.                  *)
LEMMA RetryQuiet ==
  ASSUME NEW m \in Machine, NEW retry \in [Host -> {"none", "scheduled", "fired"}]
  PROVE  /\ [m EXCEPT !.retry = retry] \in Machine
         /\ Quiet(m, [m EXCEPT !.retry = retry])
  <1> DEFINE n == [m EXCEPT !.retry = retry]
  <1>1. n \in Machine
    BY DEF Machine
  <1>2. /\ n.book = m.book /\ n.link = m.link /\ n.inv = m.inv
        /\ n.state = m.state /\ n.pings = m.pings /\ n.outbox = m.outbox
    BY DEF Machine
  <1> HIDE DEF n
  <1> QED
    BY <1>1, <1>2 DEF Quiet, n, Pending

(* initialize and maintain_persistent connect to hosts.                    *)
LEMMA HostsQuiet ==
  ASSUME NEW m \in Machine, NEW D \in SUBSET Host, NEW n,
         n \in initialize(m) \/ n \in maintain_persistent(m, D)
  PROVE  n \in Machine /\ Quiet(m, n)
  <1>1. PICK retry \in [Host -> {"none", "scheduled", "fired"}], R \in SUBSET Host :
          n \in ConnectHosts([m EXCEPT !.retry = retry], R)
    <2>1. CASE n \in initialize(m)
      <3>1. PICK F \in SUBSET m.persistent :
              n \in ConnectHosts([m EXCEPT !.retry = [h \in Host |->
                                    IF h \in F THEN "scheduled" ELSE m.retry[h]]],
                                 m.persistent \ F)
        BY <2>1 DEF initialize
      <3>2. /\ m.persistent \ F \in SUBSET Host
            /\ [h \in Host |-> IF h \in F THEN "scheduled" ELSE m.retry[h]]
                 \in [Host -> {"none", "scheduled", "fired"}]
        BY DEF Machine
      <3> QED
        BY <3>1, <3>2
    <2>2. CASE n \in maintain_persistent(m, D)
      <3>1. PICK R \in SUBSET D :
              n \in ConnectHosts([m EXCEPT !.retry = [h \in Host |->
                                    IF h \in D THEN "fired" ELSE m.retry[h]]], R)
        BY <2>2 DEF maintain_persistent
      <3>2. [h \in Host |-> IF h \in D THEN "fired" ELSE m.retry[h]]
              \in [Host -> {"none", "scheduled", "fired"}]
        BY DEF Machine
      <3> QED
        BY <3>1, <3>2
    <2> QED
      BY <2>1, <2>2
  <1> DEFINE k == [m EXCEPT !.retry = retry]
  <1>2. k \in Machine /\ Quiet(m, k)
    BY RetryQuiet
  <1> HIDE DEF k
  <1>3. n \in Machine /\ Quiet(k, n)
    BY <1>1, <1>2, ConnectHostsQuiet DEF k
  <1> QED
    BY <1>2, <1>3, QuietThen

(* The wakes of the ping and of the peer manager disconnect.               *)
LEMMA WakesQuiet ==
  ASSUME NEW m \in Machine, NEW expired \in SUBSET Addr, NEW n,
         n \in PingWake(m, expired) \/ n \in PeerWake(m, expired)
  PROVE  n \in Machine /\ Quiet(m, n)
  <1>1. CASE n \in PingWake(m, expired)
    <2> DEFINE pings == [a \in Addr |-> IF a \in expired /\ m.pings[a] = "idle"
                                        THEN "awaiting" ELSE m.pings[a]]
               k == [m EXCEPT !.pings = pings]
               S == {a \in expired : m.pings[a] = "awaiting"}
    <2>1. n \in DisconnectAll(k, S, FALSE)
      BY <1>1 DEF PingWake
    <2>2. /\ pings \in [Addr -> {"none", "idle", "awaiting"}]
          /\ \A a \in Addr : pings[a] = "none" <=> m.pings[a] = "none"
      BY DEF Machine
    <2> HIDE DEF pings
    <2>3. k \in Machine
      BY <2>2 DEF Machine
    <2>4. /\ k.book = m.book /\ k.link = m.link /\ k.inv = m.inv
          /\ k.state = m.state /\ k.pings = pings /\ k.outbox = m.outbox
      BY DEF Machine
    <2> HIDE DEF k
    <2>5. Quiet(m, k)
      BY <2>2, <2>4 DEF Quiet, Pending
    <2>6. n \in Machine /\ Quiet(k, n)
      BY <2>1, <2>3, DisconnectAllQuiet
    <2> QED
      BY <2>5, <2>6, QuietThen
  <1>2. CASE n \in PeerWake(m, expired)
    <2> DEFINE S == {a \in expired : m.state[a] \in {"connecting", "new", "version"}}
    <2>1. PICK k \in DisconnectAll(m, S, FALSE) :
            n \in DisconnectAll(k, negotiated(k, "outbound") \ k.inv, TRUE)
      BY <1>2 DEF PeerWake
    <2>2. k \in Machine /\ Quiet(m, k)
      BY DisconnectAllQuiet
    <2>3. negotiated(k, "outbound") \ k.inv \in SUBSET Addr
      BY DEF negotiated
    <2>4. n \in Machine /\ Quiet(k, n)
      BY <2>1, <2>2, <2>3, DisconnectAllQuiet
    <2> QED
      BY <2>2, <2>4, QuietThen
  <1> QED
    BY <1>1, <1>2

(* timer_expired is these, one after the other.                            *)
LEMMA TimerQuiet ==
  ASSUME NEW m \in Machine, NEW expired \in SUBSET Addr, NEW due \in SUBSET Host,
         NEW idle \in BOOLEAN, NEW n \in timer_expired(m, expired, due, idle)
  PROVE  n \in Machine /\ Quiet(m, n)
  <1> DEFINE pinged == UNION {PeerWake(k, expired) : k \in PingWake(m, expired)}
             maintained == IF idle THEN UNION {maintain_connections(k) : k \in pinged}
                           ELSE pinged
             retried == UNION {maintain_persistent(k, due) : k \in maintained}
  <1>1. ASSUME NEW k \in pinged
        PROVE  k \in Machine /\ Quiet(m, k)
    <2>1. PICK p \in PingWake(m, expired) : k \in PeerWake(p, expired)
      OBVIOUS
    <2>2. p \in Machine /\ Quiet(m, p)
      BY WakesQuiet
    <2>3. k \in Machine /\ Quiet(p, k)
      BY <2>1, <2>2, WakesQuiet
    <2> QED
      BY <2>2, <2>3, QuietThen
  <1>2. ASSUME NEW k \in maintained
        PROVE  k \in Machine /\ Quiet(m, k)
    <2>1. k \in pinged \/ \E p \in pinged : k \in maintain_connections(p)
      OBVIOUS
    <2> HIDE DEF pinged
    <2> QED
      BY <1>1, <2>1, MaintainQuiet, QuietThen
  <1>3. ASSUME NEW k \in retried
        PROVE  k \in Machine /\ Quiet(m, k)
    <2>1. PICK p \in maintained : k \in maintain_persistent(p, due)
      OBVIOUS
    <2> HIDE DEF maintained
    <2>2. p \in Machine /\ Quiet(m, p)
      BY <1>2
    <2>3. k \in Machine /\ Quiet(p, k)
      BY <2>1, <2>2, HostsQuiet
    <2> QED
      BY <2>2, <2>3, QuietThen
  <1>4. PICK k \in retried : n \in maintain_newcome(k)
    BY DEF timer_expired
  <1> HIDE DEF retried
  <1>5. k \in Machine /\ Quiet(m, k)
    BY <1>3
  <1>6. n \in Machine /\ Quiet(k, n)
    BY <1>4, <1>5, MaintainQuiet
  <1> QED
    BY <1>5, <1>6, QuietThen

-----------------------------------------------------------------------------
(* The address manager.                                                    *)

(* What populate_address_ranges, insert and peer_connected change.         *)
Widened(b, c, a) ==
  /\ c \in Book
  /\ c.bans = b.bans /\ c.local_addrs = b.local_addrs
  /\ c.ranged \subseteq b.ranged \cup {a}

(* No range is over its limit.                                             *)
Sized(b) == \A x \in Addr : Cardinality(RangeOf(b, x)) <= MAX_RANGE_SIZE

Fine(b) == DOMAIN b.peers \subseteq b.ranged /\ Sized(b)

(* One element more.                                                       *)
LEMMA OneMore ==
  ASSUME NEW S, IsFiniteSet(S), NEW a
  PROVE  /\ Cardinality(S) \in Nat
         /\ Cardinality(S \cup {a}) = Cardinality(S) \/ Cardinality(S \cup {a}) = Cardinality(S) + 1
  BY FS_AddElement, FS_CardinalityType

(* One element less.                                                       *)
LEMMA OneLess ==
  ASSUME NEW S, IsFiniteSet(S), NEW a \in S
  PROVE  IsFiniteSet(S \ {a}) /\ Cardinality(S \ {a}) = Cardinality(S) - 1
  BY FS_RemoveElement

(* A range is finite.                                                      *)
LEMMA RangeFinite ==
  ASSUME NEW b \in Book, NEW x
  PROVE  IsFiniteSet(RangeOf(b, x)) /\ Cardinality(RangeOf(b, x)) \in Nat
  <1>1. RangeOf(b, x) \subseteq Addr
    BY DEF RangeOf, Book
  <1> QED
    BY <1>1, FS_Subset, FS_CardinalityType, AddressBookAssumption

(* With fewer addresses no range grows.                                    *)
LEMMA FewerRanged ==
  ASSUME NEW b \in Book, NEW c \in Book, c.ranged \subseteq b.ranged, Sized(b)
  PROVE  Sized(c)
  <1> SUFFICES ASSUME NEW x \in Addr
               PROVE  Cardinality(RangeOf(c, x)) <= MAX_RANGE_SIZE
    BY DEF Sized
  <1>1. RangeOf(c, x) \subseteq RangeOf(b, x)
    BY DEF RangeOf
  <1>2. /\ Cardinality(RangeOf(c, x)) <= Cardinality(RangeOf(b, x))
        /\ Cardinality(RangeOf(c, x)) \in Nat /\ Cardinality(RangeOf(b, x)) \in Nat
    BY <1>1, RangeFinite, FS_Subset
  <1>3. Cardinality(RangeOf(b, x)) <= MAX_RANGE_SIZE
    BY DEF Sized
  <1> QED
    BY SMT, <1>2, <1>3, AddressBookAssumption

(* Only the range of a changes, and it is not over its limit.              *)
LEMMA RangeSized ==
  ASSUME NEW b, NEW c, NEW a \in Addr, Sized(b),
         Cardinality(RangeOf(c, a)) <= MAX_RANGE_SIZE,
         \A x \in Addr : AddrKey[x] # AddrKey[a] => RangeOf(c, x) = RangeOf(b, x)
  PROVE  Sized(c)
  <1> SUFFICES ASSUME NEW x \in Addr
               PROVE  Cardinality(RangeOf(c, x)) <= MAX_RANGE_SIZE
    BY DEF Sized
  <1>1. CASE AddrKey[x] = AddrKey[a]
    <2>1. RangeOf(c, x) = RangeOf(c, a)
      BY <1>1 DEF RangeOf
    <2> QED
      BY <2>1
  <1>2. CASE AddrKey[x] # AddrKey[a]
    BY <1>2 DEF Sized
  <1> QED
    BY <1>1, <1>2

(* The parts of a book whose store is restricted or extended are a book's. *)
LEMMA StoreTyped ==
  ASSUME NEW peers, NEW D \in SUBSET Addr, peers \in [D -> KnownAddress]
  PROVE  peers \in UNION {[E -> KnownAddress] : E \in SUBSET Addr}
  OBVIOUS

(* populate_address_ranges adds the address to its range, and a full range *)
(* gives one up, in the store as well.                                     *)
LEMMA PopulateBook ==
  ASSUME NEW b \in Book, NEW a \in Addr, NEW c \in populate_address_ranges(b, a)
  PROVE  /\ Widened(b, c, a) /\ c.connected = b.connected
         /\ Sized(b) => Sized(c)
         /\ DOMAIN b.peers \subseteq b.ranged \cup {a} => DOMAIN c.peers \subseteq c.ranged
  <1> DEFINE R == RangeOf(b, a)
  <1>1. IsFiniteSet(R) /\ Cardinality(R) \in Nat
    BY RangeFinite
  <1>2. Sized(b) => Cardinality(R) <= MAX_RANGE_SIZE
    BY DEF Sized
  <1>3. CASE Cardinality(R) # MAX_RANGE_SIZE
    <2>1. c = [b EXCEPT !.ranged = b.ranged \cup {a}]
      BY <1>3 DEF populate_address_ranges
    <2>2. /\ Widened(b, c, a) /\ c.connected = b.connected
          /\ c.ranged = b.ranged \cup {a} /\ c.peers = b.peers
      BY <2>1 DEF Widened, Book
    <2>3. RangeOf(c, a) = R \cup {a}
      BY <2>2 DEF RangeOf
    <2>4. \A x \in Addr : AddrKey[x] # AddrKey[a] => RangeOf(c, x) = RangeOf(b, x)
      BY <2>2 DEF RangeOf
    <2> HIDE DEF R
    <2>5. Sized(b) => Cardinality(R \cup {a}) <= MAX_RANGE_SIZE
      <3>1. Cardinality(R \cup {a}) = Cardinality(R) \/ Cardinality(R \cup {a}) = Cardinality(R) + 1
        BY <1>1, OneMore
      <3> QED
        BY SMT, <1>1, <1>2, <1>3, <3>1, AddressBookAssumption
    <2>6. Sized(b) => Sized(c)
      BY <2>3, <2>4, <2>5, RangeSized
    <2> QED
      BY <2>2, <2>6
  <1>4. CASE Cardinality(R) = MAX_RANGE_SIZE
    <2>1. PICK v \in R :
            c = [b EXCEPT !.ranged = (b.ranged \ {v}) \cup {a}, !.peers = Without(b, v)]
      BY <1>4 DEF populate_address_ranges
    <2>2. PICK D \in SUBSET Addr : b.peers \in [D -> KnownAddress]
      BY DEF Book
    <2>3. /\ Without(b, v) \in [D \ {v} -> KnownAddress]
          /\ DOMAIN Without(b, v) = DOMAIN b.peers \ {v}
      BY <2>2 DEF Without, Restrict
    <2>4. Without(b, v) \in UNION {[E -> KnownAddress] : E \in SUBSET Addr}
      BY <2>3, StoreTyped
    <2> HIDE DEF Without
    <2>5. /\ Widened(b, c, a) /\ c.connected = b.connected
          /\ c.ranged = (b.ranged \ {v}) \cup {a} /\ c.peers = Without(b, v)
      BY <2>1, <2>4 DEF Widened, Book
    <2>6. DOMAIN b.peers \subseteq b.ranged \cup {a} => DOMAIN c.peers \subseteq c.ranged
      BY <2>3, <2>5
    <2>7. RangeOf(c, a) = (R \ {v}) \cup {a}
      BY <2>5 DEF RangeOf
    <2>8. v \in b.ranged /\ AddrKey[v] = AddrKey[a]
      BY <2>1 DEF RangeOf
    <2>9. \A x \in Addr : AddrKey[x] # AddrKey[a] => RangeOf(c, x) = RangeOf(b, x)
      BY <2>5, <2>8 DEF RangeOf
    <2> HIDE DEF R
    <2>10. Cardinality((R \ {v}) \cup {a}) <= MAX_RANGE_SIZE
      <3>1. IsFiniteSet(R \ {v}) /\ Cardinality(R \ {v}) = Cardinality(R) - 1
        BY <1>1, <2>1, OneLess
      <3> DEFINE Q == R \ {v}
      <3>2. \/ Cardinality(Q \cup {a}) = Cardinality(Q)
            \/ Cardinality(Q \cup {a}) = Cardinality(Q) + 1
        BY <3>1, OneMore
      <3> QED
        BY SMT, <1>1, <1>4, <3>1, <3>2, AddressBookAssumption
    <2>11. Sized(b) => Sized(c)
      BY <2>7, <2>9, <2>10, RangeSized
    <2> QED
      BY <2>5, <2>6, <2>11
  <1> QED
    BY <1>3, <1>4

(* insert: nothing for a banned address; one that it takes is in its range.*)
LEMMA InsertBook ==
  ASSUME NEW b \in Book, NEW a \in Addr, NEW c \in insert(b, a)
  PROVE  /\ Widened(b, c, a) /\ c.connected = b.connected
         /\ is_banned(b, a) => c = b
         /\ Fine(b) => Fine(c)
  <1>1. CASE is_banned(b, a) \/ a \in b.local_addrs \/ a \in DOMAIN b.peers
    <2>1. c = b
      BY <1>1 DEF insert, is_banned
    <2> QED
      BY <1>1, <2>1 DEF Widened
  <1>2. CASE ~(is_banned(b, a) \/ a \in b.local_addrs \/ a \in DOMAIN b.peers)
    <2> DEFINE peers == [x \in DOMAIN b.peers \cup {a} |->
                           IF x = a THEN NewAddress ELSE b.peers[x]]
               d == [b EXCEPT !.peers = peers]
    <2>1. c \in populate_address_ranges(d, a)
      BY <1>2 DEF insert, is_banned
    <2>2. PICK D \in SUBSET Addr : b.peers \in [D -> KnownAddress]
      BY DEF Book
    <2>3. peers \in [D \cup {a} -> KnownAddress] /\ DOMAIN peers = DOMAIN b.peers \cup {a}
      BY <2>2 DEF NewAddress, KnownAddress
    <2>4. peers \in UNION {[E -> KnownAddress] : E \in SUBSET Addr}
      BY <2>3, StoreTyped
    <2> HIDE DEF peers
    <2>5. /\ d \in Book /\ d.peers = peers /\ d.ranged = b.ranged /\ d.bans = b.bans
          /\ d.local_addrs = b.local_addrs /\ d.connected = b.connected
      BY <2>4 DEF Book
    <2> HIDE DEF d
    <2>6. /\ Widened(d, c, a) /\ c.connected = d.connected
          /\ Sized(d) => Sized(c)
          /\ DOMAIN d.peers \subseteq d.ranged \cup {a} => DOMAIN c.peers \subseteq c.ranged
      BY <2>1, <2>5, PopulateBook
    <2>7. Sized(b) => Sized(d)
      BY <2>5 DEF Sized, RangeOf
    <2>8. Fine(b) => Fine(c)
      BY <2>3, <2>5, <2>6, <2>7 DEF Fine
    <2> QED
      BY <1>2, <2>5, <2>6, <2>8 DEF Widened
  <1> QED
    BY <1>1, <1>2

(* peer_connected.                                                         *)
LEMMA ConnectedBook ==
  ASSUME NEW b \in Book, NEW a \in Addr, NEW c \in BookConnected(b, a)
  PROVE  /\ Widened(b, c, a) /\ c.connected = b.connected \cup {a}
         /\ Fine(b) => Fine(c)
  <1>1. PICK i \in insert(b, a) : \E d \in populate_address_ranges(i, a) :
          c = [d EXCEPT !.connected = d.connected \cup {a}]
    BY DEF BookConnected
  <1>0. PICK d \in populate_address_ranges(i, a) :
          c = [d EXCEPT !.connected = d.connected \cup {a}]
    BY <1>1
  <1>2. /\ Widened(b, i, a) /\ i.connected = b.connected
        /\ Fine(b) => Fine(i)
    BY InsertBook
  <1>3. i \in Book
    BY <1>2 DEF Widened
  <1>4. /\ Widened(i, d, a) /\ d.connected = i.connected
        /\ Sized(i) => Sized(d)
        /\ DOMAIN i.peers \subseteq i.ranged \cup {a} => DOMAIN d.peers \subseteq d.ranged
    BY <1>3, PopulateBook
  <1>5. d \in Book
    BY <1>4 DEF Widened
  <1>6. /\ c \in Book /\ c.connected = d.connected \cup {a} /\ c.peers = d.peers
        /\ c.ranged = d.ranged /\ c.bans = d.bans /\ c.local_addrs = d.local_addrs
    BY <1>0, <1>5 DEF Book
  <1>7. Sized(d) => Sized(c)
    BY <1>6 DEF Sized, RangeOf
  <1>8. Fine(b) => Fine(c)
    BY <1>2, <1>4, <1>6, <1>7 DEF Fine
  <1> QED
    BY <1>2, <1>4, <1>6, <1>8 DEF Widened

(* peer_disconnected: a ban takes the address out of both.                 *)
LEMMA DisconnectedBook ==
  ASSUME NEW b \in Book, NEW a \in Addr, NEW isFinal \in BOOLEAN
  PROVE  LET c == BookDisconnected(b, a, isFinal)
         IN  /\ c \in Book /\ c.connected = b.connected \ {a}
             /\ b.bans \subseteq c.bans /\ c.ranged \subseteq b.ranged
             /\ c.local_addrs = b.local_addrs
             /\ Fine(b) => Fine(c)
  <1> DEFINE c == BookDisconnected(b, a, isFinal)
             d == [b EXCEPT !.connected = b.connected \ {a}, !.sources = b.sources \ {a}]
  <1>1. CASE a \notin b.connected
    <2>1. c = b /\ b.connected \ {a} = b.connected
      BY <1>1 DEF BookDisconnected
    <2> QED
      BY <2>1
  <1>2. CASE a \in b.connected
    <2>1. c = IF isFinal THEN ban(d, a) ELSE d
      BY <1>2 DEF BookDisconnected
    <2>2. /\ d \in Book /\ d.connected = b.connected \ {a} /\ d.peers = b.peers
          /\ d.ranged = b.ranged /\ d.bans = b.bans /\ d.local_addrs = b.local_addrs
      BY DEF Book
    <2> HIDE DEF d
    <2>3. CASE c = d
      BY <2>2, <2>3 DEF Fine, Sized, RangeOf
    <2>4. CASE c # d
      <3>1. c = [d EXCEPT !.peers = Without(d, a), !.ranged = d.ranged \ {a},
                          !.bans = d.bans \cup {Ip[a]}]
        BY <2>1, <2>4 DEF ban
      <3>2. PICK D \in SUBSET Addr : d.peers \in [D -> KnownAddress]
        BY <2>2 DEF Book
      <3>3. /\ Without(d, a) \in [D \ {a} -> KnownAddress]
            /\ DOMAIN Without(d, a) = DOMAIN d.peers \ {a}
        BY <3>2 DEF Without, Restrict
      <3>4. Without(d, a) \in UNION {[E -> KnownAddress] : E \in SUBSET Addr}
        BY <3>3, StoreTyped
      <3>5. /\ c \in Book /\ c.peers = Without(d, a) /\ c.ranged = d.ranged \ {a}
            /\ c.bans = d.bans \cup {Ip[a]} /\ c.connected = d.connected
            /\ c.local_addrs = d.local_addrs
        <4>1. d.bans \cup {Ip[a]} \in SUBSET {Ip[x] : x \in Addr}
          BY <2>2 DEF Book
        <4> HIDE DEF c
        <4> QED
          BY <2>2, <3>1, <3>4, <4>1 DEF Book
      <3>6. Sized(b) => Sized(c)
        BY <2>2, <3>5, FewerRanged
      <3> QED
        BY <2>2, <3>3, <3>5, <3>6 DEF Fine
    <2> QED
      BY <2>3, <2>4
  <1> QED
    BY <1>1, <1>2

(* An attempt, a negotiation and an address of our own change no table     *)
(* that the others have a part in.                                         *)
Noted(b, c) ==
  /\ c \in Book /\ c.connected = b.connected /\ c.ranged = b.ranged /\ c.bans = b.bans
  /\ DOMAIN c.peers = DOMAIN b.peers

(* The three handlers of the address book that only take notes.            *)
LEMMA NotedBook ==
  ASSUME NEW b \in Book, NEW a \in Addr
  PROVE  /\ Noted(b, BookAttempted(b, a))
         /\ Noted(b, BookNegotiated(b, a))
         /\ \A l \in Own : Noted(b, record_local_address(b, l))
  <1>1. \A field \in {"attempted", "succeeded"} : Noted(b, Mark(b, a, field))
    <2> TAKE field \in {"attempted", "succeeded"}
    <2>1. CASE a \notin DOMAIN b.peers
      BY <2>1 DEF Mark, Noted
    <2>2. CASE a \in DOMAIN b.peers
      <3>1. PICK D \in SUBSET Addr : b.peers \in [D -> KnownAddress]
        BY DEF Book
      <3> DEFINE peers == [b.peers EXCEPT ![a] = [b.peers[a] EXCEPT ![field] = TRUE]]
      <3>2. [b.peers[a] EXCEPT ![field] = TRUE] \in KnownAddress
        BY <2>2, <3>1 DEF KnownAddress
      <3>3. peers \in [D -> KnownAddress] /\ DOMAIN peers = DOMAIN b.peers
        BY <3>1, <3>2
      <3>4. peers \in UNION {[E -> KnownAddress] : E \in SUBSET Addr}
        BY <3>3, StoreTyped
      <3>5. Mark(b, a, field) = [b EXCEPT !.peers = peers]
        BY <2>2 DEF Mark, Book
      <3> HIDE DEF peers
      <3> QED
        BY <3>3, <3>4, <3>5 DEF Noted, Book
    <2> QED
      BY <2>1, <2>2
  <1>2. Noted(b, BookAttempted(b, a))
    BY <1>1 DEF BookAttempted
  <1>3. Noted(b, BookNegotiated(b, a))
    <2> DEFINE d == Mark(b, a, "succeeded")
    <2>1. Noted(b, d)
      BY <1>1
    <2>2. BookNegotiated(b, a) = [d EXCEPT !.sources = d.sources \cup {a}]
      BY DEF BookNegotiated
    <2> HIDE DEF d
    <2> QED
      BY ZenonT(30), <2>1, <2>2 DEF Noted, Book
  <1>4. \A l \in Own : Noted(b, record_local_address(b, l))
    BY DEF Noted, Book, record_local_address
  <1> QED
    BY <1>2, <1>3, <1>4

(* The ranges are as fine as they were.                                    *)
LEMMA NotedFine == ASSUME NEW b, NEW c, Noted(b, c), Fine(b) PROVE Fine(c)
  BY DEF Noted, Fine, Sized, RangeOf

-----------------------------------------------------------------------------
(* The inductive invariant.                                                *)

(* What the tables say of one address.  Between a ban and the processing   *)
(* of its disconnection the address manager has forgotten a peer that the  *)
(* others still have.                                                      *)
At(m, inb, sock, conn, a) ==
  /\ a \in inb <=> is_connected(m, a)
  /\ a \in m.book.connected => is_connected(m, a)
  /\ is_connected(m, a) => a \in m.book.connected \/ Pending(m, a)
  /\ m.pings[a] # "none" <=> a \in m.inv
  /\ a \in m.inv => is_connected(m, a)
  /\ m.state[a] = "verack" => a \in m.inv
  /\ is_connected(m, a) => sock[a] # "none"
  /\ a \in conn => sock[a] # "none"

(* The inbound peers, as connected counts them.                            *)
AllInbound(m) == {a \in ConnectedPeers(m) : m.link[a] = "inbound"}

(* The inbound peers that are not about to be disconnected.                *)
Inbound(m) == {a \in ConnectedPeers(m) : m.link[a] = "inbound" /\ ~Pending(m, a)}

InboundKept(m) == Inbound(m) = {} \/ Cardinality(Inbound(m)) < max_inbound_peers

ReactorTyped ==
  /\ machine \in Machine
  /\ inboxes \in SUBSET Addr
  /\ connecting \in SUBSET Addr
  /\ socket \in [Addr -> {"none", "inbound", "outbound"}]
  /\ commands \in Seq(Command)
  /\ unsent \in SUBSET Command

Kept(m, inb, sock, conn) ==
  /\ \A a \in Addr : At(m, inb, sock, conn, a)
  /\ InboundKept(m)
  /\ Fine(m.book)

PeersInv == ReactorTyped /\ Kept(machine, inboxes, socket, connecting)

(* What a ban rules out between a machine and the next one.                *)
Lasting(m, n) ==
  \A a \in Addr :
    is_banned(m.book, a) =>
      /\ is_banned(n.book, a)
      /\ a \notin m.book.ranged => a \notin n.book.ranged
      /\ ~is_connected(m, a) => ~is_connected(n, a)

(* Two handlers one after the other.                                       *)
LEMMA LastingThen ==
  ASSUME NEW m, NEW n, NEW k, Lasting(m, n), Lasting(n, k)
  PROVE  Lasting(m, k)
  BY DEF Lasting

(* With fewer inbound peers the limit still holds.                         *)
LEMMA FewerInbound ==
  ASSUME NEW m, NEW n, InboundKept(m), Inbound(n) \subseteq Inbound(m)
  PROVE  InboundKept(n)
  <1>1. Inbound(m) \subseteq Addr
    BY DEF Inbound, ConnectedPeers
  <1>2. IsFiniteSet(Inbound(m))
    BY <1>1, FS_Subset, AddressBookAssumption
  <1>3. /\ Cardinality(Inbound(n)) <= Cardinality(Inbound(m))
        /\ Cardinality(Inbound(m)) \in Nat /\ Cardinality(Inbound(n)) \in Nat
    BY <1>2, FS_Subset, FS_CardinalityType
  <1>4. CASE Inbound(m) = {}
    BY <1>4 DEF InboundKept
  <1>5. CASE Cardinality(Inbound(m)) < max_inbound_peers
    BY SMT, <1>3, <1>5, PeerManagerAssumption DEF InboundKept
  <1> QED
    BY <1>4, <1>5 DEF InboundKept

(* A quiet handler connects and disconnects nobody.                        *)
LEMMA QuietConnected ==
  ASSUME NEW m, NEW n, Quiet(m, n)
  PROVE  \A a \in Addr : /\ is_connected(n, a) <=> is_connected(m, a)
                         /\ n.state[a] = "verack" <=> m.state[a] = "verack"
  BY DEF Quiet, is_connected

(* A quiet handler keeps the invariant, and every ban.                     *)
LEMMA QuietKept ==
  ASSUME NEW m, NEW n, NEW inb, NEW sock, NEW conn, Quiet(m, n)
  PROVE  /\ Kept(m, inb, sock, conn) => Kept(n, inb, sock, conn)
         /\ Lasting(m, n)
  <1>1. /\ n.book = m.book /\ n.link = m.link /\ n.inv = m.inv
        /\ \A a \in Addr : n.pings[a] = "none" <=> m.pings[a] = "none"
        /\ \A a \in Addr : Pending(m, a) => Pending(n, a)
    BY DEF Quiet
  <1>2. \A a \in Addr : /\ is_connected(n, a) <=> is_connected(m, a)
                        /\ n.state[a] = "verack" <=> m.state[a] = "verack"
    BY QuietConnected
  <1>3. Lasting(m, n)
    BY <1>1, <1>2 DEF Lasting
  <1>4. ASSUME Kept(m, inb, sock, conn)
        PROVE  Kept(n, inb, sock, conn)
    <2>1. \A a \in Addr : At(m, inb, sock, conn, a)
      BY <1>4 DEF Kept
    <2>2. \A a \in Addr : At(n, inb, sock, conn, a)
      BY <1>1, <1>2, <2>1 DEF At
    <2>3. Inbound(n) \subseteq Inbound(m)
      BY <1>1, <1>2 DEF Inbound, ConnectedPeers
    <2>4. InboundKept(n)
      BY <1>4, <2>3, FewerInbound DEF Kept
    <2>5. Fine(n.book)
      BY <1>1, <1>4 DEF Kept
    <2> QED
      BY <2>2, <2>4, <2>5 DEF Kept
  <1> QED
    BY <1>3, <1>4

(* The outbox without its first output: what is pending still is, but for  *)
(* the address of that output.                                             *)
LEMMA Pops ==
  ASSUME NEW m \in Machine, m.outbox # << >>
  PROVE  LET n == [m EXCEPT !.outbox = Tail(@)]
         IN  /\ n \in Machine
             /\ n.book = m.book /\ n.link = m.link /\ n.inv = m.inv
             /\ n.state = m.state /\ n.pings = m.pings /\ n.host = m.host
             /\ Head(m.outbox) \in Output
             /\ \A a \in Addr : Pending(m, a) =>
                  \/ Pending(n, a)
                  \/ Head(m.outbox).io = "disconnect" /\ Head(m.outbox).addr = a
  <1> DEFINE n == [m EXCEPT !.outbox = Tail(@)]
  <1>1. m.outbox \in Seq(Output)
    BY DEF Machine
  <1>2. Tail(m.outbox) \in Seq(Output) /\ Head(m.outbox) \in Output
    BY SMT, <1>1
  <1>3. n \in Machine /\ n.outbox = Tail(m.outbox)
    BY <1>2 DEF Machine
  <1>4. /\ n.book = m.book /\ n.link = m.link /\ n.inv = m.inv
        /\ n.state = m.state /\ n.pings = m.pings /\ n.host = m.host
    BY DEF Machine
  <1> HIDE DEF n
  <1>5. /\ \A i \in DOMAIN n.outbox : i + 1 \in DOMAIN m.outbox /\ n.outbox[i] = m.outbox[i + 1]
        /\ \A i \in DOMAIN m.outbox : i = 1 \/ (i - 1 \in DOMAIN n.outbox /\ m.outbox[i] = n.outbox[i - 1])
        /\ 1 \in DOMAIN m.outbox /\ Head(m.outbox) = m.outbox[1]
    BY SMT, <1>1, <1>3
  <1>6. ASSUME NEW a \in Addr, Pending(m, a)
        PROVE  \/ Pending(n, a)
               \/ Head(m.outbox).io = "disconnect" /\ Head(m.outbox).addr = a
    BY <1>5, <1>6 DEF Pending
  <1> QED
    BY <1>2, <1>3, <1>4, <1>6 DEF n

-----------------------------------------------------------------------------
(* The handlers that change the tables.                                    *)

(* peer_connected: the address is added to every table, and a peer beyond  *)
(* the limit is about to be disconnected.                                  *)
LEMMA ConnectedFields ==
  ASSUME NEW m \in Machine, NEW a \in Addr, NEW l \in Own,
         NEW link \in Link, NEW n \in connected(m, a, l, link)
  PROVE  /\ n \in Machine
         /\ n.state = [m.state EXCEPT ![a] = "new"]
         /\ n.link = [m.link EXCEPT ![a] = link]
         /\ n.pings = m.pings /\ n.inv = m.inv
         /\ n.book \in BookConnected(record_local_address(m.book, l), a)
         /\ \A x \in Addr : Pending(m, x) => Pending(n, x)
         /\ link = "inbound" =>
              \/ Pending(n, a)
              \/ Cardinality(AllInbound(n)) < max_inbound_peers
  <1> DEFINE retry == [h \in Host |-> IF h = m.host[a] THEN "none" ELSE m.retry[h]]
             p == [m EXCEPT !.state[a] = "new", !.link[a] = link, !.host[a] = NoHost,
                            !.nonce[a] = NoNonce, !.retry = retry]
             inbound == AllInbound(p)
             over == link = "inbound" /\ Cardinality(inbound) >= max_inbound_peers
             k == IF over THEN Disconnect(p, a, FALSE) ELSE p
  <1>1. PICK b \in BookConnected(record_local_address(m.book, l), a) : n = [k EXCEPT !.book = b]
    BY DEF connected, AllInbound
  <1>2. b \in Book
    <2>1. record_local_address(m.book, l) \in Book
      BY NotedBook DEF Machine, Noted
    <2> QED
      BY ZenonT(30), <2>1, ConnectedBook DEF Widened
  <1>3. retry \in [Host -> {"none", "scheduled", "fired"}]
    BY DEF Machine
  <1> HIDE DEF retry
  <1>4. /\ p \in Machine
        /\ p.state = [m.state EXCEPT ![a] = "new"] /\ p.link = [m.link EXCEPT ![a] = link]
        /\ p.pings = m.pings /\ p.inv = m.inv /\ p.outbox = m.outbox /\ p.book = m.book
    BY <1>3 DEF Machine, PeerState
  <1> HIDE DEF p
  <1>5. Disconnect(p, a, FALSE).state = p.state
    BY <1>4 DEF Disconnect, Machine
  <1>6. /\ k \in Machine /\ Quiet(p, k) /\ k.state = p.state
        /\ over => Pending(k, a)
    BY <1>4, <1>5, DisconnectQuiet, QuietSelf
  <1>7. Cardinality(inbound) \in Nat
    <2>1. inbound \in SUBSET Addr
      BY DEF ConnectedPeers, AllInbound
    <2> QED
      BY <2>1, FS_Subset, FS_CardinalityType, AddressBookAssumption
  <1>8. ConnectedPeers(k) = ConnectedPeers(p)
    BY <1>6 DEF ConnectedPeers, is_connected
  <1> HIDE DEF k
  <1>9. k.link = p.link /\ k.pings = p.pings /\ k.inv = p.inv
    <2>1. Disconnect(p, a, FALSE).pings = p.pings
      BY <1>4 DEF Disconnect, Machine
    <2> QED
      BY <1>6, <2>1 DEF Quiet, k
  <1>10. /\ n \in Machine
         /\ n.state = k.state /\ n.link = k.link /\ n.pings = k.pings /\ n.inv = k.inv
         /\ n.outbox = k.outbox /\ n.book = b
    BY <1>1, <1>2, <1>6 DEF Machine
  <1>11. \A x \in Addr : Pending(m, x) => Pending(n, x)
    BY SMT, <1>4, <1>6, <1>10 DEF Pending, Quiet
  <1>13. ASSUME link = "inbound"
         PROVE  \/ Pending(n, a)
                \/ Cardinality(AllInbound(n)) < max_inbound_peers
    <2>1. AllInbound(n) = AllInbound(p)
      BY <1>8, <1>9, <1>10 DEF ConnectedPeers, is_connected, AllInbound
    <2>2. CASE over
      BY <1>6, <1>10, <2>2 DEF Pending
    <2>3. CASE ~over
      BY SMT, <1>7, <1>13, <2>1, <2>3, PeerManagerAssumption
    <2> QED
      BY <2>2, <2>3
  <1> QED
    BY <1>1, <1>4, <1>6, <1>9, <1>10, <1>11, <1>13

(* A connection is made known to all the managers at once.                 *)
LEMMA ConnectedKept ==
  ASSUME NEW m \in Machine, NEW a \in Addr, NEW l \in Own,
         NEW link \in Link, NEW n \in connected(m, a, l, link),
         NEW inb, NEW sock, NEW conn, NEW sock2, NEW conn2,
         Kept(m, inb, sock, conn), ~is_banned(m.book, a),
         sock2[a] # "none", \A x \in Addr \ {a} : sock2[x] = sock[x],
         conn2 \subseteq conn
  PROVE  n \in Machine /\ Kept(n, inb \cup {a}, sock2, conn2) /\ Lasting(m, n)
  <1> DEFINE b == record_local_address(m.book, l)
  <1>1. /\ n \in Machine
        /\ n.state = [m.state EXCEPT ![a] = "new"]
        /\ n.link = [m.link EXCEPT ![a] = link]
        /\ n.pings = m.pings /\ n.inv = m.inv
        /\ n.book \in BookConnected(b, a)
        /\ \A x \in Addr : Pending(m, x) => Pending(n, x)
        /\ link = "inbound" =>
             \/ Pending(n, a)
             \/ Cardinality(AllInbound(n)) < max_inbound_peers
    BY ZenonT(30), ConnectedFields
  <1>2. Noted(m.book, b) /\ b \in Book
    BY NotedBook DEF Machine, Noted
  <1> HIDE DEF b
  <1>4. /\ Widened(b, n.book, a) /\ n.book.connected = b.connected \cup {a}
        /\ Fine(b) => Fine(n.book)
    BY <1>1, <1>2, ConnectedBook
  <1>5. /\ n.book.connected = m.book.connected \cup {a}
        /\ n.book.bans = m.book.bans /\ n.book.ranged \subseteq m.book.ranged \cup {a}
    BY <1>2, <1>4 DEF Noted, Widened
  <1>6. /\ is_connected(n, a) /\ n.state[a] = "new"
        /\ \A x \in Addr \ {a} : /\ n.state[x] = m.state[x]
                                 /\ is_connected(n, x) <=> is_connected(m, x)
    <2>1. n.state[a] = "new" /\ \A x \in Addr \ {a} : n.state[x] = m.state[x]
      <3>1. m.state \in [Addr -> PeerState] /\ n.state = [m.state EXCEPT ![a] = "new"]
        BY <1>1, Tables
      <3> QED
        BY <3>1
    <2> QED
      BY <2>1 DEF is_connected
  <1>7. Lasting(m, n)
    BY <1>5, <1>6 DEF Lasting, is_banned
  <1>8. ASSUME NEW x \in Addr
        PROVE  At(n, inb \cup {a}, sock2, conn2, x)
    <2>1. At(m, inb, sock, conn, x)
      BY DEF Kept
    <2>2. CASE x = a
      BY <1>1, <1>5, <1>6, <2>1, <2>2 DEF At
    <2>3. CASE x # a
      BY <1>1, <1>5, <1>6, <2>1, <2>3 DEF At
    <2> QED
      BY <2>2, <2>3
  <1>9. InboundKept(n)
    <2>1. CASE link = "inbound" /\ ~Pending(n, a)
      <3> DEFINE all == AllInbound(n)
      <3>1. Inbound(n) \subseteq all
        BY DEF Inbound, AllInbound
      <3>2. all \in SUBSET Addr
        BY DEF ConnectedPeers, AllInbound
      <3>3. IsFiniteSet(all)
        BY <3>2, FS_Subset, AddressBookAssumption
      <3>4. Cardinality(all) < max_inbound_peers
        BY <1>1, <2>1
      <3> HIDE DEF all
      <3>5. /\ Cardinality(Inbound(n)) <= Cardinality(all)
            /\ Cardinality(Inbound(n)) \in Nat /\ Cardinality(all) \in Nat
        BY <3>1, <3>3, FS_Subset, FS_CardinalityType
      <3>6. Cardinality(Inbound(n)) < max_inbound_peers
        BY SMT, <3>4, <3>5, PeerManagerAssumption
      <3> QED
        BY <3>6 DEF InboundKept
    <2>2. CASE ~(link = "inbound" /\ ~Pending(n, a))
      <3>1. a \notin Inbound(n)
        BY <1>1, <2>2 DEF Inbound, Machine
      <3>2. \A x \in Addr \ {a} : n.link[x] = m.link[x]
        <4>1. m.link \in [Addr -> Link] /\ n.link = [m.link EXCEPT ![a] = link]
          BY <1>1, Tables
        <4> QED
          BY <4>1
      <3>3. Inbound(n) \subseteq Inbound(m)
        BY <1>1, <1>6, <3>1, <3>2 DEF Inbound, ConnectedPeers
      <3> QED
        BY <3>3, FewerInbound DEF Kept
    <2> QED
      BY <2>1, <2>2
  <1>10. Fine(n.book)
    BY <1>2, <1>4, NotedFine DEF Kept
  <1> QED
    BY <1>1, <1>7, <1>8, <1>9, <1>10 DEF Kept

(* The machine k is m, of which an output may have been taken that was     *)
(* about a.                                                                *)
LessPending(m, k, a) ==
  /\ k \in Machine
  /\ k.book = m.book /\ k.link = m.link /\ k.inv = m.inv
  /\ k.state = m.state /\ k.pings = m.pings
  /\ \A x \in Addr \ {a} : Pending(m, x) => Pending(k, x)

(* peer_disconnected: the address leaves every table; the connections made *)
(* up for it are only queued.                                              *)
LEMMA DisconnectedKept ==
  ASSUME NEW m \in Machine, NEW a \in Addr, NEW isFinal \in BOOLEAN, NEW k,
         LessPending(m, k, a), NEW n \in disconnected(k, a, isFinal),
         NEW inb, NEW sock, NEW conn, NEW sock2, NEW conn2,
         Kept(m, inb, sock, conn),
         \A x \in Addr \ {a} : sock2[x] = sock[x],
         conn2 \subseteq conn, a \in conn2 => sock2[a] = sock[a]
  PROVE  n \in Machine /\ Kept(n, inb \ {a}, sock2, conn2) /\ Lasting(m, n)
  <1> DEFINE b == BookDisconnected(k.book, a, isFinal)
             p == [k EXCEPT !.book = b,
                            !.pings[a] = "none",
                            !.state[a] = "none", !.link[a] = "inbound", !.host[a] = NoHost,
                            !.nonce[a] = NoNonce,
                            !.inv = k.inv \ {a}]
             q == [p EXCEPT !.retry[k.host[a]] = "scheduled"]
  <1>1. (k.host[a] # NoHost /\ n = q) \/ n \in maintain_connections(p)
    BY DEF disconnected
  <1>2. k \in Machine /\ k.book \in Book
    BY DEF LessPending, Machine
  <1>3. /\ b \in Book /\ b.connected = k.book.connected \ {a}
        /\ k.book.bans \subseteq b.bans /\ b.ranged \subseteq k.book.ranged
        /\ Fine(k.book) => Fine(b)
    BY SMT, <1>2, DisconnectedBook
  <1> HIDE DEF b
  <1>4. /\ p \in Machine /\ p.book = b
        /\ p.pings = [k.pings EXCEPT ![a] = "none"] /\ p.inv = k.inv \ {a}
        /\ p.state = [k.state EXCEPT ![a] = "none"] /\ p.link = [k.link EXCEPT ![a] = "inbound"]
        /\ p.outbox = k.outbox
    BY <1>2, <1>3 DEF Machine, PeerState, Link
  <1> HIDE DEF p
  <1>5. n \in Machine /\ Quiet(p, n)
    <2>1. CASE k.host[a] # NoHost /\ n = q
      <3>1. k.host[a] \in Host
        BY SMT, <1>2, <2>1 DEF Machine
      <3> DEFINE retry == [p.retry EXCEPT ![k.host[a]] = "scheduled"]
      <3>2. retry \in [Host -> {"none", "scheduled", "fired"}]
        BY <1>4, <3>1 DEF Machine
      <3>3. q = [p EXCEPT !.retry = retry]
        BY <1>4 DEF Machine
      <3> HIDE DEF retry
      <3> QED
        BY <1>4, <2>1, <3>2, <3>3, RetryQuiet
    <2>2. CASE n \in maintain_connections(p)
      BY <1>4, <2>2, MaintainQuiet
    <2> QED
      BY <1>1, <2>1, <2>2
  <1>6. /\ p.book.connected = m.book.connected \ {a}
        /\ m.book.bans \subseteq p.book.bans /\ p.book.ranged \subseteq m.book.ranged
        /\ Fine(m.book) => Fine(p.book)
        /\ p.inv = m.inv \ {a}
        /\ \A x \in Addr \ {a} : Pending(m, x) => Pending(p, x)
    <2>1. \A x : Pending(k, x) => Pending(p, x)
      BY <1>4 DEF Pending
    <2>2. /\ k.book = m.book /\ k.inv = m.inv
          /\ \A x \in Addr \ {a} : Pending(m, x) => Pending(k, x)
      BY DEF LessPending
    <2> QED
      BY <1>3, <1>4, <2>1, <2>2
  <1>7. /\ ~is_connected(p, a) /\ p.state[a] = "none" /\ p.pings[a] = "none"
        /\ \A x \in Addr \ {a} : /\ p.state[x] = m.state[x] /\ p.pings[x] = m.pings[x]
                                 /\ p.link[x] = m.link[x]
                                 /\ is_connected(p, x) <=> is_connected(m, x)
    <2>1. k.state = m.state /\ k.pings = m.pings /\ k.link = m.link
      BY DEF LessPending
    <2>2. p.state[a] = "none" /\ \A x \in Addr \ {a} : p.state[x] = m.state[x]
      <3>1. m.state \in [Addr -> PeerState] /\ p.state = [m.state EXCEPT ![a] = "none"]
        BY <1>4, <2>1, Tables
      <3> QED
        BY <3>1
    <2>3. p.pings[a] = "none" /\ \A x \in Addr \ {a} : p.pings[x] = m.pings[x]
      <3>1. /\ m.pings \in [Addr -> {"none", "idle", "awaiting"}]
            /\ p.pings = [m.pings EXCEPT ![a] = "none"]
        BY <1>4, <2>1, Tables
      <3> QED
        BY <3>1
    <2>4. \A x \in Addr \ {a} : p.link[x] = m.link[x]
      <3>1. m.link \in [Addr -> Link] /\ p.link = [m.link EXCEPT ![a] = "inbound"]
        BY <1>4, <2>1, Tables
      <3> QED
        BY <3>1
    <2> QED
      BY <2>2, <2>3, <2>4 DEF is_connected
  <1>9. Lasting(m, p)
    BY <1>6, <1>7 DEF Lasting, is_banned
  <1>10. ASSUME NEW x \in Addr
         PROVE  At(p, inb \ {a}, sock2, conn2, x)
    <2>1. At(m, inb, sock, conn, x)
      BY DEF Kept
    <2>2. CASE x = a
      BY <1>6, <1>7, <2>1, <2>2 DEF At
    <2>3. CASE x # a
      BY <1>6, <1>7, <2>1, <2>3 DEF At
    <2> QED
      BY <2>2, <2>3
  <1>11. InboundKept(p)
    <2>1. Inbound(p) \subseteq Inbound(m)
      BY <1>6, <1>7 DEF Inbound, ConnectedPeers
    <2> QED
      BY <2>1, FewerInbound DEF Kept
  <1>12. Fine(p.book)
    BY <1>6 DEF Kept
  <1>13. Kept(p, inb \ {a}, sock2, conn2)
    BY <1>10, <1>11, <1>12 DEF Kept
  <1> QED
    BY <1>5, <1>9, <1>13, QuietKept, LastingThen

(* What a message of the handshake does to a peer that is connected.       *)
Advances(m, n, a) ==
  /\ n \in Machine
  /\ Noted(m.book, n.book)
  /\ n.link = m.link /\ n.outbox = m.outbox
  /\ is_connected(n, a)
  /\ \A x \in Addr \ {a} : n.state[x] = m.state[x] /\ n.pings[x] = m.pings[x]
  /\ \/ n.state[a] # "verack" /\ n.pings = m.pings /\ n.inv = m.inv
     \/ n.pings[a] # "none" /\ n.inv = m.inv \cup {a}

(* The ping and the inventory manager learn of a negotiated peer together. *)
LEMMA AdvancesKept ==
  ASSUME NEW m \in Machine, NEW n, NEW a \in Addr, is_connected(m, a), Advances(m, n, a),
         NEW inb, NEW sock, NEW conn, Kept(m, inb, sock, conn)
  PROVE  Kept(n, inb, sock, conn) /\ Lasting(m, n)
  <1>1. /\ n.book.connected = m.book.connected /\ n.book.ranged = m.book.ranged
        /\ n.book.bans = m.book.bans /\ DOMAIN n.book.peers = DOMAIN m.book.peers
        /\ n.link = m.link /\ n.outbox = m.outbox
    BY DEF Advances, Noted
  <1>2. \A x \in Addr : is_connected(n, x) <=> is_connected(m, x)
    BY DEF Advances, is_connected
  <1>3. \A x \in Addr : Pending(n, x) <=> Pending(m, x)
    BY <1>1 DEF Pending
  <1>4. Lasting(m, n)
    BY <1>1, <1>2 DEF Lasting, is_banned
  <1>5. ASSUME NEW x \in Addr
        PROVE  At(n, inb, sock, conn, x)
    <2>1. At(m, inb, sock, conn, x)
      BY DEF Kept
    <2>2. CASE x = a
      BY <1>1, <1>2, <1>3, <2>1, <2>2 DEF At, Advances
    <2>3. CASE x # a
      BY <1>1, <1>2, <1>3, <2>1, <2>3 DEF At, Advances
    <2> QED
      BY <2>2, <2>3
  <1>6. InboundKept(n)
    <2>1. Inbound(n) \subseteq Inbound(m)
      BY <1>1, <1>2, <1>3 DEF Inbound, ConnectedPeers
    <2> QED
      BY <2>1, FewerInbound DEF Kept
  <1>7. Fine(n.book)
    BY NotedFine DEF Kept, Advances
  <1> QED
    BY <1>4, <1>5, <1>6, <1>7 DEF Kept

(* A version message either has the peer disconnected or advances it.      *)
LEMMA VersionAdvances ==
  ASSUME NEW m \in Machine, NEW a \in Addr, NEW v \in VersionMsg
  PROVE  LET n == received_version(m, a, v)
         IN  \/ n \in Machine /\ Quiet(m, n)
             \/ Advances(m, n, a)
  <1> DEFINE n == received_version(m, a, v)
             book == record_local_address(m.book, v.receiver)
             k == [m EXCEPT !.book = book, !.state[a] = "version", !.nonce[a] = v.nonce]
  <1>1. n = Disconnect(m, a, TRUE) \/ n = Disconnect(m, a, FALSE) \/ n = k
    BY DEF received_version
  <1>2. v.receiver \in Own /\ v.nonce \in Nonce
    BY P2PNodeAssumption
  <1>3. Noted(m.book, book) /\ book \in Book
    BY <1>2, NotedBook DEF Machine, Noted
  <1> HIDE DEF book, n
  <1>4. /\ k \in Machine /\ k.book = book /\ k.link = m.link /\ k.outbox = m.outbox
        /\ k.pings = m.pings /\ k.inv = m.inv /\ k.state = [m.state EXCEPT ![a] = "version"]
    BY <1>2, <1>3 DEF Machine, PeerState
  <1> HIDE DEF k
  <1>5. /\ k.state[a] = "version"
        /\ \A x \in Addr \ {a} : k.state[x] = m.state[x]
    <2>1. m.state \in [Addr -> PeerState] /\ k.state = [m.state EXCEPT ![a] = "version"]
      BY <1>4, Tables
    <2> QED
      BY <2>1
  <1>6. Advances(m, k, a)
    BY <1>3, <1>4, <1>5 DEF Advances, is_connected
  <1> QED
    BY <1>1, <1>6, DisconnectQuiet DEF n

(* So do the other messages of the handshake, or they change nothing.      *)
LEMMA HandshakeAdvances ==
  ASSUME NEW m \in Machine, NEW a \in Addr, NEW n,
         n = received_relay(m, a) \/ n = received_ltxidack(m, a) \/ n = received_verack(m, a)
  PROVE  \/ n \in Machine /\ Quiet(m, n)
         \/ Advances(m, n, a)
  <1>1. CASE n = received_relay(m, a)
    BY <1>1, disconnectQuiet, QuietSelf DEF received_relay
  <1>2. CASE n = received_ltxidack(m, a)
    <2> DEFINE k == [m EXCEPT !.state[a] = "ltxidack"]
    <2>1. n = m \/ n = Disconnect(m, a, TRUE) \/ n = k
      BY <1>2 DEF received_ltxidack
    <2>2. /\ k \in Machine /\ k.book = m.book /\ k.link = m.link /\ k.outbox = m.outbox
          /\ k.pings = m.pings /\ k.inv = m.inv /\ k.state = [m.state EXCEPT ![a] = "ltxidack"]
      BY DEF Machine, PeerState
    <2> HIDE DEF k
    <2>3. /\ k.state[a] = "ltxidack"
          /\ \A x \in Addr \ {a} : k.state[x] = m.state[x]
      BY ZenonT(30), <2>2 DEF Machine
    <2>4. Noted(m.book, k.book)
      BY <2>2 DEF Noted, Machine
    <2>5. Advances(m, k, a)
      BY <2>2, <2>3, <2>4 DEF Advances, is_connected
    <2> QED
      BY <2>1, <2>5, DisconnectQuiet, QuietSelf
  <1>3. CASE n = received_verack(m, a)
    <2> DEFINE book == BookNegotiated(m.book, a)
               k == [m EXCEPT !.state[a] = "verack", !.book = book,
                              !.pings[a] = "awaiting", !.inv = m.inv \cup {a}]
    <2>1. n = m \/ n = Disconnect(m, a, TRUE) \/ n = k
      BY <1>3 DEF received_verack
    <2>2. Noted(m.book, book) /\ book \in Book
      <3>1. m.book \in Book
        BY DEF Machine
      <3> QED
        BY <3>1, NotedBook DEF Noted
    <2> HIDE DEF book
    <2>3. /\ k \in Machine /\ k.book = book /\ k.link = m.link /\ k.outbox = m.outbox
          /\ k.pings = [m.pings EXCEPT ![a] = "awaiting"] /\ k.inv = m.inv \cup {a}
          /\ k.state = [m.state EXCEPT ![a] = "verack"]
      BY <2>2 DEF Machine, PeerState
    <2> HIDE DEF k
    <2>4. /\ k.state[a] = "verack" /\ k.pings[a] = "awaiting"
          /\ \A x \in Addr \ {a} : k.state[x] = m.state[x] /\ k.pings[x] = m.pings[x]
      BY SMT, <2>3 DEF Machine
    <2>5. Advances(m, k, a)
      BY <2>2, <2>3, <2>4 DEF Advances, is_connected
    <2> QED
      BY <2>1, <2>5, DisconnectQuiet, QuietSelf
  <1> QED
    BY <1>1, <1>2, <1>3

(* A pong changes how a ping is awaited, and nothing between the tables.   *)
LEMMA PongQuiet ==
  ASSUME NEW m \in Machine, NEW a \in Addr
  PROVE  received_pong(m, a) \in Machine /\ Quiet(m, received_pong(m, a))
  <1> DEFINE k == [m EXCEPT !.pings[a] = "idle"]
  <1>1. CASE m.pings[a] = "awaiting"
    <2>1. received_pong(m, a) = k
      BY <1>1 DEF received_pong
    <2>2. /\ k \in Machine /\ k.book = m.book /\ k.link = m.link /\ k.outbox = m.outbox
          /\ k.pings = [m.pings EXCEPT ![a] = "idle"] /\ k.inv = m.inv /\ k.state = m.state
      BY DEF Machine
    <2> HIDE DEF k
    <2>3. \A x \in Addr : k.pings[x] = "none" <=> m.pings[x] = "none"
      BY ZenonT(30), <1>1, <2>2 DEF Machine
    <2> QED
      BY <2>1, <2>2, <2>3 DEF Quiet, Pending
  <1>2. CASE m.pings[a] # "awaiting"
    BY <1>2, QuietSelf DEF received_pong
  <1> QED
    BY <1>1, <1>2

(* Another book with the same connections, and ranges that are fine.       *)
LEMMA BookKept ==
  ASSUME NEW m \in Machine, NEW b \in Book, b.connected = m.book.connected,
         m.book.bans \subseteq b.bans,
         \A x \in Addr : is_banned(m.book, x) /\ x \notin m.book.ranged => x \notin b.ranged,
         NEW inb, NEW sock, NEW conn, Kept(m, inb, sock, conn),
         Fine(b)
  PROVE  LET n == [m EXCEPT !.book = b]
         IN  n \in Machine /\ Kept(n, inb, sock, conn) /\ Lasting(m, n)
  <1> DEFINE n == [m EXCEPT !.book = b]
  <1>1. /\ n \in Machine /\ n.book = b /\ n.state = m.state /\ n.link = m.link
        /\ n.pings = m.pings /\ n.inv = m.inv /\ n.outbox = m.outbox
    BY DEF Machine
  <1> HIDE DEF n
  <1>2. \A x \in Addr : /\ is_connected(n, x) <=> is_connected(m, x)
                        /\ Pending(n, x) <=> Pending(m, x)
    BY <1>1 DEF is_connected, Pending
  <1>3. Lasting(m, n)
    BY <1>1, <1>2 DEF Lasting, is_banned
  <1>4. \A x \in Addr : At(n, inb, sock, conn, x)
    BY <1>1, <1>2 DEF At, Kept
  <1>5. InboundKept(n)
    <2>1. Inbound(n) \subseteq Inbound(m)
      BY <1>1, <1>2 DEF Inbound, ConnectedPeers
    <2> QED
      BY <2>1, FewerInbound DEF Kept
  <1>6. Fine(n.book)
    BY <1>1
  <1> QED
    BY <1>1, <1>3, <1>4, <1>5, <1>6 DEF Kept, n

(* An address that the peers tell of.                                      *)
LEMMA GossipKept ==
  ASSUME NEW m \in Machine, NEW a \in Gossip, NEW n \in received_addr(m, a),
         NEW inb, NEW sock, NEW conn, Kept(m, inb, sock, conn)
  PROVE  n \in Machine /\ Kept(n, inb, sock, conn) /\ Lasting(m, n)
  <1>1. PICK b \in insert(m.book, a) : n = [m EXCEPT !.book = b]
    BY DEF received_addr
  <1>2. m.book \in Book /\ a \in Addr
    BY P2PNodeAssumption DEF Machine
  <1>3. /\ Widened(m.book, b, a) /\ b.connected = m.book.connected
        /\ is_banned(m.book, a) => b = m.book
        /\ Fine(m.book) => Fine(b)
    BY <1>2, InsertBook
  <1>4. \A x \in Addr : is_banned(m.book, x) /\ x \notin m.book.ranged => x \notin b.ranged
    BY <1>3 DEF Widened
  <1>5. Fine(b)
    BY <1>3 DEF Kept
  <1>6. b \in Book /\ m.book.bans \subseteq b.bans
    BY <1>3 DEF Widened
  <1> QED
    BY <1>1, <1>3, <1>4, <1>5, <1>6, BookKept

(* BanPeer: the address manager forgets the peer at once, and the others   *)
(* when its disconnection is processed.                                    *)
LEMMA BanKept ==
  ASSUME NEW m \in Machine, NEW a \in Addr,
         NEW inb, NEW sock, NEW conn, Kept(m, inb, sock, conn)
  PROVE  LET n == BanPeer(m, a)
         IN  n \in Machine /\ Kept(n, inb, sock, conn) /\ Lasting(m, n)
  <1> DEFINE b == BookDisconnected(m.book, a, TRUE)
             k == [m EXCEPT !.book = b]
             n == disconnect(k, a, TRUE)
  <1>1. BanPeer(m, a) = n
    BY DEF BanPeer
  <1>2. /\ b \in Book /\ b.connected = m.book.connected \ {a}
        /\ m.book.bans \subseteq b.bans /\ b.ranged \subseteq m.book.ranged
        /\ Fine(m.book) => Fine(b)
    BY DisconnectedBook DEF Machine
  <1> HIDE DEF b
  <1>3. /\ k \in Machine /\ k.book = b /\ k.state = m.state /\ k.link = m.link
        /\ k.pings = m.pings /\ k.inv = m.inv /\ k.outbox = m.outbox
    BY <1>2 DEF Machine
  <1> HIDE DEF k
  <1>4. n \in Machine /\ Quiet(k, n) /\ (is_connected(k, a) => Pending(n, a))
    BY ZenonT(40), <1>3, disconnectQuiet
  <1> HIDE DEF n
  <1>5. \A x \in Addr : /\ is_connected(n, x) <=> is_connected(m, x)
                        /\ n.state[x] = "verack" <=> m.state[x] = "verack"
    <2>1. \A x \in Addr : /\ is_connected(n, x) <=> is_connected(k, x)
                          /\ n.state[x] = "verack" <=> k.state[x] = "verack"
      BY <1>4, QuietConnected
    <2> QED
      BY <1>3, <2>1 DEF is_connected
  <1>6. /\ n.book = b /\ n.link = m.link /\ n.inv = m.inv
        /\ \A x \in Addr : n.pings[x] = "none" <=> m.pings[x] = "none"
        /\ \A x \in Addr : Pending(m, x) => Pending(n, x)
        /\ is_connected(n, a) => Pending(n, a)
    <2>1. \A x : Pending(m, x) => Pending(k, x)
      BY <1>3 DEF Pending
    <2>2. is_connected(n, a) => is_connected(k, a)
      BY <1>3, <1>5 DEF is_connected
    <2> QED
      BY <1>3, <1>4, <2>1, <2>2 DEF Quiet
  <1>7. Lasting(m, n)
    BY <1>2, <1>5, <1>6 DEF Lasting, is_banned
  <1>8. ASSUME NEW x \in Addr
        PROVE  At(n, inb, sock, conn, x)
    <2>1. At(m, inb, sock, conn, x)
      BY DEF Kept
    <2>2. CASE x = a
      BY <1>2, <1>5, <1>6, <2>1, <2>2 DEF At
    <2>3. CASE x # a
      BY <1>2, <1>5, <1>6, <2>1, <2>3 DEF At
    <2> QED
      BY <2>2, <2>3
  <1>9. InboundKept(n)
    <2>1. Inbound(n) \subseteq Inbound(m)
      BY ZenonT(40), <1>5, <1>6 DEF Inbound, ConnectedPeers
    <2> QED
      BY <2>1, FewerInbound DEF Kept
  <1>10. Fine(n.book)
    BY <1>2, <1>6 DEF Kept
  <1> QED
    BY <1>1, <1>4, <1>7, <1>8, <1>9, <1>10 DEF Kept

(* Dialling: the socket is there before it is waited for.                  *)
LEMMA DialKept ==
  ASSUME NEW m \in Machine, m.outbox # << >>, Head(m.outbox).io = "connect",
         NEW inb, NEW sock \in [Addr -> {"none", "inbound", "outbound"}], NEW conn,
         Kept(m, inb, sock, conn)
  PROVE  LET a == Head(m.outbox).addr
             n == attempted([m EXCEPT !.outbox = Tail(@)], a)
         IN  /\ n \in Machine /\ Lasting(m, n)
             /\ Kept(n, inb, [sock EXCEPT ![a] = "outbound"], conn \cup {a})
  <1> DEFINE a == Head(m.outbox).addr
             k == [m EXCEPT !.outbox = Tail(@)]
             b == BookAttempted(k.book, a)
             n == [k EXCEPT !.book = b]
             sock2 == [sock EXCEPT ![a] = "outbound"]
             conn2 == conn \cup {a}
  <1>1. /\ k \in Machine
        /\ k.book = m.book /\ k.link = m.link /\ k.inv = m.inv
        /\ k.state = m.state /\ k.pings = m.pings
        /\ Head(m.outbox) \in Output
        /\ \A x \in Addr : Pending(m, x) => Pending(k, x)
    BY Pops
  <1>2. a \in Addr
    BY <1>1 DEF Output
  <1>3. attempted(k, a) = n
    BY DEF attempted
  <1> HIDE DEF k, a
  <1>4. Noted(k.book, b) /\ b \in Book
    <2>1. k.book \in Book
      BY <1>1, Tables
    <2>2. Noted(k.book, b)
      BY <1>2, <2>1, NotedBook
    <2> QED
      BY <2>2 DEF Noted
  <1> HIDE DEF b
  <1>5. /\ n \in Machine /\ n.book = b /\ n.link = m.link /\ n.inv = m.inv
        /\ n.state = m.state /\ n.pings = m.pings /\ n.outbox = k.outbox
    BY <1>1, <1>4 DEF Machine
  <1> HIDE DEF n
  <1>6. /\ b.connected = m.book.connected /\ b.ranged = m.book.ranged /\ b.bans = m.book.bans
        /\ Fine(m.book) => Fine(b)
        /\ \A x \in Addr : Pending(m, x) => Pending(n, x)
        /\ \A x \in Addr : is_connected(n, x) <=> is_connected(m, x)
    <2>1. \A x : Pending(k, x) => Pending(n, x)
      BY <1>5 DEF Pending
    <2>2. \A x \in Addr : is_connected(n, x) <=> is_connected(m, x)
      BY <1>5 DEF is_connected
    <2> QED
      BY <1>1, <1>4, <2>1, <2>2, NotedFine DEF Noted
  <1>7. Lasting(m, n)
    BY <1>5, <1>6 DEF Lasting, is_banned
  <1>8. sock2[a] = "outbound" /\ \A x \in Addr \ {a} : sock2[x] = sock[x]
    BY <1>2
  <1> HIDE DEF sock2
  <1>9. ASSUME NEW x \in Addr
        PROVE  At(n, inb, sock2, conn2, x)
    <2>1. At(m, inb, sock, conn, x)
      BY DEF Kept
    <2>2. CASE x = a
      BY <1>5, <1>6, <1>8, <2>1, <2>2 DEF At
    <2>3. CASE x # a
      BY <1>5, <1>6, <1>8, <2>1, <2>3 DEF At
    <2> QED
      BY <2>2, <2>3
  <1>10. InboundKept(n)
    <2>1. Inbound(n) \subseteq Inbound(m)
      BY <1>5, <1>6 DEF Inbound, ConnectedPeers
    <2> QED
      BY <2>1, FewerInbound DEF Kept
  <1>11. Fine(n.book)
    BY <1>5, <1>6 DEF Kept
  <1>12. Kept(n, inb, sock2, conn2)
    BY <1>9, <1>10, <1>11 DEF Kept
  <1> QED
    BY <1>3, <1>5, <1>7, <1>12 DEF k, a, sock2

-----------------------------------------------------------------------------
(* The step.                                                               *)

(* What a message from a peer does.                                        *)
LEMMA HandledKept ==
  ASSUME machine \in Machine, NEW a \in Addr, NEW msg \in Message, is_connected(machine, a),
         NEW n \in Handled(a, msg),
         NEW inb, NEW sock, NEW conn, Kept(machine, inb, sock, conn)
  PROVE  n \in Machine /\ Kept(n, inb, sock, conn) /\ Lasting(machine, n)
  <1>1. ASSUME Quiet(machine, n), n \in Machine
        PROVE  Kept(n, inb, sock, conn) /\ Lasting(machine, n)
    BY <1>1, QuietKept
  <1>2. ASSUME Advances(machine, n, a)
        PROVE  n \in Machine /\ Kept(n, inb, sock, conn) /\ Lasting(machine, n)
    BY <1>2, AdvancesKept DEF Advances
  <1>3. \/ msg \in VersionMsg /\ msg.type = "version"
        \/ msg.type \in {"relay", "ltxidack", "verack", "pong", "bad"}
        \/ msg.type = "addr" /\ msg.addr \in Gossip
    BY SMT, P2PNodeAssumption DEF Message
  <1>4. CASE msg \in VersionMsg /\ msg.type = "version"
    <2>1. n = received_version(machine, a, msg)
      BY <1>4 DEF Handled
    <2> QED
      BY <1>1, <1>2, <1>4, <2>1, VersionAdvances
  <1>5. CASE msg.type \in {"relay", "ltxidack", "verack"}
    <2>1. \/ n = received_relay(machine, a) \/ n = received_ltxidack(machine, a)
          \/ n = received_verack(machine, a)
      BY <1>5 DEF Handled
    <2> QED
      BY <1>1, <1>2, <2>1, HandshakeAdvances
  <1>6. CASE msg.type = "pong"
    <2>1. n = received_pong(machine, a)
      BY <1>6 DEF Handled
    <2> QED
      BY <1>1, <2>1, PongQuiet
  <1>7. CASE msg.type = "bad"
    <2>1. n = disconnect(machine, a, TRUE)
      BY <1>7 DEF Handled
    <2> QED
      BY <1>1, <2>1, disconnectQuiet
  <1>8. CASE msg.type = "addr" /\ msg.addr \in Gossip
    <2>1. n \in received_addr(machine, msg.addr)
      BY <1>8 DEF Handled
    <2> QED
      BY <1>8, <2>1, GossipKept
  <1> QED
    BY <1>3, <1>4, <1>5, <1>6, <1>7, <1>8

(* What a command does.                                                    *)
LEMMA ExecuteKept ==
  ASSUME machine \in Machine, NEW c \in Command, Execute(c),
         NEW inb, NEW sock, NEW conn, Kept(machine, inb, sock, conn)
  PROVE  machine' \in Machine /\ Kept(machine', inb, sock, conn) /\ Lasting(machine, machine')
  <1>1. c.cmd \in {"ban", "connect", "disconnect"} => c.addr \in Addr
    BY P2PNodeAssumption
  <1>2. CASE c.cmd = "ban"
    <2>1. machine' = BanPeer(machine, c.addr)
      BY <1>2 DEF Execute
    <2> QED
      BY <1>1, <1>2, <2>1, BanKept
  <1>3. CASE c.cmd = "connect"
    <2>1. machine' \in ConnectCommand(machine, c.addr)
      BY <1>3 DEF Execute
    <2> DEFINE D == {c.addr}
               host == [x \in D |-> NoHost]
    <2>2. machine' \in ConnectAll(machine, host)
      BY <2>1 DEF ConnectCommand
    <2>3. D \in SUBSET Addr /\ host \in [D -> Host \cup {NoHost}]
      BY <1>1, <1>3
    <2> HIDE DEF D, host
    <2>5. machine' \in Machine /\ Quiet(machine, machine')
      BY <2>2, <2>3, ConnectAllQuiet
    <2> QED
      BY <2>5, QuietKept
  <1>4. CASE c.cmd = "disconnect"
    <2>1. machine' = disconnect(machine, c.addr, TRUE)
      BY <1>4 DEF Execute
    <2>2. machine' \in Machine /\ Quiet(machine, machine')
      BY <1>1, <1>4, <2>1, disconnectQuiet
    <2> QED
      BY <2>2, QuietKept
  <1>5. CASE c.cmd \notin {"ban", "connect", "disconnect"}
    <2>1. machine' = machine
      BY <1>5 DEF Execute
    <2> QED
      BY <2>1, QuietSelf, QuietKept
  <1> QED
    BY <1>2, <1>3, <1>4, <1>5

(* One step of the node keeps the invariant and every ban.                 *)
LEMMA PeersStep ==
  ASSUME PeersInv, [Next]_vars
  PROVE  PeersInv' /\ Lasting(machine, machine')
  <1> DEFINE Good == /\ machine' \in Machine /\ inboxes' \in SUBSET Addr
                     /\ connecting' \in SUBSET Addr
                     /\ socket' \in [Addr -> {"none", "inbound", "outbound"}]
                     /\ commands' \in Seq(Command) /\ unsent' \in SUBSET Command
                     /\ Kept(machine', inboxes', socket', connecting')
                     /\ Lasting(machine, machine')
  <1>1. /\ machine \in Machine /\ inboxes \in SUBSET Addr /\ connecting \in SUBSET Addr
        /\ socket \in [Addr -> {"none", "inbound", "outbound"}]
        /\ commands \in Seq(Command) /\ unsent \in SUBSET Command
        /\ Kept(machine, inboxes, socket, connecting)
    BY DEF PeersInv, ReactorTyped
  <1>2. SUFFICES Good
    BY DEF PeersInv, ReactorTyped
  <1>3. Lasting(machine, machine)
    BY DEF Lasting
  <1>4. commands # << >> => Head(commands) \in Command /\ Tail(commands) \in Seq(Command)
    BY SMT, <1>1
  <1>5. ASSUME NEW c \in Command, Send(c)
        PROVE  Good
    <2>1. Append(commands, c) \in Seq(Command)
      BY SMT, <1>1
    <2> QED
      BY <1>1, <1>3, <1>5, <2>1 DEF Send, reactorVars
  <1>6. CASE Wake \/ NoTimer \/ Processed \/ UNCHANGED vars
    BY <1>1, <1>3, <1>6 DEF Wake, NoTimer, Processed, vars, reactorVars, handleVars
  <1>7. CASE Start
    <2>1. CASE machine' \in initialize(machine)
      <3>1. machine' \in Machine /\ Quiet(machine, machine')
        BY <1>1, <2>1, HostsQuiet
      <3>2. Kept(machine', inboxes, socket, connecting) /\ Lasting(machine, machine')
        BY <1>1, <3>1, QuietKept
      <3> QED
        BY <1>1, <1>4, <1>7, <3>1, <3>2 DEF Start, reactorVars
    <2>2. CASE machine' = machine
      BY <1>1, <1>3, <1>4, <1>7, <2>2 DEF Start, reactorVars
    <2> QED
      BY <1>7, <2>1, <2>2 DEF Start
  <1>8. ASSUME NEW a \in Addr, NEW l \in Own, Accept(a, l)
        PROVE  Good
    <2>1. /\ a \notin Own /\ socket' = [socket EXCEPT ![a] = "inbound"]
          /\ Connected(a, l, "inbound") /\ UNCHANGED <<connecting, commands, unsent>>
      BY <1>8 DEF Accept, handleVars
    <2>2. /\ socket' \in [Addr -> {"none", "inbound", "outbound"}] /\ socket'[a] # "none"
          /\ \A x \in Addr \ {a} : socket'[x] = socket[x]
      BY <1>1, <2>1
    <2>3. CASE is_banned(machine.book, a)
      <3>1. UNCHANGED <<machine, inboxes>>
        BY <2>1, <2>3 DEF Connected
      <3>2. \A x \in Addr : At(machine, inboxes, socket', connecting, x)
        BY <1>1, <2>2 DEF Kept, At
      <3>3. Kept(machine, inboxes, socket', connecting)
        BY <1>1, <3>2 DEF Kept
      <3> QED
        BY <1>1, <1>3, <2>1, <2>2, <3>1, <3>3
    <2>4. CASE ~is_banned(machine.book, a)
      <3>1. machine' \in connected(machine, a, l, "inbound") /\ inboxes' = inboxes \cup {a}
        BY <2>1, <2>4 DEF Connected
      <3>2. "inbound" \in Link
        BY DEF Link
      <3>3. /\ machine' \in Machine /\ Kept(machine', inboxes \cup {a}, socket', connecting)
            /\ Lasting(machine, machine')
        <4>1. connecting \subseteq connecting
          OBVIOUS
        <4> QED
          BY <1>1, <2>2, <2>4, <3>1, <3>2, <4>1, ConnectedKept
      <3> QED
        BY <1>1, <2>1, <2>2, <3>1, <3>3
    <2> QED
      BY <2>3, <2>4
  <1>9. ASSUME NEW a \in Addr, NEW l \in Own, Writable(a, l)
        PROVE  Good
    <2>1. /\ a \in connecting /\ connecting' = connecting \ {a}
          /\ Connected(a, l, socket[a]) /\ UNCHANGED <<socket, commands, unsent>>
      BY <1>9 DEF Writable, handleVars
    <2>2. socket[a] # "none" /\ socket[a] \in Link
      BY <1>1, <2>1 DEF Kept, At, Link
    <2>3. CASE is_banned(machine.book, a)
      <3>1. UNCHANGED <<machine, inboxes>>
        BY <2>1, <2>3 DEF Connected
      <3>2. \A x \in Addr : At(machine, inboxes, socket, connecting \ {a}, x)
        BY <1>1 DEF Kept, At
      <3>3. Kept(machine, inboxes, socket, connecting \ {a})
        BY <1>1, <3>2 DEF Kept
      <3> QED
        BY <1>1, <1>3, <2>1, <3>1, <3>3
    <2>4. CASE ~is_banned(machine.book, a)
      <3>1. machine' \in connected(machine, a, l, socket[a]) /\ inboxes' = inboxes \cup {a}
        BY <2>1, <2>4 DEF Connected
      <3>3. connecting \ {a} \subseteq connecting /\ \A x \in Addr \ {a} : socket[x] = socket[x]
        OBVIOUS
      <3>4. /\ machine' \in Machine
            /\ Kept(machine', inboxes \cup {a}, socket, connecting \ {a})
            /\ Lasting(machine, machine')
        BY <1>1, <2>2, <2>4, <3>1, <3>3, ConnectedKept
      <3> QED
        BY <1>1, <2>1, <3>1, <3>4
    <2> QED
      BY <2>3, <2>4
  <1>10. ASSUME NEW a \in Addr, Eof(a)
         PROVE  Good
    <2>1. /\ socket' = [socket EXCEPT ![a] = "none"] /\ connecting' = connecting \ {a}
          /\ machine' \in disconnected(machine, a, FALSE) /\ inboxes' = inboxes \ {a}
          /\ UNCHANGED <<commands, unsent>>
      BY <1>10 DEF Eof, Unregister, Disconnected, handleVars
    <2>2. /\ socket' \in [Addr -> {"none", "inbound", "outbound"}]
          /\ \A x \in Addr \ {a} : socket'[x] = socket[x]
          /\ connecting \ {a} \subseteq connecting /\ a \notin connecting \ {a}
      BY <1>1, <2>1
    <2>3. LessPending(machine, machine, a)
      BY <1>1 DEF LessPending
    <2>4. /\ machine' \in Machine /\ Kept(machine', inboxes \ {a}, socket', connecting \ {a})
          /\ Lasting(machine, machine')
      BY ZenonT(40), <1>1, <2>1, <2>2, <2>3, DisconnectedKept
    <2> QED
      BY <1>1, <2>1, <2>2, <2>4
  <1>11. ASSUME NEW a \in Addr, NEW msg \in Message, Receive(a, msg)
         PROVE  Good
    <2>1. /\ is_connected(machine, a) /\ machine' \in Handled(a, msg)
          /\ UNCHANGED <<socket, connecting, inboxes, commands, unsent>>
      BY <1>11 DEF Receive, reactorVars, handleVars
    <2>2. /\ machine' \in Machine /\ Kept(machine', inboxes, socket, connecting)
          /\ Lasting(machine, machine')
      BY <1>1, <2>1, HandledKept
    <2> QED
      BY <1>1, <2>1, <2>2
  <1>12. CASE Woken \/ Unblocked
    <2>1. UNCHANGED <<socket, connecting, inboxes, unsent>>
      BY <1>12 DEF Woken, Unblocked, reactorVars
    <2>2. CASE UNCHANGED <<machine, commands>>
      BY <1>1, <1>3, <2>1, <2>2
    <2>3. CASE commands # << >> /\ Execute(Head(commands)) /\ commands' = Tail(commands)
      <3>1. /\ machine' \in Machine /\ Kept(machine', inboxes, socket, connecting)
            /\ Lasting(machine, machine')
        BY <1>1, <1>4, <2>3, ExecuteKept
      <3> QED
        BY <1>1, <1>4, <2>1, <2>3, <3>1
    <2> QED
      BY <1>12, <2>2, <2>3 DEF Woken, Unblocked
  <1>13. CASE Timer
    <2>1. PICK expired \in SUBSET Addr, due \in SUBSET Host, idle \in BOOLEAN :
            machine' \in timer_expired(machine, expired, due, idle)
      BY <1>13 DEF Timer
    <2>2. machine' \in Machine /\ Quiet(machine, machine')
      BY <1>1, <2>1, TimerQuiet
    <2>3. Kept(machine', inboxes, socket, connecting) /\ Lasting(machine, machine')
      BY <1>1, <2>2, QuietKept
    <2> QED
      BY <1>1, <1>13, <2>2, <2>3 DEF Timer, reactorVars, handleVars
  <1>14. CASE Process
    <2> DEFINE out == Head(machine.outbox)
               a == out.addr
    <2>1. machine.outbox # << >> /\ UNCHANGED <<commands, unsent>>
      BY <1>14 DEF Process, handleVars
    <2>2. /\ Popped \in Machine /\ out \in Output
          /\ Popped.book = machine.book /\ Popped.link = machine.link
          /\ Popped.inv = machine.inv /\ Popped.state = machine.state
          /\ Popped.pings = machine.pings
          /\ \A x \in Addr : Pending(machine, x) =>
               \/ Pending(Popped, x)
               \/ out.io = "disconnect" /\ out.addr = x
      BY <1>1, <2>1, Pops DEF Popped
    <2>3. a \in Addr /\ out.isFinal \in BOOLEAN
      BY <2>2 DEF Output
    <2>4. LessPending(machine, Popped, a)
      BY <2>2 DEF LessPending
    <2>5. CASE out.io = "connect" /\ Dial(a)
      <3>1. /\ machine' \in Machine /\ Lasting(machine, machine')
            /\ Kept(machine', inboxes, [socket EXCEPT ![a] = "outbound"], connecting \cup {a})
        BY <1>1, <2>1, <2>5, DialKept DEF Dial, Popped
      <3> QED
        BY <1>1, <2>1, <2>3, <2>5, <3>1 DEF Dial
    <2>8. CASE out.io = "connect" /\ DialIgnored
      <3>1. machine' = Popped /\ UNCHANGED <<socket, connecting, inboxes>>
        BY <2>8 DEF DialIgnored, reactorVars
      <3>2. \A x \in Addr : Pending(machine, x) => Pending(Popped, x)
        BY <2>2, <2>8
      <3>3. Quiet(machine, Popped)
        BY <2>2, <3>2 DEF Quiet
      <3>4. Kept(Popped, inboxes, socket, connecting) /\ Lasting(machine, Popped)
        BY <1>1, <3>3, QuietKept
      <3> QED
        BY <1>1, <2>1, <2>2, <3>1, <3>4
    <2>6. CASE out.io = "connect" /\ DialError(a)
      <3>1. /\ machine' \in disconnected(Popped, a, TRUE) /\ inboxes' = inboxes \ {a}
            /\ UNCHANGED <<socket, connecting>>
        BY <2>6 DEF DialError
      <3> HIDE DEF a, out
      <3>2. /\ machine' \in Machine /\ Kept(machine', inboxes \ {a}, socket, connecting)
            /\ Lasting(machine, machine')
        <4>1. /\ \A x \in Addr \ {a} : socket[x] = socket[x]
              /\ connecting \subseteq connecting /\ (a \in connecting => socket[a] = socket[a])
              /\ TRUE \in BOOLEAN
          OBVIOUS
        <4> QED
          BY <1>1, <2>3, <2>4, <3>1, <4>1, DisconnectedKept
      <3> QED
        BY <1>1, <2>1, <3>1, <3>2
    <2>7. CASE /\ socket' = [socket EXCEPT ![a] = "none"]
               /\ connecting' = connecting \ {a}
               /\ machine' \in disconnected(Popped, a, out.isFinal)
               /\ inboxes' = inboxes \ {a}
      <3> HIDE DEF a, out
      <3>1. /\ socket' \in [Addr -> {"none", "inbound", "outbound"}]
            /\ \A x \in Addr \ {a} : socket'[x] = socket[x]
            /\ connecting \ {a} \subseteq connecting /\ a \notin connecting \ {a}
        BY <1>1, <2>3, <2>7
      <3>2. /\ machine' \in Machine
            /\ Kept(machine', inboxes \ {a}, socket', connecting \ {a})
            /\ Lasting(machine, machine')
        BY ZenonT(30), <1>1, <2>3, <2>4, <2>7, <3>1, DisconnectedKept
      <3> QED
        BY <1>1, <2>1, <2>7, <3>1, <3>2
    <2> QED
      BY <1>14, <2>5, <2>6, <2>7, <2>8 DEF Process
  <1> QED
    BY <1>5, <1>6, <1>7, <1>8, <1>9, <1>10, <1>11, <1>12, <1>13, <1>14 DEF Next

(* At the start nothing is connected.                                      *)
LEMMA PeersInit == Init => PeersInv
  <1> SUFFICES ASSUME Init
               PROVE  PeersInv
    OBVIOUS
  <1>1. PICK P \in SUBSET Host : machine = NewMachine(P)
    BY DEF Init
  <1>2. << >> \in UNION {[D -> KnownAddress] : D \in SUBSET Addr}
    <2>1. << >> \in [{} -> KnownAddress]
      BY SMT
    <2> QED
      BY <2>1
  <1>3. EmptyBook \in Book
    BY ZenonT(40), <1>2 DEF EmptyBook, Book
  <1>4. machine \in Machine
    <2>1. /\ [a \in Addr |-> "none"] \in [Addr -> PeerState]
          /\ [a \in Addr |-> "inbound"] \in [Addr -> Link]
          /\ [a \in Addr |-> NoHost] \in [Addr -> Host \cup {NoHost}]
          /\ [a \in Addr |-> NoNonce] \in [Addr -> Nonce \cup {NoNonce}]
          /\ [h \in Host |-> "none"] \in [Host -> {"none", "scheduled", "fired"}]
          /\ [a \in Addr |-> "none"] \in [Addr -> {"none", "idle", "awaiting"}]
      BY DEF PeerState, Link
    <2>2. << >> \in Seq(Output)
      BY SMT
    <2> QED
      BY <1>1, <1>3, <2>1, <2>2 DEF NewMachine, Machine
  <1>5. /\ machine.book = EmptyBook /\ machine.outbox = << >> /\ machine.inv = {}
        /\ \A a \in Addr : machine.state[a] = "none" /\ machine.pings[a] = "none"
    BY <1>1 DEF NewMachine
  <1>6. ReactorTyped
    BY SMT, <1>4 DEF Init, ReactorTyped
  <1>7. \A a \in Addr : At(machine, inboxes, socket, connecting, a)
    BY SMT, <1>5 DEF At, Init, EmptyBook, is_connected
  <1>8. InboundKept(machine)
    BY <1>5 DEF InboundKept, Inbound, ConnectedPeers, is_connected
  <1>9. Fine(machine.book)
    <2>1. DOMAIN machine.book.peers = {}
      BY SMT, <1>5 DEF EmptyBook
    <2>2. \A x \in Addr : RangeOf(machine.book, x) = {}
      BY SMT, <1>5 DEF RangeOf, EmptyBook
    <2>3. \A x \in Addr : Cardinality(RangeOf(machine.book, x)) = 0
      BY <2>2, FS_EmptySet
    <2>4. 0 <= MAX_RANGE_SIZE
      BY SMT, AddressBookAssumption
    <2> QED
      BY <2>1, <2>3, <2>4 DEF Fine, Sized
  <1> QED
    BY <1>6, <1>7, <1>8, <1>9 DEF PeersInv, Kept

-----------------------------------------------------------------------------
(* What holds of every behaviour.                                          *)

(* The inductive invariant: the managers have their types, the address     *)
(* book and the peer manager agree on who is connected, the limit of       *)
(* inbound peers is kept between two handlers, and every address of the    *)
(* store is in its range.                                                  *)
THEOREM PeersInvariant == Spec => []PeersInv
  <1>1. PeersInv /\ [Next]_vars => PeersInv'
    BY PeersStep
  <1> QED
    BY <1>1, PeersInit, PTL DEF Spec

(* max_inbound_peers: whenever the reactor has processed its outbox, the   *)
(* inbound peers are fewer than the limit (or none), whatever connected,   *)
(* timed out or was banned in the meantime: every peer that was counted    *)
(* beyond the limit by connected had its disconnection queued.             *)
THEOREM InboundAlwaysBounded == Spec => []InboundBounded
  <1>1. PeersInv => InboundBounded
    <2> SUFFICES ASSUME PeersInv, machine.outbox = << >>
                 PROVE  InboundBounded
      BY DEF InboundBounded
    <2>1. \A a \in Addr : ~Pending(machine, a)
      BY SMT DEF Pending
    <2>2. Inbound(machine) = {a \in ConnectedPeers(machine) : machine.link[a] = "inbound"}
      BY <2>1 DEF Inbound, ConnectedPeers
    <2> QED
      BY <2>2 DEF PeersInv, Kept, InboundKept, InboundBounded
  <1> QED
    BY <1>1, PeersInvariant, PTL

(* The tables of the peer, address, ping and inventory managers, of the    *)
(* service and of the reactor agree whenever the outbox is empty, for any  *)
(* addresses and commands: connected, received_verack, disconnected and    *)
(* BanPeer change them together or leave a disconnection queued.           *)
THEOREM ManagersAlwaysAgree == Spec => []ManagersAgree
  <1>1. PeersInv => ManagersAgree
    <2> SUFFICES ASSUME PeersInv, machine.outbox = << >>
                 PROVE  ManagersAgree
      BY DEF ManagersAgree
    <2>1. \A a \in Addr : ~Pending(machine, a)
      BY SMT DEF Pending
    <2>2. \A a \in Addr : At(machine, inboxes, socket, connecting, a)
      BY DEF PeersInv, Kept
    <2>3. /\ machine.book.connected \subseteq Addr /\ machine.inv \subseteq Addr
          /\ inboxes \subseteq Addr
      BY DEF PeersInv, ReactorTyped, Machine, Book
    <2> DEFINE up == ConnectedPeers(machine)
    <2>4. \A a \in Addr : a \in up <=> is_connected(machine, a)
      BY DEF ConnectedPeers
    <2>5. up \subseteq Addr
      BY DEF ConnectedPeers
    <2> HIDE DEF up
    <2>6. machine.book.connected = up /\ inboxes = up
      BY ZenonT(30), <2>1, <2>2, <2>3, <2>4, <2>5 DEF At
    <2>7. {a \in Addr : machine.pings[a] # "none"} = machine.inv /\ machine.inv \subseteq up
      BY <2>2, <2>3, <2>4 DEF At
    <2>8. /\ \A a \in Addr : machine.state[a] = "verack" => a \in machine.inv
          /\ \A a \in up : socket[a] # "none"
      BY <2>2, <2>4, <2>5 DEF At
    <2> QED
      BY <2>6, <2>7, <2>8 DEF ManagersAgree, up
  <1> QED
    BY <1>1, PeersInvariant, PTL

(* The address book is bounded by its ranges: an address of the store is   *)
(* in its range, and no range is over MAX_RANGE_SIZE, for any limit and    *)
(* any addresses: insert and peer_connected go through                     *)
(* populate_address_ranges, which takes what a full range gives up from    *)
(* the store too, and a ban takes the address out of both.                 *)
THEOREM BookAlwaysBounded == Spec => []BookBounded
  <1>1. PeersInv => BookBounded
    BY DEF PeersInv, Kept, Fine, Sized, BookBounded
  <1> QED
    BY <1>1, PeersInvariant, PTL

(* A ban is for good: no step of the node lifts it, lets a banned address  *)
(* back into the ranges or makes it connected.                             *)
THEOREM BansAlwaysLast == Spec => BansLast
  <1> DEFINE Step == \A a \in Addr :
                       is_banned(machine.book, a) =>
                         /\ is_banned(machine'.book, a)
                         /\ a \notin machine.book.ranged => a \notin machine'.book.ranged
                         /\ ~is_connected(machine, a) => ~is_connected(machine', a)
  <1>1. PeersInv /\ [Next]_vars => Step
    BY PeersStep DEF Lasting
  <1>2. PeersInv /\ [Next]_vars => [Step]_vars
    BY <1>1
  <1>3. Spec => [][Step]_vars
    BY <1>2, PeersInvariant, PTL DEF Spec
  <1> QED
    BY <1>3 DEF BansLast

=============================================================================
