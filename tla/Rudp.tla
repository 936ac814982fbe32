-------------------------------- MODULE Rudp --------------------------------
(***************************************************************************)
(* Two RUDP engines (core/src/net/rudp/rudp_engine.cpp,                    *)
(* retransmission_queue.cpp, ack_window.cpp) and the datagrams between     *)
(* them: the one of the client that attaches and the one the gateway makes *)
(* when the UDP endpoint is bound.                                         *)
(*                                                                         *)
(* A datagram once sent stays in net: it may arrive at any later time, any *)
(* number of times, or never.  net starts with the datagrams of an earlier *)
(* connection that may still arrive.  The 64-bit acknowledgement mask is   *)
(* the set of the packet numbers its bits stand for; shifting it drops the *)
(* numbers Window or more behind the largest.                              *)
(***************************************************************************)
EXTENDS Integers, FiniteSets

CONSTANTS
    NoConn, New, Old,   \* connection ids: none (0), this attach, an earlier one
    Window,             \* 64, the width of the mask
    MaxInflight,        \* max_inflight_packets
    MaxBytes,           \* max_inflight_bytes
    Header, Payload,    \* kRudpHeaderBytes and the size of an inner frame
    Mtu,                \* mtu_payload_bytes
    AckDelay, HandshakeTimeout, IdleTimeout,
    RtoInit, RtoMin, RtoMax,
    Batch,              \* packets one poll retransmits
    Menus               \* what a behaviour exercises: [strays, sends, time,
                        \* kinds], the datagrams in the network at the start,
                        \* the frames each peer queues, the bound of the
                        \* clock, and the kinds of fault

Peers == {"client", "gateway"}
Other(p) == IF p = "client" THEN "gateway" ELSE "client"
Types == {"hello", "helloack", "data", "ping", "close"}
Lives == {"idle", "hello_sent", "established", "draining", "closed"}

(* A datagram as decode_packet returns it.                                 *)
Datagrams ==
    [to : Peers, type : Types, conn : {NoConn, New, Old}, num : Nat,
     largest : Nat, mask : SUBSET Nat, ackonly : BOOLEAN]

(* What configure_gateway and the defaults of RudpConfig guarantee.        *)
RudpConfigured ==
    /\ {Window, MaxInflight, MaxBytes, Header, Payload, AckDelay} \subseteq Nat \ {0}
    /\ {HandshakeTimeout, IdleTimeout, Mtu, Batch} \subseteq Nat \ {0}
    /\ {RtoInit, RtoMin, RtoMax} \subseteq Nat \ {0}
    /\ RtoMin <= RtoMax

(* Datagrams of an earlier connection, and a Ping of nobody's.              *)
Strayed == {m \in Datagrams :
    /\ m.type = "data" => (m.ackonly <=> m.num = 0)
    /\ \/ m.conn = Old
       \/ m.conn = NoConn /\ m.type = "ping" /\ m.largest = 0 /\ m.mask = {}}

(* Connection ids are distinct: g_next_rudp_connection_id is never reused. *)
ASSUME RudpAssumption ==
    /\ RudpConfigured
    /\ NoConn # New /\ NoConn # Old /\ New # Old
    /\ \A u \in Menus :
        /\ u.strays \subseteq Strayed
        /\ u.sends \in [Peers -> Nat] /\ u.time \in Nat \ {0}

VARIABLES
    menu,               \* the choice of Menus, fixed
    now,
    life, conn, next,   \* lifecycle, connection_id, next_packet_number
    recvAt, sendAt, ackAt,  \* last_recv, last_send, last_ack_emit (unix ms)
    rto,                \* rtt.rto_ms
    win,                \* ack_window_: [init, largest, mask]
    sent,               \* retransmission_queue_: packet number |-> last sent
    net,                \* datagrams in the network
    got, again          \* history: frames handed up, frames handed up twice

vars == <<menu, now, life, conn, next, recvAt, sendAt, ackAt, rto, win, sent, net, got, again>>
clocks == <<recvAt, sendAt, ackAt, rto>>

NoWindow == [init |-> FALSE, largest |-> 0, mask |-> {}]

(* RudpEngine::reset, of both engines: the client resets its engine before *)
(* a Hello, the gateway makes a new one when it binds the endpoint.        *)
Init ==
    /\ menu \in Menus
    /\ now = 1
    /\ life = [p \in Peers |-> "idle"]
    /\ conn = [p \in Peers |-> NoConn]
    /\ next = [p \in Peers |-> 1]
    /\ recvAt = [p \in Peers |-> 0]
    /\ sendAt = [p \in Peers |-> 0]
    /\ ackAt = [p \in Peers |-> 0]
    /\ rto = [p \in Peers |-> RtoInit]
    /\ win = [p \in Peers |-> NoWindow]
    /\ sent = [p \in Peers |-> <<>>]
    /\ net = menu.strays
    /\ got = [p \in Peers |-> {}]
    /\ again = {}

(* A packet of p: every packet carries the acknowledgement p's window has. *)
Packet(p, c, w, type, num, ackonly) ==
    [to |-> Other(p), type |-> type, conn |-> c, num |-> num,
     largest |-> w.largest, mask |-> w.mask, ackonly |-> ackonly]

-----------------------------------------------------------------------------
(* AckWindow::observe: is the packet new, and the window after it.         *)
ObservedNewDup(w, n) ==
    \/ ~w.init
    \/ n > w.largest
    \/ w.largest - n <= Window /\ n \notin w.mask

ObservedNew(w, n) ==
    \/ ~w.init
    \/ n > w.largest
    \/ w.largest - n < Window /\ n \notin w.mask

Observed(w, n) ==
    LET top == IF w.init /\ w.largest > n THEN w.largest ELSE n
    IN  IF ObservedNew(w, n)
        THEN [init |-> TRUE, largest |-> top,
              mask |-> {k \in w.mask : top - k < Window} \cup {n}]
        ELSE w

(* RetransmissionQueue::is_acked_by_mask.                                  *)
IsAckedCumulative(n, largest, mask) == n <= largest

IsAcked(n, largest, mask) ==
    /\ n <= largest
    /\ \/ n = largest
       \/ largest - n >= Window
       \/ n \in mask

(* RetransmissionQueue::mark_acked and erase_acked.                        *)
Unacked(q, m) ==
    [n \in {k \in DOMAIN q : ~IsAcked(k, m.largest, m.mask)} |-> q[n]]

InflightBytes(q) == Cardinality(DOMAIN q) * (Header + Payload)

-----------------------------------------------------------------------------
(* make_hello, sent by the client once its endpoint is bound.              *)
Hello ==
    /\ life["client"] = "idle" /\ conn["client"] = NoConn
    /\ conn' = [conn EXCEPT !["client"] = New]
    /\ life' = [life EXCEPT !["client"] = "hello_sent"]
    /\ sendAt' = [sendAt EXCEPT !["client"] = now]
    /\ net' = net \cup {Packet("client", New, win["client"], "hello", 0, FALSE)}
    /\ UNCHANGED <<menu, now, next, recvAt, ackAt, rto, win, sent, got, again>>

(* make_close.                                                             *)
Close(p) ==
    /\ "close" \in menu.kinds
    /\ life[p] = "established"
    /\ life' = [life EXCEPT ![p] = "closed"]
    /\ sendAt' = [sendAt EXCEPT ![p] = now]
    /\ net' = net \cup {Packet(p, conn[p], win[p], "close", 0, FALSE)}
    /\ UNCHANGED <<menu, now, conn, next, recvAt, ackAt, rto, win, sent, got, again>>

(* set_fallback: the lifecycle is Draining, whatever it was.               *)
Fallback(p) == life' = [life EXCEPT ![p] = "draining"]

(* process_datagram, a datagram that does not decode or of another version.*)
Malformed(p) ==
    /\ "malformed" \in menu.kinds
    /\ Fallback(p)
    /\ UNCHANGED <<menu, now, conn, next, clocks, win, sent, net, got, again>>

MismatchedNever(p, m) == FALSE

Mismatched(p, m) ==
    conn[p] # NoConn /\ m.conn # NoConn /\ conn[p] # m.conn

(* process_datagram: a datagram of another connection.                     *)
OtherConnection(m) ==
    LET p == m.to IN
    /\ Mismatched(p, m)
    /\ recvAt' = [recvAt EXCEPT ![p] = now]
    /\ Fallback(p)
    /\ UNCHANGED <<menu, now, conn, next, sendAt, ackAt, rto, win, sent, net, got, again>>

(* What every accepted datagram does first: last_recv, the connection id,  *)
(* mark_acked.                                                             *)
Heard(m) ==
    LET p == m.to IN
    /\ ~Mismatched(p, m)
    /\ recvAt' = [recvAt EXCEPT ![p] = now]
    /\ conn' = [conn EXCEPT ![p] = IF @ = NoConn THEN m.conn ELSE @]
    /\ sent' = [sent EXCEPT ![p] = Unacked(@, m)]
    /\ UNCHANGED <<menu, now, next>>

ProcessHello(m) ==
    LET p == m.to IN
    /\ m.type = "hello"
    /\ Heard(m)
    /\ life' = [life EXCEPT ![p] = "established"]
    /\ sendAt' = [sendAt EXCEPT ![p] = now]
    /\ net' = net \cup {Packet(p, conn'[p], win[p], "helloack", 0, FALSE)}
    /\ UNCHANGED <<ackAt, rto, win, got, again>>

ProcessHelloAck(m) ==
    /\ m.type = "helloack"
    /\ Heard(m)
    /\ life' = [life EXCEPT ![m.to] = "established"]
    /\ UNCHANGED <<sendAt, ackAt, rto, win, net, got, again>>

ProcessClose(m) ==
    /\ m.type = "close"
    /\ Heard(m)
    /\ Fallback(m.to)
    /\ UNCHANGED <<sendAt, ackAt, rto, win, net, got, again>>

ProcessPing(m) ==
    LET p == m.to IN
    /\ m.type = "ping"
    /\ Heard(m)
    /\ net' = net \cup {Packet(p, conn'[p], win[p], "data", 0, TRUE)}
    /\ UNCHANGED <<life, sendAt, ackAt, rto, win, got, again>>

(* Data before the handshake is over.                                      *)
DataTooEarly(m) ==
    /\ m.type = "data" /\ life[m.to] # "established"
    /\ Heard(m)
    /\ Fallback(m.to)
    /\ UNCHANGED <<sendAt, ackAt, rto, win, net, got, again>>

(* Data seen before, or too old to tell: no acknowledgement is sent.       *)
DataDuplicate(m) ==
    /\ m.type = "data" /\ life[m.to] = "established"
    /\ ~ObservedNew(win[m.to], m.num)
    /\ Heard(m)
    /\ UNCHANGED <<life, sendAt, ackAt, rto, win, net, got, again>>

(* RttEstimator::update: the sample decides the value, the clamp its       *)
(* range; a sample of 0 changes nothing.                                   *)
RtoAfter(r) == {r} \cup (RtoMin .. RtoMax)

AckDue(p, m) == ~m.ackonly /\ now >= ackAt[p] + AckDelay

(* New data: the frame is handed up, and acknowledged unless an            *)
(* acknowledgement went out less than AckDelay ago.                        *)
DataNew(m) ==
    LET p == m.to
        w == Observed(win[p], m.num)
    IN
    /\ m.type = "data" /\ life[p] = "established"
    /\ ObservedNew(win[p], m.num)
    /\ Heard(m)
    /\ win' = [win EXCEPT ![p] = w]
    /\ got' = IF m.ackonly THEN got ELSE [got EXCEPT ![p] = @ \cup {m.num}]
    /\ again' = again \cup IF ~m.ackonly /\ m.num \in got[p] THEN {m.num} ELSE {}
    /\ IF AckDue(p, m)
       THEN /\ net' = net \cup {Packet(p, conn'[p], w, "data", 0, TRUE)}
            /\ ackAt' = [ackAt EXCEPT ![p] = now]
       ELSE UNCHANGED <<net, ackAt>>
    /\ \E r \in RtoAfter(rto[p]) : rto' = [rto EXCEPT ![p] = r]
    /\ UNCHANGED <<life, sendAt>>

(* The client reads its socket once it has sent the Hello.                 *)
Listening(p) == p = "client" => life[p] # "idle"

ProcessDatagram ==
    \/ \E p \in Peers : Listening(p) /\ Malformed(p)
    \/ \E m \in net : Listening(m.to) /\
        (\/ OtherConnection(m)
         \/ ProcessHello(m) \/ ProcessHelloAck(m)
         \/ ProcessClose(m) \/ ProcessPing(m)
         \/ DataTooEarly(m) \/ DataDuplicate(m) \/ DataNew(m))

-----------------------------------------------------------------------------
(* queue_reliable_payload: the limits count the encoded frames in flight,  *)
(* and the bytes of the inner frame to come.                               *)

Room(q) ==
    /\ Payload <= Mtu
    /\ Cardinality(DOMAIN q) < MaxInflight
    /\ InflightBytes(q) + Payload <= MaxBytes

NumberAfter(n) == n + 1

Queue(p) ==
    /\ next[p] <= menu.sends[p]
    /\ life[p] = "established"
    /\ Room(sent[p])
    /\ next' = [next EXCEPT ![p] = NumberAfter(@)]
    /\ sent' = [sent EXCEPT ![p] = [n \in DOMAIN @ \cup {next[p]} |->
                                       IF n = next[p] THEN now ELSE @[n]]]
    /\ sendAt' = [sendAt EXCEPT ![p] = now]
    /\ net' = net \cup {Packet(p, conn[p], win[p], "data", next[p], FALSE)}
    /\ UNCHANGED <<menu, now, life, conn, recvAt, ackAt, rto, win, got, again>>

-----------------------------------------------------------------------------
(* poll.                                                                   *)
HandshakeExpired(p) ==
    life[p] = "hello_sent" /\ sendAt[p] > 0 /\ now > sendAt[p] + HandshakeTimeout
IdleExpired(p) ==
    life[p] = "established" /\ recvAt[p] > 0 /\ now > recvAt[p] + IdleTimeout

PollFallback(p) ==
    /\ HandshakeExpired(p) \/ IdleExpired(p)
    /\ Fallback(p)
    /\ UNCHANGED <<menu, now, conn, next, clocks, win, sent, net, got, again>>

(* collect_timeouts: the oldest packets not heard of for rto_ms.  Their    *)
(* frames are sent again as they were encoded, and are in net already.     *)
Due(p) ==
    LET old == {n \in DOMAIN sent[p] : now - sent[p][n] >= rto[p]}
    IN  {n \in old : Cardinality({k \in old : k < n}) < Batch}

PollRetransmit(p) ==
    /\ ~HandshakeExpired(p) /\ ~IdleExpired(p)
    /\ Due(p) # {}
    /\ sent' = [sent EXCEPT ![p] = [n \in DOMAIN @ |-> IF n \in Due(p) THEN now ELSE @[n]]]
    /\ UNCHANGED <<menu, now, life, conn, next, clocks, win, net, got, again>>

Poll == \E p \in Peers : PollFallback(p) \/ PollRetransmit(p)

Tick ==
    /\ now < menu.time
    /\ now' = now + 1
    /\ UNCHANGED <<menu, life, conn, next, clocks, win, sent, net, got, again>>

Next ==
    \/ Hello \/ \E p \in Peers : Close(p) \/ Queue(p)
    \/ ProcessDatagram \/ Poll \/ Tick

Spec == Init /\ [][Next]_vars

-----------------------------------------------------------------------------
(* Every part of an engine has its type, and the network holds datagrams.  *)
TypeOK ==
    /\ menu \in Menus
    /\ now \in 1 .. menu.time
    /\ life \in [Peers -> Lives]
    /\ conn \in [Peers -> {NoConn, New, Old}]
    /\ next \in [Peers -> Nat \ {0}]
    /\ recvAt \in [Peers -> 0 .. menu.time] /\ sendAt \in [Peers -> 0 .. menu.time]
    /\ ackAt \in [Peers -> 0 .. menu.time]
    /\ rto \in [Peers -> Nat \ {0}]
    /\ win \in [Peers -> [init : BOOLEAN, largest : Nat, mask : SUBSET Nat]]
    /\ DOMAIN sent = Peers
    /\ \A p \in Peers : /\ DOMAIN sent[p] \subseteq 1 .. next[p] - 1
                        /\ \A n \in DOMAIN sent[p] : sent[p][n] \in 1 .. now
    /\ net \subseteq Datagrams
    /\ got \in [Peers -> SUBSET (Nat \ {0})]

(* A frame is handed to the application at most once, whatever the network *)
(* duplicates or delays (AckWindow::observe refuses what it has seen, and  *)
(* everything too old for its mask).                                       *)
NoDuplicateFrame == again = {}

(* A packet leaves the retransmission queue only when the peer has taken   *)
(* it, or when it is Window or more behind the largest the peer has seen:  *)
(* then is_acked_by_mask calls it acknowledged although nobody knows.      *)
AckedWasTaken ==
    \A p \in Peers : \A n \in 1 .. next[p] - 1 :
        conn[p] = New /\ n \notin DOMAIN sent[p] =>
            \/ n \in got[Other(p)]
            \/ win[Other(p)].largest - n >= Window

(* The client believes in the connection only after the gateway has taken  *)
(* up the same connection id, so frames it queues can be accepted.         *)
AgreedConnection ==
    life["client"] = "established" => conn["gateway"] = New

(* docs/protocol/rudp.md 4.1: ack_largest is the largest number up to which*)
(* everything has arrived.                                                 *)
AckLargestContiguous ==
    \A m \in net : m.conn = New => \A n \in 1 .. m.largest : n \in got[Other(m.to)]
=============================================================================
