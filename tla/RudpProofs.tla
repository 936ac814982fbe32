----------------------------- MODULE RudpProofs -----------------------------
(***************************************************************************)
(* Proofs about Rudp for any width of the window, any limits and timeouts, *)
(* any number of frames and any datagrams of earlier connections.          *)
(*                                                                         *)
(* The three properties are proved together.  None is inductive alone:     *)
(* a frame is not handed up twice because the window remembers every frame *)
(* within its width (WindowOK); an acknowledgement can be believed because *)
(* what a datagram acknowledges was taken before it was sent (NetOK); and  *)
(* the datagrams of another connection, whose acknowledgements mean        *)
(* nothing, never pass the connection id check (ConnOK).                   *)
(***************************************************************************)
EXTENDS Rudp, TLAPS

\* The window and the frames it has accepted: it knows every one of them that
\* is less than Window behind the largest.
WindowType == [init : BOOLEAN, largest : Nat, mask : SUBSET Nat]
Remembers(w, G) ==
  /\ ~w.init => G = {} /\ w.largest = 0 /\ w.mask = {}
  /\ w.largest = 0 \/ w.largest \in G
  /\ w.mask \subseteq G \cup {0}
  /\ \A n \in G : n <= w.largest
  /\ \A n \in G : w.largest - n < Window => n \in w.mask
WindowOf(p) == Remembers(win[p], got[p])
WindowOK == \A p \in Peers : WindowOf(p)

\* What a datagram acknowledges, the peer that sent it has taken.
AcksTaken(m) ==
  /\ m.largest <= win[Other(m.to)].largest
  /\ m.largest = 0 \/ m.largest \in got[Other(m.to)]
  /\ m.mask \subseteq got[Other(m.to)] \cup {0}
\* Frames are numbered from 1, acknowledgements alone are numbered 0, and only
\* they and a Ping may lack a connection id.
DatagramOK(m) ==
  /\ m.conn # Old => AcksTaken(m)
  /\ m.conn = NoConn => m.type \in {"ping", "data"}
  /\ m.conn = New /\ m.to = "client" => conn["gateway"] = New
NetOK == \A m \in net : DatagramOK(m)

ConnOK ==
  /\ conn["client"] # Old
  /\ life["client"] # "idle" => conn["client"] = New
  /\ \A p \in Peers : life[p] = "established" => conn[p] # NoConn
  /\ \A p \in Peers : conn[p] = NoConn => next[p] = 1

Shape ==
  /\ menu \in Menus
  /\ life \in [Peers -> Lives]
  /\ conn \in [Peers -> {NoConn, New, Old}]
  /\ next \in [Peers -> Nat \ {0}]
  /\ win \in [Peers -> [init : BOOLEAN, largest : Nat, mask : SUBSET Nat]]
  /\ DOMAIN sent = Peers
  /\ \A p \in Peers : DOMAIN sent[p] \subseteq 1 .. next[p] - 1
  /\ net \subseteq Datagrams
  /\ got \in [Peers -> SUBSET (Nat \ {0})]
  /\ \A m \in net : m.type = "data" => (m.ackonly <=> m.num = 0)

\* What a step does to windows, histories and the network.
Grows ==
  /\ \A p \in Peers : got[p] \subseteq got'[p]
  /\ \A p \in Peers : win[p].largest <= win'[p].largest
  /\ win' \in [Peers -> [init : BOOLEAN, largest : Nat, mask : SUBSET Nat]]
  /\ got' \in [Peers -> SUBSET (Nat \ {0})]
  /\ conn["gateway"] = New => conn'["gateway"] = New
\* The datagrams a step of p adds carry p's connection and acknowledgements.
OwnOnly(p) ==
  \A m \in net' : m \in net \/
    /\ m \in Datagrams
    /\ m.to = Other(p) /\ m.conn = conn'[p]
    /\ m.largest = win'[p].largest /\ m.mask = win'[p].mask
    /\ m.conn = NoConn => m.type = "data"
    /\ m.type = "data" => (m.ackonly <=> m.num = 0)

IInv == /\ Shape /\ WindowOK /\ NetOK /\ ConnOK
        /\ AckedWasTaken /\ NoDuplicateFrame /\ AgreedConnection
-----------------------------------------------------------------------------
\* The leaves are Zenon's, but for those that name another prover.
USE Zenon

\* The two ends.
LEMMA Ends ==
  /\ "client" \in Peers /\ "gateway" \in Peers
  /\ \A p \in Peers : Other(p) \in Peers /\ Other(p) # p /\ Other(Other(p)) = p
BY DEF Peers, Other

\* What a packet carries.
LEMMA PacketFields ==
  ASSUME NEW p \in Peers, NEW c \in {NoConn, New, Old}, NEW w \in WindowType,
         NEW t \in Types, NEW n \in Nat, NEW a \in BOOLEAN,
         NEW m, m = Packet(p, c, w, t, n, a)
  PROVE  /\ m \in Datagrams /\ m.to = Other(p) /\ m.conn = c
         /\ m.largest = w.largest /\ m.mask = w.mask
         /\ m.type = t /\ m.num = n /\ m.ackonly = a
BY Ends DEF Packet, Datagrams, WindowType

\* AckWindow::observe: a packet it accepts was not accepted before, and the
\* window remembers it.
LEMMA WindowObserves ==
  ASSUME NEW w \in WindowType, NEW G \in SUBSET (Nat \ {0}), NEW n \in Nat,
         ObservedNew(w, n), Remembers(w, G)
  PROVE  /\ n \notin G
         /\ Observed(w, n) \in WindowType /\ w.largest <= Observed(w, n).largest
         /\ n = 0 => Remembers(Observed(w, n), G)
         /\ n # 0 => Remembers(Observed(w, n), G \cup {n})
<1> USE DEF WindowType, Remembers
<1> DEFINE v == Observed(w, n)
           H == IF n = 0 THEN G ELSE G \cup {n}
<1> DEFINE top == IF w.init /\ w.largest > n THEN w.largest ELSE n
<1>1. v = [init |-> TRUE, largest |-> top,
           mask |-> {k \in w.mask : top - k < Window} \cup {n}]
  BY DEF Observed
<1>2. top \in Nat /\ n <= top /\ w.largest <= top /\ Window \in Nat \ {0}
  BY SMT, RudpAssumption DEF RudpConfigured
<1>3. n \notin G
  BY SMT DEF ObservedNew
<1>4. v.init /\ v.largest = top /\ v.mask = {k \in w.mask : top - k < Window} \cup {n}
  BY SMT, <1>1
<1>5. top = 0 \/ top \in H
  BY <1>2
<1>6. \A k \in H : k <= top
  BY SMT, <1>2
<1>7. \A k \in H : top - k < Window => k \in v.mask
  <2> SUFFICES ASSUME NEW k \in H, top - k < Window, k # n PROVE k \in v.mask
    BY <1>4
  <2>1. k \in G /\ w.largest - k < Window
    BY SMT, <1>2
  <2> QED
    BY <2>1, <1>4
<1> QED
  BY SMT, <1>1, <1>2, <1>3, <1>4, <1>5, <1>6, <1>7

\* A step of p that sends one packet.
LEMMA OwnPacket ==
  ASSUME NEW p \in Peers, NEW t \in Types, NEW n \in Nat, NEW a \in BOOLEAN,
         conn'[p] \in {NoConn, New, Old}, win'[p] \in WindowType,
         net' = net \cup {Packet(p, conn'[p], win'[p], t, n, a)},
         conn'[p] = NoConn => t = "data", t = "data" => (a <=> n = 0)
  PROVE  OwnOnly(p)
<1> SUFFICES ASSUME NEW m, m = Packet(p, conn'[p], win'[p], t, n, a)
             PROVE  /\ m \in Datagrams
                    /\ m.to = Other(p) /\ m.conn = conn'[p]
                    /\ m.largest = win'[p].largest /\ m.mask = win'[p].mask
                    /\ m.conn = NoConn => m.type = "data"
                    /\ m.type = "data" => (m.ackonly <=> m.num = 0)
  BY DEF OwnOnly
<1>1. /\ m \in Datagrams /\ m.to = Other(p) /\ m.conn = conn'[p]
      /\ m.largest = win'[p].largest /\ m.mask = win'[p].mask
      /\ m.type = t /\ m.num = n /\ m.ackonly = a
  BY SMT, PacketFields
<1> QED
  BY <1>1

\* The network stays in order.
LEMMA NetKept ==
  ASSUME IInv, Grows, WindowOK', NEW p \in Peers, OwnOnly(p)
  PROVE  NetOK' /\ net' \subseteq Datagrams
         /\ \A m \in net' : m.type = "data" => (m.ackonly <=> m.num = 0)
<1>1. \A m \in net' : m \in Datagrams /\ (m.type = "data" => (m.ackonly <=> m.num = 0))
  BY DEF OwnOnly, IInv, Shape
<1>2. ASSUME NEW m \in net' PROVE DatagramOK(m)'
  <2>1. CASE m \in net
    <3>1. DatagramOK(m) /\ m.to \in Peers /\ m.largest \in Nat
      BY <2>1 DEF IInv, NetOK, Shape, Datagrams
    <3>2. m.conn # Old => AcksTaken(m)'
      BY SMT, <3>1, Ends DEF DatagramOK, AcksTaken, Grows, IInv, Shape
    <3>3. m.conn = New /\ m.to = "client" => conn'["gateway"] = New
      BY <3>1 DEF DatagramOK, Grows
    <3> QED
      BY <3>1, <3>2, <3>3 DEF DatagramOK
  <2>2. CASE m \notin net
    <3>1. /\ m.to = Other(p) /\ m.conn = conn'[p]
          /\ m.largest = win'[p].largest /\ m.mask = win'[p].mask
          /\ m.conn = NoConn => m.type = "data"
      BY <2>2 DEF OwnOnly
    <3>2. AcksTaken(m)'
      BY SMT, <3>1, Ends DEF AcksTaken, WindowOK, WindowOf, Remembers, Grows
    <3>3. m.to = "client" => p = "gateway"
      BY <3>1, Ends DEF Other, Peers
    <3> QED
      BY <3>1, <3>2, <3>3 DEF DatagramOK
  <2> QED
    BY <2>1, <2>2
<1> QED
  BY <1>1, <1>2 DEF NetOK

\* mark_acked takes from the queue only what the peer has taken, or what is
\* Window or more behind.
LEMMA HeardAcked ==
  ASSUME IInv, Grows, NEW m \in net, Heard(m)
  PROVE  AckedWasTaken'
<1> DEFINE p == m.to
<1>1. p \in Peers /\ m \in Datagrams /\ Window \in Nat
  BY RudpAssumption DEF IInv, Shape, Datagrams, RudpConfigured
<1> SUFFICES ASSUME NEW q \in Peers, NEW n \in 1 .. next[q] - 1,
                    conn'[q] = New, n \notin DOMAIN sent'[q]
             PROVE  n \in got'[Other(q)] \/ win'[Other(q)].largest - n >= Window
  BY DEF AckedWasTaken, Heard
<1>2. conn[q] = New
  <2>1. conn[q] # NoConn
    BY SMT DEF IInv, ConnOK, Shape
  <2> QED
    BY <2>1, <1>1 DEF Heard, IInv, Shape
<1>3. CASE n \notin DOMAIN sent[q]
  BY SMT, <1>1, <1>2, <1>3, Ends DEF IInv, AckedWasTaken, Grows, Shape
<1>4. CASE n \in DOMAIN sent[q]
  <2>1. q = p
    BY <1>1, <1>4 DEF Heard, IInv, Shape
  <2>2. sent'[p] = Unacked(sent[p], m)
    BY <1>1 DEF Heard, IInv, Shape
  <2>3. IsAcked(n, m.largest, m.mask)
    BY <2>1, <2>2, <1>4 DEF Unacked
  <2>4. m.conn # Old
    BY <1>2, <2>1, RudpAssumption DEF Heard, Mismatched
  <2>5. AcksTaken(m)
    BY <2>4 DEF IInv, NetOK, DatagramOK
  <2>6. n \in Nat \ {0} /\ m.largest \in Nat /\ Other(p) \in Peers
    BY SMT, <1>1, Ends DEF Datagrams, IInv, Shape
  <2>7. n \in got[Other(p)] \/ win[Other(p)].largest - n >= Window
    BY SMT, <2>3, <2>5, <2>6, <1>1 DEF IsAcked, AcksTaken, IInv, Shape
  <2> QED
    BY SMT, <2>1, <2>6, <2>7, <1>1 DEF Grows, IInv, Shape
<1> QED
  BY <1>3, <1>4

\* A datagram passes the connection id check: what becomes of the ids.
LEMMA HeardConn ==
  ASSUME IInv, NEW m \in net, Listening(m.to), Heard(m)
  PROVE  /\ m.to \in Peers
         /\ conn' \in [Peers -> {NoConn, New, Old}]
         /\ conn'["client"] # Old
         /\ conn["gateway"] = New => conn'["gateway"] = New
         /\ \A p \in Peers : conn[p] # NoConn => conn'[p] = conn[p]
         /\ m.to = "client" => conn'["client"] = New
         /\ m.conn # NoConn => conn'[m.to] # NoConn
         /\ DOMAIN sent' = Peers
         /\ \A p \in Peers : DOMAIN sent'[p] \subseteq DOMAIN sent[p]
<1>1. m.to \in Peers /\ m.conn \in {NoConn, New, Old}
  BY DEF IInv, Shape, Datagrams
<1>2. conn' = [conn EXCEPT ![m.to] = IF @ = NoConn THEN m.conn ELSE @]
  BY DEF Heard
<1>3. m.to = "client" => conn["client"] = New
  BY DEF Listening, IInv, ConnOK
<1>4. \A p \in Peers : DOMAIN sent'[p] \subseteq DOMAIN sent[p]
  BY <1>1 DEF Heard, Unacked, IInv, Shape
<1>5. DOMAIN sent' = Peers
  BY DEF Heard, IInv, Shape
<1>6. conn' \in [Peers -> {NoConn, New, Old}]
  BY <1>1, <1>2 DEF IInv, Shape
<1>7. \A p \in Peers : conn[p] # NoConn => conn'[p] = conn[p]
  BY <1>1, <1>2 DEF IInv, Shape
<1>8. conn'["client"] # Old
  BY <1>1, <1>2, <1>3, RudpAssumption, Ends DEF IInv, Shape, ConnOK
<1>9. m.conn # NoConn => conn'[m.to] # NoConn
  BY <1>1, <1>2, RudpAssumption DEF IInv, Shape
<1> QED
  BY <1>1, <1>3, <1>4, <1>5, <1>6, <1>7, <1>8, <1>9, RudpAssumption, Ends

\* A datagram that passes the check: it is enough to look at the window, the
\* network and the lifecycle.
LEMMA HeardStep ==
  ASSUME IInv, NEW m \in net, Listening(m.to), Heard(m),
         win' \in [Peers -> [init : BOOLEAN, largest : Nat, mask : SUBSET Nat]],
         got' \in [Peers -> SUBSET (Nat \ {0})],
         \A p \in Peers : got[p] \subseteq got'[p] /\ win[p].largest <= win'[p].largest,
         WindowOK', NoDuplicateFrame', OwnOnly(m.to),
         life' \in [Peers -> Lives],
         life["client"] = "idle" => life'["client"] = "idle",
         \A p \in Peers : life'[p] = "established" =>
             life[p] = "established" \/ (p = m.to /\ m.type \in {"hello", "helloack"})
  PROVE  IInv'
<1>1. m.to \in Peers
  BY HeardConn
<1>2. Grows
  BY HeardConn DEF Grows
<1>3. NetOK' /\ net' \subseteq Datagrams
      /\ \A k \in net' : k.type = "data" => (k.ackonly <=> k.num = 0)
  BY <1>1, <1>2, NetKept
<1>4. AckedWasTaken'
  BY <1>2, HeardAcked
<1>5. next' = next /\ menu' = menu
  BY DEF Heard
<1>6. Shape'
  <2>1. DOMAIN sent' = Peers /\ \A p \in Peers : DOMAIN sent'[p] \subseteq 1 .. next'[p] - 1
    BY <1>5, HeardConn DEF IInv, Shape
  <2>2. conn' \in [Peers -> {NoConn, New, Old}]
    BY HeardConn
  <2> QED
    BY <2>1, <2>2, <1>3, <1>5 DEF IInv, Shape
<1>7. m.type \in {"hello", "helloack"} => m.conn # NoConn
  BY DEF IInv, NetOK, DatagramOK
<1>8. ConnOK'
  <2>1. conn'["client"] # Old
    BY HeardConn
  <2>2. life'["client"] # "idle" => conn'["client"] = New
    BY HeardConn, Ends, RudpAssumption DEF IInv, ConnOK
  <2>3. \A p \in Peers : life'[p] = "established" => conn'[p] # NoConn
    BY HeardConn, <1>7 DEF IInv, ConnOK
  <2>4. \A p \in Peers : conn'[p] = NoConn => next'[p] = 1
    BY HeardConn, <1>5 DEF IInv, ConnOK
  <2> QED
    BY <2>1, <2>2, <2>3, <2>4 DEF ConnOK
<1>9. AgreedConnection'
  <2> SUFFICES ASSUME life'["client"] = "established" PROVE conn'["gateway"] = New
    BY DEF AgreedConnection
  <2>1. CASE life["client"] = "established"
    BY <2>1, HeardConn DEF IInv, AgreedConnection
  <2>2. CASE m.to = "client" /\ m.type \in {"hello", "helloack"}
    <3>1. conn["client"] = New
      BY <2>2 DEF Listening, IInv, ConnOK
    <3>2. m.conn = New
      BY <3>1, <2>2, <1>7, RudpAssumption DEF Heard, Mismatched
    <3> QED
      BY <3>2, <2>2, HeardConn DEF IInv, NetOK, DatagramOK
  <2> QED
    BY <2>1, <2>2, Ends
<1> QED
  BY <1>3, <1>4, <1>6, <1>8, <1>9 DEF IInv

\* Every other step leaves the windows alone and takes nothing from a queue.
LEMMA LocalStep ==
  ASSUME IInv, UNCHANGED <<menu, win, got, again>>,
         NEW p \in Peers, OwnOnly(p),
         conn' \in [Peers -> {NoConn, New, Old}], conn'["client"] # Old,
         conn'["gateway"] = conn["gateway"],
         \A q \in Peers : conn[q] # NoConn => conn'[q] = conn[q],
         next' \in [Peers -> Nat \ {0}], DOMAIN sent' = Peers,
         \A q \in Peers : /\ DOMAIN sent'[q] \subseteq 1 .. next'[q] - 1
                         /\ 1 .. next'[q] - 1 \subseteq (1 .. next[q] - 1) \cup DOMAIN sent'[q]
                         /\ DOMAIN sent[q] \subseteq DOMAIN sent'[q],
         \A q \in Peers : conn'[q] = NoConn => next'[q] = 1,
         life' \in [Peers -> Lives],
         life'["client"] # "idle" => conn'["client"] = New,
         \A q \in Peers : life'[q] = "established" => life[q] = "established"
  PROVE  IInv'
<1>1. Grows
  BY SMT DEF Grows, IInv, Shape
<1>2. WindowOK' /\ NoDuplicateFrame'
  BY DEF IInv, WindowOK, WindowOf, Remembers, NoDuplicateFrame
<1>3. NetOK' /\ net' \subseteq Datagrams
      /\ \A k \in net' : k.type = "data" => (k.ackonly <=> k.num = 0)
  BY <1>1, <1>2, NetKept
<1>4. Shape'
  BY <1>3 DEF IInv, Shape
<1>5. ConnOK'
  <2>1. \A q \in Peers : life'[q] = "established" => conn'[q] # NoConn
    BY DEF IInv, ConnOK
  <2> QED
    BY <2>1 DEF ConnOK
<1>6. AckedWasTaken'
  <2> SUFFICES ASSUME NEW q \in Peers, NEW n \in 1 .. next'[q] - 1,
                      conn'[q] = New, n \notin DOMAIN sent'[q]
               PROVE  n \in got[Other(q)] \/ win[Other(q)].largest - n >= Window
    BY DEF AckedWasTaken
  <2>1. n \in 1 .. next[q] - 1 /\ n \notin DOMAIN sent[q]
    OBVIOUS
  <2>2. conn[q] = New
    <3>1. CASE conn[q] = NoConn
      BY SMT, <3>1, <2>1 DEF IInv, ConnOK
    <3> QED
      BY <3>1
  <2> QED
    BY <2>1, <2>2 DEF IInv, AckedWasTaken
<1>7. AgreedConnection'
  BY Ends DEF IInv, AgreedConnection
<1> QED
  BY <1>2, <1>3, <1>4, <1>5, <1>6, <1>7 DEF IInv

-----------------------------------------------------------------------------
LEMMA InitOK == Init => IInv
<1> SUFFICES ASSUME Init PROVE IInv
  OBVIOUS
<1>1. menu.strays \subseteq Strayed
  BY RudpAssumption DEF Init
<1>2. Shape
  BY SMT, <1>1 DEF Init, Shape, NoWindow, Strayed, Lives, Peers
<1>3. WindowOK
  BY DEF Init, WindowOK, WindowOf, Remembers, NoWindow
<1>4. NetOK
  <2> SUFFICES ASSUME NEW m \in net PROVE DatagramOK(m)
    BY DEF NetOK
  <2>1. m \in Strayed
    BY <1>1 DEF Init
  <2> QED
    BY SMT, <2>1, Ends, RudpAssumption DEF Init, Strayed, Datagrams, DatagramOK, AcksTaken, NoWindow
<1>5. ConnOK /\ AgreedConnection
  BY RudpAssumption, Ends DEF Init, ConnOK, AgreedConnection
<1>6. AckedWasTaken /\ NoDuplicateFrame
  BY SMT DEF Init, AckedWasTaken, NoDuplicateFrame
<1> QED
  BY <1>2, <1>3, <1>4, <1>5, <1>6 DEF IInv

\* The steps that hear no datagram of the connection.
LEMMA LocalSteps ==
  ASSUME IInv, \/ Hello \/ (\E p \in Peers : Close(p) \/ Queue(p))
               \/ (\E p \in Peers : Listening(p) /\ Malformed(p))
               \/ (\E m \in net : Listening(m.to) /\ OtherConnection(m))
               \/ Poll \/ Tick \/ UNCHANGED vars
  PROVE  IInv'
<1> USE Ends
<1>1. CASE Hello
  <2>1. OwnOnly("client")
    <3>1. net' = net \cup {Packet("client", New, win["client"], "hello", 0, FALSE)}
          /\ conn'["client"] = New /\ win' = win
      BY <1>1 DEF Hello, IInv, Shape
    <3>2. win["client"] \in WindowType
      BY DEF IInv, Shape, WindowType
    <3> QED
      BY <3>1, <3>2, OwnPacket, RudpAssumption DEF Types
  <2>2. /\ conn' \in [Peers -> {NoConn, New, Old}] /\ conn'["client"] = New
        /\ conn'["gateway"] = conn["gateway"]
        /\ \A q \in Peers : conn[q] # NoConn => conn'[q] = conn[q]
    BY <1>1 DEF Hello, IInv, Shape, Peers
  <2>3. life' \in [Peers -> Lives] /\ \A q \in Peers : life'[q] = "established" => life[q] = "established"
    BY <1>1 DEF Hello, IInv, Shape, Lives
  <2>4. UNCHANGED <<menu, win, got, again, next, sent>>
    BY <1>1 DEF Hello
  <2> QED
    BY <2>1, <2>2, <2>3, <2>4, LocalStep, RudpAssumption DEF IInv, Shape, ConnOK
<1>2. ASSUME NEW p \in Peers, Close(p) PROVE IInv'
  <2>1. OwnOnly(p)
    <3>1. net' = net \cup {Packet(p, conn[p], win[p], "close", 0, FALSE)}
          /\ conn' = conn /\ win' = win
      BY <1>2 DEF Close
    <3>2. win[p] \in WindowType /\ conn[p] \in {NoConn, New, Old} /\ conn[p] # NoConn
      BY <1>2 DEF Close, IInv, Shape, WindowType, ConnOK
    <3> QED
      BY <3>1, <3>2, OwnPacket DEF Types
  <2>2. UNCHANGED <<menu, win, got, again, conn, next, sent>>
    BY <1>2 DEF Close
  <2>3. /\ life' \in [Peers -> Lives]
        /\ \A q \in Peers : life'[q] = "established" => life[q] = "established"
        /\ life'["client"] # "idle" => life["client"] # "idle"
    BY <1>2 DEF Close, IInv, Shape, Lives
  <2> QED
    BY <2>1, <2>2, <2>3, LocalStep DEF IInv, Shape, ConnOK
<1>3. ASSUME NEW p \in Peers, Queue(p) PROVE IInv'
  <2>1. next[p] \in Nat \ {0} /\ conn[p] # NoConn
    BY <1>3 DEF Queue, IInv, Shape, ConnOK
  <2>2. OwnOnly(p)
    <3>1. net' = net \cup {Packet(p, conn[p], win[p], "data", next[p], FALSE)}
          /\ conn' = conn /\ win' = win
      BY <1>3 DEF Queue
    <3>2. win[p] \in WindowType /\ conn[p] \in {NoConn, New, Old}
      BY DEF IInv, Shape, WindowType
    <3> QED
      BY <2>1, <3>1, <3>2, OwnPacket DEF Types
  <2>3. UNCHANGED <<menu, win, got, again, conn, life>>
    BY <1>3 DEF Queue
  <2>4. next' = [next EXCEPT ![p] = next[p] + 1]
    BY <1>3 DEF Queue, NumberAfter, IInv, Shape
  <2>5. /\ DOMAIN sent' = Peers
        /\ \A q \in Peers : DOMAIN sent'[q] = IF q = p THEN DOMAIN sent[q] \cup {next[p]} ELSE DOMAIN sent[q]
    BY <1>3 DEF Queue, IInv, Shape
  <2>6. next' \in [Peers -> Nat \ {0}]
    BY SMT, <2>1, <2>4 DEF IInv, Shape
  <2>7. \A q \in Peers : /\ DOMAIN sent'[q] \subseteq 1 .. next'[q] - 1
                         /\ 1 .. next'[q] - 1 \subseteq (1 .. next[q] - 1) \cup DOMAIN sent'[q]
                         /\ DOMAIN sent[q] \subseteq DOMAIN sent'[q]
    <3> SUFFICES ASSUME NEW q \in Peers
                 PROVE  /\ DOMAIN sent'[q] \subseteq 1 .. next'[q] - 1
                        /\ 1 .. next'[q] - 1 \subseteq (1 .. next[q] - 1) \cup DOMAIN sent'[q]
                        /\ DOMAIN sent[q] \subseteq DOMAIN sent'[q]
      OBVIOUS
    <3>1. DOMAIN sent[q] \subseteq 1 .. next[q] - 1 /\ next[q] \in Nat \ {0}
      BY DEF IInv, Shape
    <3>2. next'[q] = IF q = p THEN next[p] + 1 ELSE next[q]
      BY <2>4 DEF IInv, Shape
    <3>3. CASE q = p
      <4>1. DOMAIN sent'[q] = DOMAIN sent[q] \cup {next[q]} /\ next'[q] = next[q] + 1
        BY <2>5, <3>2, <3>3
      <4> QED
        BY SMT, <4>1, <3>1
    <3>4. CASE q # p
      BY <3>1, <3>2, <3>4, <2>5
    <3> QED
      BY <3>3, <3>4
  <2>8. \A q \in Peers : conn'[q] = NoConn => next'[q] = 1
    BY <2>1, <2>3, <2>4 DEF IInv, Shape, ConnOK
  <2> QED
    BY <2>2, <2>3, <2>5, <2>6, <2>7, <2>8, LocalStep DEF IInv, Shape, ConnOK
<1>4. ASSUME NEW p \in Peers, Listening(p), Fallback(p),
             UNCHANGED <<menu, win, got, again, conn, next, net, sent>>
      PROVE  IInv'
  <2>1. OwnOnly(p)
    BY <1>4 DEF OwnOnly
  <2>2. /\ life' \in [Peers -> Lives]
        /\ \A q \in Peers : life'[q] = "established" => life[q] = "established"
        /\ life'["client"] # "idle" => life["client"] # "idle"
    BY <1>4 DEF Fallback, Listening, IInv, Shape, Lives
  <2> QED
    BY <1>4, <2>1, <2>2, LocalStep DEF IInv, Shape, ConnOK
<1>5. ASSUME NEW p \in Peers, UNCHANGED <<menu, win, got, again, conn, next, net, life>>,
             DOMAIN sent' = Peers, \A q \in Peers : DOMAIN sent'[q] = DOMAIN sent[q]
      PROVE  IInv'
  <2>1. OwnOnly(p)
    BY <1>5 DEF OwnOnly
  <2> QED
    BY <1>5, <2>1, LocalStep DEF IInv, Shape, ConnOK
<1>6. ASSUME NEW p \in Peers, Listening(p), Malformed(p) PROVE IInv'
  BY <1>4, <1>6 DEF Malformed
<1>7. ASSUME NEW m \in net, Listening(m.to), OtherConnection(m) PROVE IInv'
  <2>1. m.to \in Peers
    BY DEF IInv, Shape, Datagrams
  <2> QED
    BY <2>1, <1>4, <1>7 DEF OtherConnection
<1>8. ASSUME NEW p \in Peers, PollFallback(p) PROVE IInv'
  <2>1. Listening(p)
    BY <1>8 DEF PollFallback, HandshakeExpired, IdleExpired, Listening
  <2> QED
    BY <2>1, <1>4, <1>8 DEF PollFallback
<1>9. ASSUME NEW p \in Peers, PollRetransmit(p) PROVE IInv'
  <2>1. DOMAIN sent' = Peers /\ \A q \in Peers : DOMAIN sent'[q] = DOMAIN sent[q]
    BY <1>9 DEF PollRetransmit, IInv, Shape
  <2> QED
    BY <2>1, <1>5, <1>9 DEF PollRetransmit
<1>10. CASE Tick \/ UNCHANGED vars
  <2>1. UNCHANGED <<menu, win, got, again, conn, next, net, life, sent>>
    BY <1>10 DEF Tick, vars
  <2>2. DOMAIN sent' = Peers /\ \A q \in Peers : DOMAIN sent'[q] = DOMAIN sent[q]
    BY <2>1 DEF IInv, Shape
  <2> QED
    BY <2>1, <2>2, <1>5
<1> QED
  BY <1>1, <1>2, <1>3, <1>6, <1>7, <1>8, <1>9, <1>10 DEF Poll

\* The datagrams that hand nothing up leave windows and histories alone.
LEMMA HeardQuiet ==
  ASSUME IInv, NEW m \in net, Listening(m.to), Heard(m),
         UNCHANGED <<win, got, again>>, OwnOnly(m.to),
         life' \in [Peers -> Lives],
         life["client"] = "idle" => life'["client"] = "idle",
         \A p \in Peers : life'[p] = "established" =>
             life[p] = "established" \/ (p = m.to /\ m.type \in {"hello", "helloack"})
  PROVE  IInv'
<1>1. WindowOK' /\ NoDuplicateFrame'
  BY DEF IInv, WindowOK, WindowOf, Remembers, NoDuplicateFrame
<1>2. \A p \in Peers : got[p] \subseteq got'[p] /\ win[p].largest <= win'[p].largest
  BY SMT DEF IInv, Shape
<1> QED
  BY <1>1, <1>2, HeardStep DEF IInv, Shape

\* The datagrams of the connection, one by one.
LEMMA HeardSteps ==
  ASSUME IInv, NEW m \in net, Listening(m.to),
         \/ ProcessHello(m) \/ ProcessHelloAck(m) \/ ProcessClose(m) \/ ProcessPing(m)
         \/ DataTooEarly(m) \/ DataDuplicate(m) \/ DataNew(m)
  PROVE  IInv'
<1> DEFINE p == m.to
<1>1. p \in Peers /\ m.num \in Nat
      /\ (m.type = "data" => (m.ackonly <=> m.num = 0))
      /\ (life["client"] = "idle" => p # "client")
  BY DEF IInv, Shape, Datagrams, Listening
<1>2. win[p] \in WindowType /\ got[p] \in SUBSET (Nat \ {0}) /\ life \in [Peers -> Lives]
  BY <1>1 DEF IInv, Shape, WindowType
<1>3. Heard(m) => conn'[p] \in {NoConn, New, Old} /\ (m.conn # NoConn => conn'[p] # NoConn)
  BY <1>1, HeardConn
<1>4. CASE ProcessHello(m)
  <2>1. /\ Heard(m) /\ m.type = "hello" /\ UNCHANGED <<win, got, again>>
        /\ life' = [life EXCEPT ![p] = "established"]
        /\ net' = net \cup {Packet(p, conn'[p], win[p], "helloack", 0, FALSE)}
    BY <1>4 DEF ProcessHello
  <2>2. m.conn # NoConn
    BY <2>1 DEF IInv, NetOK, DatagramOK
  <2>3. OwnOnly(p)
    BY <2>1, <2>2, <1>1, <1>2, <1>3, OwnPacket DEF Types
  <2>4. /\ life' \in [Peers -> Lives] /\ (life["client"] = "idle" => life'["client"] = "idle")
        /\ \A q \in Peers : life'[q] = "established" => life[q] = "established" \/ q = p
    BY <2>1, <1>1, <1>2, Ends DEF Lives
  <2> QED
    BY <2>1, <2>3, <2>4, HeardQuiet
<1>5. CASE ProcessHelloAck(m)
  <2>1. /\ Heard(m) /\ m.type = "helloack" /\ UNCHANGED <<win, got, again, net>>
        /\ life' = [life EXCEPT ![p] = "established"]
    BY <1>5 DEF ProcessHelloAck
  <2>2. OwnOnly(p)
    BY <2>1 DEF OwnOnly
  <2>3. /\ life' \in [Peers -> Lives] /\ (life["client"] = "idle" => life'["client"] = "idle")
        /\ \A q \in Peers : life'[q] = "established" => life[q] = "established" \/ q = p
    BY <2>1, <1>1, <1>2, Ends DEF Lives
  <2> QED
    BY <2>1, <2>2, <2>3, HeardQuiet
<1>6. CASE ProcessClose(m) \/ DataTooEarly(m) \/ DataDuplicate(m)
  <2>1. /\ Heard(m) /\ UNCHANGED <<win, got, again, net>>
        /\ life' = life \/ life' = [life EXCEPT ![p] = "draining"]
    BY <1>6 DEF ProcessClose, DataTooEarly, DataDuplicate, Fallback
  <2>2. OwnOnly(p)
    BY <2>1 DEF OwnOnly
  <2>3. /\ life' \in [Peers -> Lives] /\ (life["client"] = "idle" => life'["client"] = "idle")
        /\ \A q \in Peers : life'[q] = "established" => life[q] = "established"
    BY <2>1, <1>1, <1>2, Ends DEF Lives
  <2> QED
    BY <2>1, <2>2, <2>3, HeardQuiet
<1>7. CASE ProcessPing(m)
  <2>1. /\ Heard(m) /\ UNCHANGED <<win, got, again, life>>
        /\ net' = net \cup {Packet(p, conn'[p], win[p], "data", 0, TRUE)}
    BY <1>7 DEF ProcessPing
  <2>2. OwnOnly(p)
    BY <2>1, <1>1, <1>2, <1>3, OwnPacket DEF Types
  <2> QED
    BY <2>1, <2>2, <1>2, HeardQuiet
<1>8. CASE DataNew(m)
  <2> DEFINE w == Observed(win[p], m.num)
             H == IF m.num = 0 THEN got[p] ELSE got[p] \cup {m.num}
  <2>1. /\ Heard(m) /\ m.type = "data" /\ ObservedNew(win[p], m.num)
        /\ win' = [win EXCEPT ![p] = w] /\ life' = life
        /\ got' = IF m.ackonly THEN got ELSE [got EXCEPT ![p] = @ \cup {m.num}]
        /\ again' = again \cup IF ~m.ackonly /\ m.num \in got[p] THEN {m.num} ELSE {}
        /\ net' = net \/ net' = net \cup {Packet(p, conn'[p], w, "data", 0, TRUE)}
    BY <1>8 DEF DataNew
  <2>2. WindowOf(p)
    BY <1>1 DEF IInv, WindowOK
  <2>3. /\ m.num \notin got[p] /\ w \in WindowType
        /\ win[p].largest <= w.largest /\ Remembers(w, H)
    <3>1. Remembers(win[p], got[p]) /\ ObservedNew(win[p], m.num)
      BY <2>1, <2>2 DEF WindowOf
    <3>2. /\ m.num \notin got[p] /\ w \in WindowType /\ win[p].largest <= w.largest
          /\ m.num = 0 => Remembers(w, got[p])
          /\ m.num # 0 => Remembers(w, got[p] \cup {m.num})
      <4> DEFINE W == win[p]
                 G == got[p]
                 n == m.num
      <4>1. W \in WindowType /\ G \in SUBSET (Nat \ {0}) /\ n \in Nat
            /\ Remembers(W, G) /\ ObservedNew(W, n)
        BY <3>1, <1>1, <1>2
      <4> HIDE DEF W, G, n
      <4>2. /\ n \notin G /\ Observed(W, n) \in WindowType /\ W.largest <= Observed(W, n).largest
            /\ n = 0 => Remembers(Observed(W, n), G)
            /\ n # 0 => Remembers(Observed(W, n), G \cup {n})
        BY <4>1, WindowObserves, Zenon
      <4> QED
        BY <4>2 DEF W, G, n
    <3>3. CASE m.num = 0
      <4>1. H = got[p]
        BY <3>3
      <4> QED
        BY <4>1, <3>2, <3>3
    <3>4. CASE m.num # 0
      <4>1. H = got[p] \cup {m.num}
        BY <3>4
      <4> QED
        BY <4>1, <3>2, <3>4
    <3> QED
      BY <3>3, <3>4
  <2>4. got' = [got EXCEPT ![p] = H]
    BY <1>1, <2>1 DEF IInv, Shape
  <2>5. NoDuplicateFrame'
    BY <2>1, <2>3 DEF IInv, NoDuplicateFrame
  <2>6. win'[p] = w /\ got'[p] = H /\ \A q \in Peers : q # p => win'[q] = win[q] /\ got'[q] = got[q]
    BY <2>1, <2>4, <1>1 DEF IInv, Shape
  <2>7. WindowOK'
    BY <2>3, <2>6 DEF WindowOK, WindowOf, IInv
  <2>8. OwnOnly(p)
    <3>1. CASE net' = net
      BY <3>1 DEF OwnOnly
    <3>2. CASE net' = net \cup {Packet(p, conn'[p], w, "data", 0, TRUE)}
      <4>1. net' = net \cup {Packet(p, conn'[p], win'[p], "data", 0, TRUE)}
        BY <3>2, <2>6
      <4>2. win'[p] \in WindowType /\ conn'[p] \in {NoConn, New, Old}
        BY <2>1, <2>3, <2>6, <1>3
      <4> QED
        BY <4>1, <4>2, <1>1, OwnPacket DEF Types
    <3> QED
      BY <3>1, <3>2, <2>1
  <2>t. /\ win \in [Peers -> WindowType] /\ got \in [Peers -> SUBSET (Nat \ {0})] /\ p \in Peers
        /\ m.num \in Nat /\ w \in WindowType
    BY <1>1, <1>2, <2>3 DEF IInv, Shape, WindowType
  <2>h. H \in SUBSET (Nat \ {0}) /\ got[p] \subseteq H
    BY ONLY <2>t
  <2> HIDE DEF w, H
  <2>9. /\ win' \in [Peers -> [init : BOOLEAN, largest : Nat, mask : SUBSET Nat]]
        /\ got' \in [Peers -> SUBSET (Nat \ {0})]
    <3>1. win' = [win EXCEPT ![p] = w]
      BY <2>1
    <3> QED
      BY ONLY <2>t, <2>h, <2>4, <3>1 DEF WindowType
  <2>10. ASSUME NEW q \in Peers
         PROVE  got[q] \subseteq got'[q] /\ win[q].largest <= win'[q].largest
    <3>1. CASE q = p
      BY <3>1, <2>3, <2>6, <2>h
    <3>2. CASE q # p
      <4>1. win[q].largest \in Nat /\ win'[q] = win[q] /\ got'[q] = got[q]
        BY <2>t, <2>6, <3>2 DEF WindowType
      <4> QED
        BY ONLY <4>1
    <3> QED
      BY <3>1, <3>2
  <2> QED
    BY <2>1, <2>5, <2>7, <2>8, <2>9, <2>10, <1>2, HeardStep
<1> QED
  BY <1>4, <1>5, <1>6, <1>7, <1>8

LEMMA StepOK == IInv /\ [Next]_vars => IInv'
BY LocalSteps, HeardSteps DEF Next, ProcessDatagram, Poll

LEMMA Inductive == Spec => []IInv
BY InitOK, StepOK, PTL DEF Spec

-----------------------------------------------------------------------------
\* RudpEngine hands a frame up at most once, for any window, any number of
\* frames and any traffic of earlier connections.
THEOREM FrameOnce == Spec => []NoDuplicateFrame
<1>1. IInv => NoDuplicateFrame
  BY DEF IInv
<1> QED
  BY <1>1, Inductive, PTL

\* A packet that leaves the retransmission queue was taken by the peer or is
\* Window or more behind what the peer has seen.
THEOREM AckedTaken == Spec => []AckedWasTaken
<1>1. IInv => AckedWasTaken
  BY DEF IInv
<1> QED
  BY <1>1, Inductive, PTL

\* A client is established only on a connection id the gateway has taken up.
THEOREM ConnectionAgreed == Spec => []AgreedConnection
<1>1. IInv => AgreedConnection
  BY DEF IInv
<1> QED
  BY <1>1, Inductive, PTL
=============================================================================
