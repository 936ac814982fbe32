--------------------------- MODULE GatewayProofs ---------------------------
(***************************************************************************)
(* Proofs about Gateway for any number of connections and endpoints, any   *)
(* limits, delays and budgets the configuration lets through, and any      *)
(* inputs of clients and backends.                                         *)
(*                                                                         *)
(* The invariant is one statement about each connection (ConnOK) and one   *)
(* about each endpoint (GuardOK).  The four properties of a connection     *)
(* need each other: a queued timer handler belongs to a session because a  *)
(* session that ended left nothing behind, what was written joins up with  *)
(* what is queued because a socket starts with nothing written, a write    *)
(* completes only for a queue that holds something, and a socket that      *)
(* chunks were written to is closed by a late connect timer alone, because *)
(* the aborted connect of an earlier attempt has run before the next one.  *)
(***************************************************************************)
EXTENDS Gateway, FiniteSetTheorems, SequenceTheorems, TLAPS

\* The chunks behind the first l up to chunk n.
Run(l, n) == [i \in 1..n - l |-> l + i]

\* The numbers forwarded since the last bind and the largest of them.
Sequenced(seq, p) ==
    /\ seq = -1 => p = <<>>
    /\ seq # -1 => p # <<>> /\ seq = p[Len(p)]
    /\ \A i \in 1..Len(p) - 1 : p[i] < p[i + 1]

\* The records of a connection: phase, backend connection, chunks sent,
\* written and lost, UDP part and forwarded numbers.
ConnShape(k, b, n, w, l, u, p) ==
    /\ k \in {"none", "login", "bridge", "gone"}
    /\ DOMAIN b = DOMAIN NoBack
    /\ b.queue \in Seq(Nat) /\ b.writing \in BOOLEAN
    /\ n \in Nat /\ w \in Seq(Nat) /\ l \in Nat
    /\ DOMAIN u = DOMAIN NoUdp /\ u.bound \in BOOLEAN /\ u.seq \in Int
    /\ p \in Seq(Nat)

\* A session exists while its client bridges and leaves nothing behind, and
\* a connection that has none has written nothing yet, or is gone.
Leaves(k, b, w, l, u, p) ==
    /\ b.st # "none" <=> k = "bridge"
    /\ b.st = "none" => b = NoBack /\ u = NoUdp /\ p = <<>>
    /\ k \in {"none", "login"} => w = <<>> /\ l = 0

\* What was written to the socket and what is queued is what was sent behind
\* what was lost, and only a connection that was cut has lost anything.
Joined(b, n, w, l) ==
    /\ w \o b.queue = Run(l, n) /\ l <= n
    /\ l = 0 \/ b.cut = TRUE

\* Only an established socket was written to, one with a queue is writing it,
\* and the handlers of a closed socket run before the next attempt.
Moves(b, n, w, l) ==
    /\ b.st # "none" => Joined(b, n, w, l)
    /\ b.st \notin {"none", "up"} => w = <<>>
    /\ b.st = "up" => b.writing = (b.queue # <<>>)
    /\ b.aborted => b.st = "retry"
    /\ b.late = {} \/ (b.st = "retry" /\ b.cut = TRUE)
    /\ "wrote" \in b.late => b.queue # <<>>

ConnOK(k, b, n, w, l, u, p) ==
    /\ ConnShape(k, b, n, w, l, u, p) /\ Leaves(k, b, w, l, u, p)
    /\ Moves(b, n, w, l) /\ Sequenced(u.seq, p)

ConnAt(c) == ConnOK(conn[c], back[c], sent[c], wrote[c], lost[c], udp[c], passed[c])

\* The variables of connections are functions on Conns.
OverConns ==
    /\ DOMAIN conn = Conns /\ DOMAIN back = Conns /\ DOMAIN sent = Conns
    /\ DOMAIN wrote = Conns /\ DOMAIN lost = Conns /\ DOMAIN udp = Conns /\ DOMAIN passed = Conns
ConnsOK == OverConns /\ \A c \in Conns : ConnAt(c)

-----------------------------------------------------------------------------
(* Sequences. *)

\* The leaves are Zenon's, but for those that name another prover.
USE Zenon

\* A run of chunks is a sequence.
LEMMA RunSeq ==
    ASSUME NEW l \in Nat, NEW n \in Nat, l <= n
    PROVE  /\ Run(l, n) \in Seq(Nat) /\ Len(Run(l, n)) = n - l
           /\ \A i \in 1..n - l : Run(l, n)[i] = l + i
BY SMT DEF Run

\* The elements of a concatenation.
LEMMA ConcatAt ==
    ASSUME NEW w \in Seq(Nat), NEW q \in Seq(Nat), NEW v, v = w \o q
    PROVE  /\ v \in Seq(Nat) /\ Len(v) = Len(w) + Len(q) /\ Len(w) \in Nat /\ Len(q) \in Nat
           /\ \A i \in 1..Len(w) + Len(q) : v[i] = IF i <= Len(w) THEN w[i] ELSE q[i - Len(w)]
<1>1. Len(w) \in Nat /\ Len(q) \in Nat
    BY LenProperties
<1>2. /\ w \o q \in Seq(Nat) /\ Len(w \o q) = Len(w) + Len(q)
      /\ \A i \in 1..Len(w) + Len(q) : (w \o q)[i] = IF i <= Len(w) THEN w[i] ELSE q[i - Len(w)]
    BY ConcatProperties, Zenon
<1> QED
    BY ONLY <1>1, <1>2, v = w \o q, Zenon

\* The next chunk joins the queue: the count goes on.
LEMMA CountAppend ==
    ASSUME NEW l \in Nat, NEW n \in Nat, l <= n, NEW w \in Seq(Nat), NEW q \in Seq(Nat),
           w \o q = Run(l, n)
    PROVE  w \o Append(q, n + 1) = Run(l, n + 1)
<1> DEFINE a == Append(q, n + 1)
           v == w \o a
           m == Run(l, n)
           z == Run(l, n + 1)
<1>1. a \in Seq(Nat) /\ Len(a) = Len(q) + 1 /\ a[Len(q) + 1] = n + 1
      /\ \A i \in 1..Len(q) : a[i] = q[i]
    BY SMT, AppendProperties
<1>2. m = w \o q
    OBVIOUS
<1> DEFINE j == n - l
<1>0. j \in Nat /\ n = l + j /\ n + 1 \in Nat /\ l <= n + 1 /\ (n + 1) - l = j + 1
    BY SMT
<1>3. /\ Len(m) = j /\ \A i \in 1..j : m[i] = l + i
      /\ z \in Seq(Nat) /\ Len(z) = j + 1 /\ \A i \in 1..j + 1 : z[i] = l + i
    <2>1. Len(m) = j /\ \A i \in 1..j : m[i] = l + i
        BY RunSeq
    <2>2. z \in Seq(Nat) /\ Len(z) = (n + 1) - l /\ \A i \in 1..(n + 1) - l : z[i] = l + i
        BY ONLY <1>0, l \in Nat, RunSeq
    <2> HIDE DEF j, z
    <2> QED
        BY ONLY <1>0, <2>1, <2>2, Zenon
<1> HIDE DEF j
<1> HIDE DEF a, m, z
<1>4. /\ Len(m) = Len(w) + Len(q) /\ Len(w) \in Nat /\ Len(q) \in Nat
      /\ \A i \in 1..Len(w) + Len(q) : m[i] = IF i <= Len(w) THEN w[i] ELSE q[i - Len(w)]
    BY ONLY <1>2, ConcatAt, w \in Seq(Nat), q \in Seq(Nat)
<1>5. /\ v \in Seq(Nat) /\ Len(v) = Len(w) + Len(a)
      /\ \A i \in 1..Len(w) + Len(a) : v[i] = IF i <= Len(w) THEN w[i] ELSE a[i - Len(w)]
    BY ONLY <1>1, ConcatAt, w \in Seq(Nat)
<1>n. /\ Len(a) = Len(q) + 1 /\ j = Len(w) + Len(q) /\ Len(w) \in Nat /\ Len(q) \in Nat
      /\ j \in Nat /\ l \in Nat /\ n = l + j
    BY ONLY <1>0, <1>1, <1>3, <1>4, l \in Nat
<1> HIDE DEF v
<1>6. ASSUME NEW i \in 1..j + 1
      PROVE  v[i] = z[i]
    <2>1. CASE i = j + 1
        <3>1. i - Len(w) = Len(q) + 1 /\ i \in 1..Len(w) + Len(a) /\ ~(i <= Len(w))
            BY ONLY <1>n, <2>1
        <3>2. v[i] = a[i - Len(w)] /\ z[i] = l + i
            BY ONLY <1>3, <1>5, <1>6, <3>1, SMTT(30)
        <3> QED
            BY ONLY <1>1, <1>n, <2>1, <3>1, <3>2
    <2>2. CASE i \in 1..j /\ i <= Len(w)
        <3>1. i \in 1..Len(w) + Len(q) /\ i \in 1..Len(w) + Len(a)
            BY ONLY <1>n, <2>2
        <3>2. v[i] = w[i] /\ m[i] = w[i] /\ m[i] = l + i /\ z[i] = l + i
            BY ONLY <1>3, <1>4, <1>5, <1>6, <2>2, <3>1
        <3> QED
            BY ONLY <3>2
    <2>3. CASE i \in 1..j /\ i > Len(w)
        <3>1. i - Len(w) \in 1..Len(q) /\ i \in 1..Len(w) + Len(a) /\ ~(i <= Len(w))
            BY ONLY <1>n, <2>3
        <3>2. v[i] = a[i - Len(w)] /\ m[i] = q[i - Len(w)] /\ m[i] = l + i /\ z[i] = l + i
            BY ONLY <1>3, <1>4, <1>5, <2>3, <3>1, <1>n
        <3> QED
            BY ONLY <1>1, <3>1, <3>2
    <2> QED
        BY ONLY <1>4, <1>6, <2>1, <2>2, <2>3, <1>n
<1>7. v = z
    <2>1. Len(v) = j + 1
        BY ONLY <1>5, <1>n
    <2> QED
        BY ONLY <1>3, <1>5, <1>6, <2>1, SeqEqual
<1> QED
    BY ONLY <1>7 DEF a, v, z

\* The head of the queue moves to what was written.
LEMMA MoveHead ==
    ASSUME NEW w \in Seq(Nat), NEW q \in Seq(Nat), q # <<>>
    PROVE  Append(w, Head(q)) \o Tail(q) = w \o q
<1> DEFINE a == Append(w, Head(q))
           t == Tail(q)
           v == a \o t
           m == w \o q
<1>1. /\ Len(q) \in Nat \ {0} /\ Head(q) \in Nat /\ Head(q) = q[1]
      /\ t \in Seq(Nat) /\ Len(t) = Len(q) - 1
    BY SMT, HeadTailProperties, LenProperties, EmptySeq
<1>2. \A i \in 1..Len(t) : t[i] = q[i + 1]
    BY HeadTailProperties
<1>3. a \in Seq(Nat) /\ Len(a) = Len(w) + 1 /\ a[Len(w) + 1] = q[1]
      /\ \A i \in 1..Len(w) : a[i] = w[i]
    BY SMT, <1>1, AppendProperties
<1> HIDE DEF a, t
<1>4. /\ v \in Seq(Nat) /\ Len(v) = Len(a) + Len(t)
      /\ \A i \in 1..Len(a) + Len(t) : v[i] = IF i <= Len(a) THEN a[i] ELSE t[i - Len(a)]
    <2>1. a \in Seq(Nat) /\ t \in Seq(Nat)
        BY ONLY <1>1, <1>3
    <2> QED
        BY ONLY <2>1, ConcatAt
<1>5. /\ m \in Seq(Nat) /\ Len(m) = Len(w) + Len(q) /\ Len(w) \in Nat
      /\ \A i \in 1..Len(w) + Len(q) : m[i] = IF i <= Len(w) THEN w[i] ELSE q[i - Len(w)]
    BY ONLY ConcatAt, w \in Seq(Nat), q \in Seq(Nat)
<1> HIDE DEF v, m
<1>6. Len(v) = Len(m)
    BY ONLY <1>1, <1>3, <1>4, <1>5
<1>7. ASSUME NEW i \in 1..Len(v)
      PROVE  v[i] = m[i]
    <2>0. i \in 1..Len(w) + Len(q) /\ i \in 1..Len(a) + Len(t)
        BY ONLY <1>1, <1>4, <1>5, <1>6, <1>7
    <2>1. CASE i <= Len(w)
        <3>1. i \in 1..Len(w) /\ i <= Len(a)
            BY ONLY <1>3, <1>5, <2>0, <2>1
        <3>2. v[i] = a[i] /\ m[i] = w[i]
            BY ONLY <1>4, <1>5, <2>0, <2>1, <3>1
        <3> QED
            BY ONLY <1>3, <3>1, <3>2
    <2>2. CASE i = Len(w) + 1
        <3>1. i <= Len(a) /\ ~(i <= Len(w)) /\ i - Len(w) = 1
            BY ONLY <1>3, <1>5, <2>2
        <3>2. v[i] = a[i] /\ m[i] = q[i - Len(w)]
            BY ONLY <1>4, <1>5, <2>0, <3>1
        <3> QED
            BY ONLY <1>3, <2>2, <3>1, <3>2
    <2>3. CASE i > Len(w) + 1
        <3>0. Len(a) = Len(w) + 1 /\ Len(w) \in Nat /\ Len(t) \in Nat /\ Len(q) \in Nat
            BY ONLY <1>1, <1>3, <1>5
        <3>1. /\ i - Len(a) \in 1..Len(t) /\ (i - Len(a)) + 1 = i - Len(w)
              /\ ~(i <= Len(a)) /\ ~(i <= Len(w))
            BY ONLY <2>0, <2>3, <3>0
        <3>2. v[i] = t[i - Len(a)] /\ m[i] = q[i - Len(w)]
            BY ONLY <1>4, <1>5, <2>0, <3>1
        <3> QED
            BY ONLY <1>2, <3>1, <3>2
    <2> QED
        <3>1. i <= Len(w) \/ i = Len(w) + 1 \/ i > Len(w) + 1
            BY ONLY <1>5, <2>0
        <3> QED
            BY ONLY <2>1, <2>2, <2>3, <3>1
<1>8. v = m
    BY ONLY <1>4, <1>5, <1>6, <1>7, SeqEqual
<1> QED
    BY ONLY <1>8 DEF a, t, v, m

\* A new socket goes on behind what the old one was sent.
LEMMA DropRun ==
    ASSUME NEW l \in Nat, NEW n \in Nat, l <= n, NEW w \in Seq(Nat), NEW q \in Seq(Nat),
           w \o q = Run(l, n)
    PROVE  /\ l + Len(w) \in Nat /\ l + Len(w) <= n
           /\ <<>> \o q = Run(l + Len(w), n)
<1> DEFINE m == Run(l, n)
           k == l + Len(w)
           z == Run(k, n)
<1>1. Len(m) = n - l /\ \A i \in 1..n - l : m[i] = l + i
    BY RunSeq
<1>2. m = w \o q
    OBVIOUS
<1> HIDE DEF m
<1>3. /\ Len(m) = Len(w) + Len(q) /\ Len(w) \in Nat /\ Len(q) \in Nat
      /\ \A i \in 1..Len(w) + Len(q) : m[i] = IF i <= Len(w) THEN w[i] ELSE q[i - Len(w)]
    BY ONLY <1>2, ConcatAt, w \in Seq(Nat), q \in Seq(Nat)
<1>4. k \in Nat /\ k <= n /\ n - k = Len(q) /\ k = l + Len(w) /\ n - l = Len(w) + Len(q)
    <2>1. n - l = Len(w) + Len(q) /\ Len(w) \in Nat /\ Len(q) \in Nat
        BY ONLY <1>1, <1>3, Zenon
    <2> QED
        BY ONLY <2>1, l \in Nat, n \in Nat, l <= n, SMT
<1> HIDE DEF k
<1>5. z \in Seq(Nat) /\ Len(z) = n - k /\ \A i \in 1..n - k : z[i] = k + i
    BY ONLY <1>4, n \in Nat, RunSeq
<1> HIDE DEF z
<1>6. ASSUME NEW i \in 1..Len(q)
      PROVE  q[i] = z[i]
    <2> DEFINE h == i + Len(w)
    <2>1. h \in 1..Len(w) + Len(q) /\ ~(h <= Len(w)) /\ h - Len(w) = i
        BY ONLY <1>3, <1>6, SMT
    <2>2. h \in 1..n - l /\ i \in 1..n - k /\ l + h = k + i
        BY ONLY <1>3, <1>4, <1>6, l \in Nat, SMT
    <2> HIDE DEF h
    <2>3. m[h] = q[h - Len(w)] /\ m[h] = l + h /\ z[i] = k + i
        BY ONLY <1>1, <1>3, <1>5, <2>1, <2>2, Zenon
    <2> QED
        BY ONLY <2>1, <2>2, <2>3, Zenon
<1>7. q = z
    <2>1. Len(q) = Len(z)
        BY ONLY <1>4, <1>5
    <2> QED
        BY ONLY <1>5, <1>6, <2>1, q \in Seq(Nat), SeqEqual
<1>8. <<>> \o q = q
    BY ONLY q \in Seq(Nat), ConcatEmptySeq
<1> QED
    BY ONLY <1>4, <1>7, <1>8 DEF k, z

-----------------------------------------------------------------------------
(* What a handler does to the record of one connection. *)

\* on_disconnect leaves nothing of a session.
LEMMA EndOK ==
    ASSUME NEW k, NEW b, NEW n, NEW w, NEW l, NEW u, NEW p, ConnOK(k, b, n, w, l, u, p)
    PROVE  ConnOK("gone", NoBack, n, w, l, NoUdp, <<>>)
<1>1. <<>> \in Seq(Nat) /\ Len(<<>>) = 0
    BY EmptySeq
<1>2. n \in Nat /\ w \in Seq(Nat) /\ l \in Nat
    BY DEF ConnOK, ConnShape
<1>3. ConnShape("gone", NoBack, n, w, l, NoUdp, <<>>)
    BY ONLY <1>1, <1>2 DEF ConnShape, NoBack, NoUdp
<1>4. /\ Leaves("gone", NoBack, w, l, NoUdp, <<>>) /\ Moves(NoBack, n, w, l)
      /\ Sequenced(NoUdp.seq, <<>>)
    BY ONLY <1>1 DEF Leaves, Moves, Sequenced, NoBack, NoUdp
<1> QED
    BY <1>3, <1>4 DEF ConnOK

\* The backend connection changes its state, on the same socket or before it
\* has one, and keeps its queue.
LEMMA BackOK ==
    ASSUME NEW k, NEW b, NEW n, NEW w, NEW l, NEW u, NEW p, ConnOK(k, b, n, w, l, u, p),
           b.st # "none", NEW d, DOMAIN d = DOMAIN NoBack, d.st # "none", d.queue = b.queue,
           d.writing \in BOOLEAN, d.st = "up" => d.writing = (d.queue # <<>>),
           b.st = "up" => d.st = "up", d.aborted => d.st = "retry", d.cut = b.cut,
           d.late = b.late, b.late = {} \/ d.st = "retry"
    PROVE  ConnOK(k, d, n, w, l, u, p)
<1>1. ConnShape(k, d, n, w, l, u, p) /\ Leaves(k, d, w, l, u, p)
    BY DEF ConnOK, ConnShape, Leaves
<1>2. Joined(d, n, w, l)
    BY DEF ConnOK, Moves, Joined
<1>3. Moves(d, n, w, l)
    BY <1>2 DEF ConnOK, Moves
<1> QED
    BY <1>1, <1>3 DEF ConnOK

\* The socket is closed for another attempt: what it was sent is behind.
LEMMA ResetOK ==
    ASSUME NEW k, NEW b, NEW n, NEW w, NEW l, NEW u, NEW p, ConnOK(k, b, n, w, l, u, p),
           b.st # "none", NEW d, DOMAIN d = DOMAIN NoBack, d.st = "retry", d.queue = b.queue,
           d.writing = FALSE, b.cut = TRUE => d.cut = TRUE, b.st = "up" => d.cut = TRUE,
           d.late = {} \/ d.cut = TRUE, "wrote" \in d.late => d.queue # <<>>
    PROVE  ConnOK(k, d, n, <<>>, l + Len(w), u, p)
<1>1. /\ n \in Nat /\ l \in Nat /\ w \in Seq(Nat) /\ b.queue \in Seq(Nat)
      /\ w \o b.queue = Run(l, n) /\ l <= n /\ (l = 0 \/ b.cut = TRUE)
    BY DEF ConnOK, ConnShape, Moves, Joined
<1>2. /\ l + Len(w) \in Nat /\ l + Len(w) <= n /\ <<>> \o d.queue = Run(l + Len(w), n)
    <2> DEFINE q == b.queue
    <2>1. /\ q \in Seq(Nat) /\ w \o q = Run(l, n) /\ w \in Seq(Nat) /\ l \in Nat /\ n \in Nat
          /\ l <= n /\ d.queue = q
        BY <1>1
    <2> HIDE DEF q
    <2>2. l + Len(w) \in Nat /\ l + Len(w) <= n /\ <<>> \o q = Run(l + Len(w), n)
        BY ONLY <2>1, DropRun, ZenonT(30)
    <2> QED
        BY ONLY <2>1, <2>2, Zenon
<1>3. l + Len(w) = 0 \/ d.cut = TRUE
    <2>1. CASE b.st = "up"
        BY <2>1
    <2>2. CASE b.st # "up"
        <3>1. w = <<>>
            BY <2>2 DEF ConnOK, Moves
        <3>2. l + Len(w) = l
            BY ONLY <1>1, <3>1, EmptySeq, SMT
        <3> QED
            BY <1>1, <3>2
    <2> QED
        BY <2>1, <2>2
<1>4. <<>> \in Seq(Nat)
    BY EmptySeq
<1>5. ConnShape(k, d, n, <<>>, l + Len(w), u, p)
    BY <1>2, <1>4 DEF ConnOK, ConnShape
<1>6. Leaves(k, d, <<>>, l + Len(w), u, p)
    BY DEF ConnOK, Leaves
<1>7. Joined(d, n, <<>>, l + Len(w))
    BY <1>2, <1>3 DEF Joined
<1>8. Moves(d, n, <<>>, l + Len(w))
    BY <1>7 DEF Moves
<1> QED
    BY <1>5, <1>6, <1>8 DEF ConnOK

\* A write of the closed socket is popped: one chunk more is behind.
LEMMA LateOK ==
    ASSUME NEW k, NEW b, NEW n, NEW w, NEW l, NEW u, NEW p, ConnOK(k, b, n, w, l, u, p),
           "wrote" \in b.late, NEW d, DOMAIN d = DOMAIN NoBack, d.st = b.st,
           d.queue = Tail(b.queue), d.writing = b.writing, d.cut = b.cut, "wrote" \notin d.late
    PROVE  ConnOK(k, d, n, w, l + 1, u, p)
<1>1. b.st = "retry" /\ b.cut = TRUE /\ b.queue # <<>> /\ w = <<>> /\ k = "bridge"
    BY DEF ConnOK, Moves, Leaves
<1>2. /\ n \in Nat /\ l \in Nat /\ b.queue \in Seq(Nat) /\ l <= n
      /\ <<>> \o b.queue = Run(l, n) /\ <<>> \in Seq(Nat)
    BY <1>1 DEF ConnOK, ConnShape, Moves, Joined
<1> DEFINE h == Append(<<>>, Head(b.queue))
           t == Tail(b.queue)
<1>3. Head(b.queue) \in Nat /\ t \in Seq(Nat)
    BY ONLY <1>1, <1>2, HeadTailProperties
<1>4. h \in Seq(Nat) /\ Len(h) = 1
    <2>1. h \in Seq(Nat) /\ Len(h) = Len(<<>>) + 1
        BY ONLY <1>2, <1>3, AppendProperties
    <2> HIDE DEF h
    <2>2. Len(<<>>) = 0
        BY EmptySeq
    <2> QED
        BY ONLY <2>1, <2>2, SMT
<1>5. h \o t = Run(l, n)
    BY ONLY <1>1, <1>2, MoveHead
<1> HIDE DEF h, t
<1>6. l + Len(h) \in Nat /\ l + Len(h) <= n /\ <<>> \o t = Run(l + Len(h), n)
    BY ONLY <1>2, <1>3, <1>4, <1>5, DropRun
<1>7. l + 1 \in Nat /\ l + 1 <= n /\ <<>> \o t = Run(l + 1, n)
    BY ONLY <1>4, <1>6, Zenon
<1>8. d.queue = t
    BY DEF t
<1>9. ConnShape(k, d, n, w, l + 1, u, p) /\ Leaves(k, d, w, l + 1, u, p)
    BY <1>1, <1>3, <1>7, <1>8 DEF ConnOK, ConnShape, Leaves
<1>10. Joined(d, n, w, l + 1)
    BY <1>1, <1>7, <1>8 DEF Joined
<1>11. Moves(d, n, w, l + 1)
    BY <1>1, <1>10 DEF Moves
<1> QED
    BY <1>9, <1>11 DEF ConnOK

\* The UDP part changes and keeps its last number.
LEMMA UdpOK ==
    ASSUME NEW k, NEW b, NEW n, NEW w, NEW l, NEW u, NEW p, ConnOK(k, b, n, w, l, u, p),
           b.st # "none", NEW v, NEW r \in Seq(Nat), DOMAIN v = DOMAIN NoUdp, v.bound \in BOOLEAN,
           v.seq \in Int, Sequenced(v.seq, r)
    PROVE  ConnOK(k, b, n, w, l, v, r)
BY DEF ConnOK, ConnShape, Leaves

\* A login that is taken: the first chunk waits for the backend.
LEMMA LoginOK ==
    ASSUME NEW b, NEW n, NEW w, NEW l, NEW u, NEW p, ConnOK("login", b, n, w, l, u, p),
           NEW v, DOMAIN v = DOMAIN NoUdp, v.bound = FALSE, v.seq = -1
    PROVE  ConnOK("bridge", [NoBack EXCEPT !.st = "resolving", !.queue = <<1>>], 1, w, l, v, p)
<1> DEFINE d == [NoBack EXCEPT !.st = "resolving", !.queue = <<1>>]
<1>1. /\ d.st = "resolving" /\ d.queue = <<1>> /\ d.writing = FALSE /\ DOMAIN d = DOMAIN NoBack
      /\ d.aborted = FALSE /\ d.late = {}
    BY DEF NoBack
<1>2. w = <<>> /\ l = 0 /\ p = <<>>
    BY DEF ConnOK, Leaves
<1>3. <<>> \in Seq(Nat) /\ Len(<<>>) = 0 /\ <<1>> \in Seq(Nat) /\ <<>> \o <<1>> = <<1>>
    BY SMT, EmptySeq, ConcatEmptySeq
<1>4. <<1>> = Run(0, 1)
    <2> DEFINE a == <<1>>
               z == Run(0, 1)
    <2>1. a \in Seq(Nat) /\ Len(a) = 1 /\ a[1] = 1
        BY SMT
    <2>2. z \in Seq(Nat) /\ Len(z) = 1 /\ z[1] = 1
        <3>1. z \in Seq(Nat) /\ Len(z) = 1 - 0 /\ \A i \in 1..1 - 0 : z[i] = 0 + i
            <4>1. 0 \in Nat /\ 1 \in Nat /\ 0 <= 1
                BY SMT
            <4> QED
                BY ONLY <4>1, RunSeq
        <3> HIDE DEF z
        <3> QED
            BY ONLY <3>1, SMT
    <2> HIDE DEF a, z
    <2>3. \A i \in 1..Len(a) : a[i] = z[i]
        BY ONLY <2>1, <2>2
    <2>4. a = z
        BY ONLY <2>1, <2>2, <2>3, SeqEqual
    <2> QED
        BY ONLY <2>4 DEF a, z
<1> HIDE DEF d
<1>5. ConnShape("bridge", d, 1, w, l, v, p)
    <2>1. /\ d.queue \in Seq(Nat) /\ w \in Seq(Nat) /\ p \in Seq(Nat)
        BY ONLY <1>1, <1>2, <1>3, Zenon
    <2>2. 1 \in Nat /\ l \in Nat /\ v.seq \in Int
        BY ONLY <1>2, v.seq = -1, SMT
    <2>3. d.writing \in BOOLEAN /\ v.bound \in BOOLEAN
        BY ONLY <1>1, v.bound = FALSE, Zenon
    <2> QED
        BY ONLY <1>1, <2>1, <2>2, <2>3, DOMAIN v = DOMAIN NoUdp, Zenon DEF ConnShape
<1>6. Leaves("bridge", d, w, l, v, p) /\ Moves(d, 1, w, l)
    <2>1. 0 <= 1
        BY SMT
    <2>2. Joined(d, 1, w, l)
        BY ONLY <1>1, <1>2, <1>3, <1>4, <2>1, Zenon DEF Joined
    <2> QED
        BY ONLY <1>1, <1>2, <2>2, Zenon DEF Leaves, Moves
<1>7. Sequenced(v.seq, p)
    BY ONLY <1>2, <1>3, v.seq = -1 DEF Sequenced
<1> QED
    BY <1>5, <1>6, <1>7 DEF ConnOK, d

\* send() queues a chunk, and a connected session then writes.
LEMMA QueuedOK ==
    ASSUME NEW k, NEW b, NEW n, NEW w, NEW l, NEW u, NEW p, ConnOK(k, b, n, w, l, u, p),
           b.st # "none"
    PROVE  ConnOK(k, Queued(b, n + 1), n + 1, w, l, u, p)
<1> DEFINE d == Queued(b, n + 1)
<1>1. /\ n \in Nat /\ w \in Seq(Nat) /\ b.queue \in Seq(Nat) /\ b.writing \in BOOLEAN
      /\ DOMAIN b = DOMAIN NoBack /\ w \o b.queue = Run(l, n) /\ l \in Nat /\ l <= n
    BY DEF ConnOK, ConnShape, Moves, Joined
<1>2. /\ d.st = b.st /\ d.queue = Append(b.queue, n + 1) /\ DOMAIN d = DOMAIN NoBack
      /\ d.writing = (b.writing \/ b.st = "up") /\ d.aborted = b.aborted
      /\ d.late = b.late /\ d.cut = b.cut
    BY ONLY <1>1 DEF Queued, NoBack
<1>3. d.queue \in Seq(Nat) /\ d.queue # <<>> /\ w \o d.queue = Run(l, n + 1)
    <2>1. n + 1 \in Nat
        BY ONLY <1>1
    <2>2. Append(b.queue, n + 1) \in Seq(Nat) /\ Append(b.queue, n + 1) # <<>>
        <3> DEFINE q == b.queue
                   m == n + 1
        <3>1. q \in Seq(Nat) /\ m \in Nat
            BY ONLY <1>1, <2>1
        <3> HIDE DEF q, m
        <3>2. Append(q, m) \in Seq(Nat) /\ Append(q, m) # <<>>
            BY ONLY <3>1, AppendProperties
        <3> QED
            BY ONLY <3>2 DEF q, m
    <2>3. w \o Append(b.queue, n + 1) = Run(l, n + 1)
        BY ONLY <1>1, CountAppend, Zenon
    <2> QED
        BY ONLY <1>2, <2>2, <2>3, Zenon
<1> HIDE DEF d
<1>4. ConnShape(k, d, n + 1, w, l, u, p)
    BY SMT, <1>1, <1>2, <1>3 DEF ConnOK, ConnShape
<1>5. Leaves(k, d, w, l, u, p) /\ Moves(d, n + 1, w, l)
    <2>1. l <= n + 1
        BY ONLY <1>1, SMT
    <2>2. Joined(d, n + 1, w, l)
        BY <1>2, <1>3, <2>1 DEF ConnOK, Moves, Joined
    <2> QED
        BY <1>1, <1>2, <1>3, <2>2 DEF ConnOK, Leaves, Moves
<1> QED
    BY <1>4, <1>5 DEF ConnOK, d

\* A write completes: the head of the queue is written, the next one follows.
LEMMA WroteOK ==
    ASSUME NEW k, NEW b, NEW n, NEW w, NEW l, NEW u, NEW p, ConnOK(k, b, n, w, l, u, p),
           b.st = "up", b.writing,
           NEW d, DOMAIN d = DOMAIN NoBack, d.st = "up", d.queue = Tail(b.queue),
           d.writing = (Len(b.queue) > 1), d.aborted = b.aborted, d.late = b.late, d.cut = b.cut
    PROVE  ConnOK(k, d, n, Append(w, Head(b.queue)), l, u, p)
<1>1. /\ n \in Nat /\ w \in Seq(Nat) /\ b.queue \in Seq(Nat) /\ b.queue # <<>>
      /\ w \o b.queue = Run(l, n) /\ k = "bridge" /\ b.late = {} /\ ~b.aborted
    BY DEF ConnOK, ConnShape, Leaves, Moves, Joined
<1>2. /\ Head(b.queue) \in Nat /\ Tail(b.queue) \in Seq(Nat) /\ Len(b.queue) \in Nat \ {0}
      /\ Len(Tail(b.queue)) = Len(b.queue) - 1
    BY ONLY <1>1, HeadTailProperties, EmptySeq
<1>3. Append(w, Head(b.queue)) \in Seq(Nat)
      /\ Append(w, Head(b.queue)) \o Tail(b.queue) = Run(l, n)
    BY ONLY <1>1, <1>2, MoveHead, AppendProperties
<1>4. (Len(b.queue) > 1) = (Tail(b.queue) # <<>>)
    <2> DEFINE r == Tail(b.queue)
               z == Len(b.queue)
    <2>1. r \in Seq(Nat) /\ z \in Nat \ {0} /\ Len(r) = z - 1
        BY ONLY <1>2
    <2> HIDE DEF r, z
    <2>2. r = <<>> <=> Len(r) = 0
        BY ONLY <2>1, EmptySeq
    <2>3. z > 1 <=> r # <<>>
        BY ONLY <2>1, <2>2
    <2>4. (z > 1) = (r # <<>>)
        BY ONLY <2>3
    <2> QED
        BY ONLY <2>4 DEF r, z
<1>5. ConnShape(k, d, n, Append(w, Head(b.queue)), l, u, p)
    BY SMT, <1>1, <1>2, <1>3 DEF ConnOK, ConnShape
<1>6. Leaves(k, d, Append(w, Head(b.queue)), l, u, p)
    BY <1>1 DEF ConnOK, Leaves
<1>7. Moves(d, n, Append(w, Head(b.queue)), l)
    <2>1. Joined(d, n, Append(w, Head(b.queue)), l)
        BY <1>3 DEF ConnOK, Moves, Joined
    <2> QED
        BY <1>1, <1>4, <2>1 DEF Moves
<1> QED
    BY <1>5, <1>6, <1>7 DEF ConnOK

\* A number that is accepted is larger than all that were forwarded.
LEMMA SequencedAppend ==
    ASSUME NEW u, NEW p \in Seq(Nat), NEW s \in Nat, u.seq \in Int, Sequenced(u.seq, p),
           Accepts(u, s)
    PROVE  Append(p, s) \in Seq(Nat) /\ Sequenced(s, Append(p, s))
<1> DEFINE q == Append(p, s)
<1>1. /\ q \in Seq(Nat) /\ q # <<>> /\ Len(q) = Len(p) + 1 /\ Len(p) \in Nat
      /\ \A i \in 1..Len(p) : q[i] = p[i]
      /\ q[Len(p) + 1] = s
    BY ONLY AppendProperties, LenProperties, p \in Seq(Nat), s \in Nat
<1>2. p = <<>> \/ (Len(p) \in Nat \ {0} /\ p[Len(p)] < s)
    BY EmptySeq DEF Sequenced, Accepts
<1>3. \A i \in 1..Len(p) - 1 : p[i] < p[i + 1]
    BY DEF Sequenced
<1> HIDE DEF q
<1>4. ASSUME NEW i \in 1..Len(q) - 1
      PROVE  q[i] < q[i + 1]
    <2>1. i \in 1..Len(p) /\ q[i] = p[i]
        BY ONLY <1>1, <1>4
    <2>2. CASE i = Len(p)
        BY ONLY <1>1, <1>2, <2>1, <2>2, EmptySeq
    <2>3. CASE i < Len(p)
        BY ONLY <1>1, <1>3, <2>1, <2>3, SMTT(30)
    <2> QED
        BY ONLY <1>1, <2>1, <2>2, <2>3
<1>5. s # -1 /\ s = q[Len(q)]
    BY ONLY <1>1, s \in Nat
<1> QED
    BY ONLY <1>1, <1>4, <1>5 DEF Sequenced, q

-----------------------------------------------------------------------------
(* What a step does to all connections. *)

\* Only connection c changes.
Others(c) ==
    \A d \in Conns \ {c} :
        /\ conn'[d] = conn[d] /\ back'[d] = back[d] /\ sent'[d] = sent[d]
        /\ wrote'[d] = wrote[d] /\ lost'[d] = lost[d] /\ udp'[d] = udp[d] /\ passed'[d] = passed[d]

\* A step of one connection that keeps it in order keeps all in order.
LEMMA OneConn ==
    ASSUME ConnsOK, NEW c \in Conns, OverConns', Others(c),
           ConnOK(conn'[c], back'[c], sent'[c], wrote'[c], lost'[c], udp'[c], passed'[c])
    PROVE  ConnsOK'
<1>1. ASSUME NEW d \in Conns
      PROVE  ConnOK(conn'[d], back'[d], sent'[d], wrote'[d], lost'[d], udp'[d], passed'[d])
    <2>1. CASE d = c
        BY <2>1
    <2>2. CASE d # c
        BY <2>2 DEF Others, ConnsOK, ConnAt
    <2> QED
        BY <2>1, <2>2
<1> QED
    BY <1>1 DEF ConnsOK, ConnAt

\* The end of a client connection.
LEMMA EndStep ==
    ASSUME ConnsOK, NEW c \in Conns, End(c), UNCHANGED <<sent, wrote, lost>>
    PROVE  ConnsOK'
<1>1. OverConns' /\ Others(c)
    BY DEF ConnsOK, OverConns, Others, End
<1>2. /\ conn'[c] = "gone" /\ back'[c] = NoBack /\ sent'[c] = sent[c]
      /\ wrote'[c] = wrote[c] /\ lost'[c] = lost[c]
      /\ udp'[c] = NoUdp /\ passed'[c] = <<>>
    BY DEF ConnsOK, OverConns, End
<1>3. ConnOK(conn'[c], back'[c], sent'[c], wrote'[c], lost'[c], udp'[c], passed'[c])
    <2>1. ConnOK(conn[c], back[c], sent[c], wrote[c], lost[c], udp[c], passed[c])
        BY DEF ConnsOK, ConnAt
    <2>2. ConnOK("gone", NoBack, sent[c], wrote[c], lost[c], NoUdp, <<>>)
        BY ONLY <2>1, EndOK
    <2> QED
        BY ONLY <1>2, <2>2, Zenon
<1> QED
    BY <1>1, <1>3, OneConn

\* A step of the backend connection alone.
LEMMA BackStep ==
    ASSUME ConnsOK, NEW c \in Conns, NEW d, back' = [back EXCEPT ![c] = d],
           UNCHANGED <<conn, sent, wrote, lost, udp, passed>>, back[c].st # "none",
           DOMAIN d = DOMAIN NoBack, d.st # "none", d.queue = back[c].queue,
           d.writing \in BOOLEAN, d.st = "up" => d.writing = (d.queue # <<>>),
           back[c].st = "up" => d.st = "up", d.aborted => d.st = "retry", d.cut = back[c].cut,
           d.late = back[c].late, back[c].late = {} \/ d.st = "retry"
    PROVE  ConnsOK'
<1>1. OverConns' /\ Others(c)
    BY DEF ConnsOK, OverConns, Others
<1>2. back'[c] = d
    BY DEF ConnsOK, OverConns
<1>3. ConnOK(conn'[c], d, sent'[c], wrote'[c], lost'[c], udp'[c], passed'[c])
    BY BackOK DEF ConnsOK, ConnAt
<1> QED
    BY <1>1, <1>2, <1>3, OneConn

\* A failed attempt is retried or ends the client connection.
LEMMA RetryStep ==
    ASSUME ConnsOK, NEW c \in Conns, NEW b, RetryOrEnd(c, b), back[c].st # "none",
           DOMAIN b = DOMAIN NoBack, b.queue = back[c].queue, b.writing = back[c].writing,
           b.late = back[c].late, b.st = "up" => back[c].st = "up",
           back[c].st = "up" => b.cut = TRUE, back[c].cut = TRUE => b.cut = TRUE
    PROVE  ConnsOK'
<1>1. CASE End(c) /\ UNCHANGED <<wrote, lost>>
    BY <1>1, EndStep DEF RetryOrEnd
<1>2. CASE /\ \E late \in Completed(b) : back' = [back EXCEPT ![c] = RetryScheduled(b, late)]
           /\ wrote' = [wrote EXCEPT ![c] = <<>>]
           /\ lost' = [lost EXCEPT ![c] = @ + Len(wrote[c])]
           /\ UNCHANGED <<conn, pre, udp, passed>>
    <2>1. PICK late \in Completed(b) : back' = [back EXCEPT ![c] = RetryScheduled(b, late)]
        BY <1>2
    <2> DEFINE d == RetryScheduled(b, late)
    <2>2. /\ DOMAIN d = DOMAIN NoBack /\ d.st = "retry" /\ d.queue = b.queue
          /\ d.writing = FALSE /\ d.cut = b.cut /\ d.late = b.late \cup late
        BY DEF RetryScheduled, NoBack
    <2> HIDE DEF d
    <2>3. ConnOK(conn[c], back[c], sent[c], wrote[c], lost[c], udp[c], passed[c])
        BY DEF ConnsOK, ConnAt
    <2>4. /\ back[c].late = {} \/ back[c].cut = TRUE
          /\ "wrote" \in back[c].late => back[c].queue # <<>>
          /\ back[c].st = "up" => back[c].writing = (back[c].queue # <<>>)
        BY <2>3 DEF ConnOK, Moves
    <2>5. /\ late = {} \/ b.st = "up"
          /\ "wrote" \in late => b.st = "up" /\ b.writing
        BY <2>1 DEF Completed
    <2>6. /\ d.late = {} \/ d.cut = TRUE
          /\ "wrote" \in d.late => d.queue # <<>>
        BY <2>2, <2>4, <2>5
    <2>7. ConnOK(conn[c], d, sent[c], <<>>, lost[c] + Len(wrote[c]), udp[c], passed[c])
        BY <2>2, <2>3, <2>6, ResetOK
    <2>8. sent' = sent
        BY DEF RetryOrEnd
    <2>9. OverConns' /\ Others(c)
        BY <1>2, <2>1, <2>8 DEF ConnsOK, OverConns, Others
    <2>10. /\ back'[c] = d /\ wrote'[c] = <<>> /\ lost'[c] = lost[c] + Len(wrote[c])
        BY <1>2, <2>1 DEF ConnsOK, OverConns, d
    <2> QED
        BY <1>2, <2>7, <2>8, <2>9, <2>10, OneConn
<1> QED
    BY <1>1, <1>2 DEF RetryOrEnd

\* A step of the UDP part alone.
LEMMA UdpStep ==
    ASSUME ConnsOK, NEW c \in Conns, NEW v, NEW r \in Seq(Nat), udp' = [udp EXCEPT ![c] = v],
           (passed' = passed /\ r = passed[c]) \/ passed' = [passed EXCEPT ![c] = r],
           UNCHANGED <<conn, back, sent, wrote, lost>>, back[c].st # "none",
           DOMAIN v = DOMAIN NoUdp, v.bound \in BOOLEAN, v.seq \in Int, Sequenced(v.seq, r)
    PROVE  ConnsOK'
<1>1. OverConns' /\ Others(c)
    BY DEF ConnsOK, OverConns, Others
<1>2. udp'[c] = v /\ passed'[c] = r
    BY DEF ConnsOK, OverConns
<1>3. ConnOK(conn'[c], back'[c], sent'[c], wrote'[c], lost'[c], v, r)
    BY UdpOK DEF ConnsOK, ConnAt
<1> QED
    BY <1>1, <1>2, <1>3, OneConn

\* A chunk of the client goes to the backend's queue, or there is no room.
LEMMA ForwardStep ==
    ASSUME ConnsOK, NEW c \in Conns, NEW v, NEW r \in Seq(Nat), Forward(c, v, r),
           UNCHANGED <<wrote, lost>>, back[c].st # "none",
           DOMAIN v = DOMAIN NoUdp, v.bound \in BOOLEAN, v.seq \in Int, Sequenced(v.seq, r)
    PROVE  ConnsOK'
<1>1. CASE End(c) /\ UNCHANGED sent
    BY <1>1, EndStep
<1>2. CASE Fits(back[c].queue)
    <2>1. /\ back' = [back EXCEPT ![c] = Queued(@, sent[c] + 1)]
          /\ sent' = [sent EXCEPT ![c] = @ + 1]
          /\ udp' = [udp EXCEPT ![c] = v] /\ passed' = [passed EXCEPT ![c] = r]
          /\ conn' = conn
        BY <1>2 DEF Forward
    <2>2. OverConns' /\ Others(c)
        BY <2>1 DEF ConnsOK, OverConns, Others
    <2>3. /\ conn'[c] = conn[c] /\ back'[c] = Queued(back[c], sent[c] + 1)
          /\ sent'[c] = sent[c] + 1 /\ wrote'[c] = wrote[c] /\ lost'[c] = lost[c]
          /\ udp'[c] = v /\ passed'[c] = r
        BY <2>1 DEF ConnsOK, OverConns
    <2>4. ConnOK(conn[c], back[c], sent[c], wrote[c], lost[c], v, r)
        BY UdpOK DEF ConnsOK, ConnAt
    <2>5. ConnOK(conn[c], Queued(back[c], sent[c] + 1), sent[c] + 1, wrote[c], lost[c], v, r)
        BY <2>4, QueuedOK
    <2> QED
        BY <2>2, <2>3, <2>5, OneConn
<1> QED
    BY <1>1, <1>2 DEF Forward

\* What a connection's own record says when it is in order.
LEMMA ConnFacts ==
    ASSUME ConnsOK, NEW c \in Conns
    PROVE  /\ DOMAIN back[c] = DOMAIN NoBack /\ back[c].writing \in BOOLEAN
           /\ DOMAIN udp[c] = DOMAIN NoUdp /\ udp[c].bound \in BOOLEAN /\ udp[c].seq \in Int
           /\ passed[c] \in Seq(Nat) /\ Sequenced(udp[c].seq, passed[c])
           /\ back[c].st # "none" <=> conn[c] = "bridge"
           /\ back[c].st = "none" => back[c] = NoBack
           /\ back[c].aborted => back[c].st = "retry"
           /\ back[c].late = {} \/ back[c].st = "retry"
BY DEF ConnsOK, ConnAt, ConnOK, ConnShape, Leaves, Moves

-----------------------------------------------------------------------------
(* One lemma per group of handlers. *)

\* Accepting, and the handshake until the login.
LEMMA HandshakeSteps ==
    ASSUME ConnsOK, NEW c \in Conns,
           OnConnect(c) \/ ReadPartial(c) \/ ReadRefused(c) \/ HandshakeTimeout(c) \/ ClientGone(c)
    PROVE  ConnsOK'
<1>1. CASE OnConnect(c)
    <2>1. /\ conn[c] = "none" /\ UNCHANGED <<back, sent, wrote, lost, udp, passed>>
          /\ \E k \in {"login", "gone"} : conn' = [conn EXCEPT ![c] = k]
        BY <1>1 DEF OnConnect, udpvars
    <2>2. PICK k \in {"login", "gone"} : conn' = [conn EXCEPT ![c] = k]
        BY <2>1
    <2>3. OverConns' /\ Others(c) /\ conn'[c] = k
        BY <2>1, <2>2 DEF ConnsOK, OverConns, Others
    <2>4. ConnOK(k, back[c], sent[c], wrote[c], lost[c], udp[c], passed[c])
        BY <2>1 DEF ConnsOK, ConnAt, ConnOK, ConnShape, Leaves
    <2> QED
        BY <2>1, <2>3, <2>4, OneConn
<1>2. CASE ReadPartial(c)
    <2>1. CASE End(c)
        BY <1>2, <2>1, EndStep, SMTT(30) DEF ReadPartial
    <2>2. CASE UNCHANGED <<conn, back, udp, passed>>
        BY <1>2, <2>2 DEF ReadPartial, ConnsOK, OverConns, ConnAt
    <2> QED
        BY <1>2, <2>1, <2>2 DEF ReadPartial
<1>3. CASE ReadRefused(c)
    BY <1>3, EndStep DEF ReadRefused
<1>4. CASE HandshakeTimeout(c)
    BY <1>4, EndStep DEF HandshakeTimeout
<1>5. CASE ClientGone(c)
    BY <1>5, EndStep DEF ClientGone
<1> QED
    BY <1>1, <1>2, <1>3, <1>4, <1>5

\* The login.
LEMMA LoginStep ==
    ASSUME ConnsOK, NEW c \in Conns, FinishHandshake(c)
    PROVE  ConnsOK'
<1>1. CASE End(c) /\ UNCHANGED <<sent, wrote, lost>>
    BY <1>1, EndStep
<1>2. CASE /\ \E rudp \in BOOLEAN : udp' = [udp EXCEPT ![c] = Ticket(rudp)]
           /\ conn' = [conn EXCEPT ![c] = "bridge"]
           /\ back' = [back EXCEPT ![c] = [NoBack EXCEPT !.st = "resolving", !.queue = <<1>>]]
           /\ sent' = [sent EXCEPT ![c] = 1]
           /\ UNCHANGED <<wrote, lost, passed>>
    <2>1. PICK rudp \in BOOLEAN : udp' = [udp EXCEPT ![c] = Ticket(rudp)]
        BY <1>2
    <2> DEFINE v == Ticket(rudp)
    <2>2. DOMAIN v = DOMAIN NoUdp /\ v.bound = FALSE /\ v.seq = -1
        BY DEF Ticket, NoUdp
    <2> HIDE DEF v
    <2>3. OverConns' /\ Others(c)
        BY <1>2, <2>1 DEF ConnsOK, OverConns, Others
    <2>4. /\ conn'[c] = "bridge" /\ sent'[c] = 1 /\ wrote'[c] = wrote[c] /\ lost'[c] = lost[c]
          /\ passed'[c] = passed[c]
          /\ back'[c] = [NoBack EXCEPT !.st = "resolving", !.queue = <<1>>]
          /\ udp'[c] = v
        BY <1>2, <2>1 DEF ConnsOK, OverConns, v
    <2>5. ConnOK("login", back[c], sent[c], wrote[c], lost[c], udp[c], passed[c])
        BY DEF ConnsOK, ConnAt, FinishHandshake
    <2>6. ConnOK(conn'[c], back'[c], sent'[c], wrote'[c], lost'[c], udp'[c], passed'[c])
        <3> DEFINE d == [NoBack EXCEPT !.st = "resolving", !.queue = <<1>>]
        <3>1. ConnOK("bridge", d, 1, wrote[c], lost[c], v, passed[c])
            BY ONLY <2>2, <2>5, LoginOK
        <3> HIDE DEF d
        <3>2. back'[c] = d
            BY <2>4 DEF d
        <3> QED
            BY ONLY <2>4, <3>1, <3>2, Zenon
    <2> QED
        BY <2>3, <2>6, OneConn
<1> QED
    BY <1>1, <1>2 DEF FinishHandshake

\* Resolving, connecting, timing out and retrying, in whatever order their
\* handlers run.
LEMMA BackendSteps ==
    ASSUME ConnsOK, NEW c \in Conns,
           \/ ResolveFails(c) \/ ResolveDone(c) \/ ConnectTimerExpires(c) \/ OnConnectTimeout(c)
           \/ ConnectFails(c) \/ ConnectAborted(c) \/ ConnectDone(c) \/ RetryFires(c)
           \/ BackendLost(c) \/ LateError(c)
    PROVE  ConnsOK'
<1> DEFINE b == back[c]
<1>a. /\ DOMAIN b = DOMAIN NoBack /\ b.writing \in BOOLEAN /\ (b.st = "none" => b = NoBack)
      /\ (b.aborted => b.st = "retry") /\ (b.late = {} \/ b.st = "retry")
    BY ConnFacts
<1>b. NoBack.timer = "off" /\ NoBack.aborted = FALSE
    BY DEF NoBack
<1>c. b.st = "up" => b.writing = (b.queue # <<>>)
    BY DEF ConnsOK, ConnAt, ConnOK, Moves
<1>1. CASE ResolveFails(c)
    BY <1>1, <1>a, RetryStep DEF ResolveFails
<1>2. CASE ResolveDone(c)
    <2> DEFINE d == [b EXCEPT !.st = "connecting", !.timer = "armed"]
    <2>1. DOMAIN d = DOMAIN NoBack /\ d.st = "connecting" /\ d.queue = b.queue
          /\ d.writing = b.writing /\ d.aborted = b.aborted /\ d.late = b.late /\ d.cut = b.cut
        BY <1>a DEF NoBack
    <2>2. b.st = "resolving" /\ back' = [back EXCEPT ![c] = d]
          /\ UNCHANGED <<conn, sent, wrote, lost, udp, passed>>
        BY <1>2 DEF ResolveDone, udpvars, ConnsOK, OverConns
    <2> HIDE DEF d
    <2> QED
        BY <2>1, <2>2, <1>a, BackStep
<1>3. CASE ConnectTimerExpires(c)
    <2> DEFINE d == [b EXCEPT !.timer = "queued"]
    <2>1. /\ DOMAIN d = DOMAIN NoBack /\ d.st = b.st /\ d.queue = b.queue /\ d.writing = b.writing
          /\ d.aborted = b.aborted /\ d.late = b.late /\ d.cut = b.cut
        BY <1>a DEF NoBack
    <2>2. b.st # "none" /\ back' = [back EXCEPT ![c] = d]
          /\ UNCHANGED <<conn, sent, wrote, lost, udp, passed>>
        BY <1>3, <1>a, <1>b DEF ConnectTimerExpires, udpvars, ConnsOK, OverConns
    <2> HIDE DEF d
    <2> QED
        BY <2>1, <2>2, <1>a, <1>c, BackStep
<1>4. CASE OnConnectTimeout(c)
    <2> DEFINE d == [b EXCEPT !.timer = "off", !.cut = @ \/ b.st = "up"]
    <2>1. /\ DOMAIN d = DOMAIN NoBack /\ d.queue = b.queue /\ d.writing = b.writing
          /\ d.late = b.late /\ d.st = b.st /\ d.cut = (b.cut \/ b.st = "up")
        BY <1>a DEF NoBack
    <2>2. b.st # "none" /\ RetryOrEnd(c, d)
        BY <1>4, <1>a, <1>b DEF OnConnectTimeout
    <2> HIDE DEF d
    <2> QED
        BY <2>1, <2>2, RetryStep
<1>5. CASE ConnectFails(c)
    <2> DEFINE d == [b EXCEPT !.timer = Cancelled(@), !.st = "failed"]
    <2>1. /\ DOMAIN d = DOMAIN NoBack /\ d.queue = b.queue /\ d.writing = b.writing
          /\ d.late = b.late /\ d.st = "failed" /\ d.cut = b.cut
        BY <1>a DEF NoBack
    <2>2. b.st = "connecting" /\ RetryOrEnd(c, d)
        BY <1>5 DEF ConnectFails
    <2> HIDE DEF d
    <2> QED
        BY <2>1, <2>2, RetryStep
<1>6. CASE ConnectAborted(c)
    <2> DEFINE d == [b EXCEPT !.timer = Cancelled(@), !.aborted = FALSE]
    <2>1. /\ DOMAIN d = DOMAIN NoBack /\ d.queue = b.queue /\ d.writing = b.writing
          /\ d.late = b.late /\ d.st = b.st /\ d.cut = b.cut
        BY <1>a DEF NoBack
    <2>2. b.st = "retry" /\ RetryOrEnd(c, d)
        BY <1>6, <1>a, <1>b DEF ConnectAborted
    <2> HIDE DEF d
    <2> QED
        BY <2>1, <2>2, RetryStep
<1>7. CASE ConnectDone(c)
    <2> DEFINE d == [b EXCEPT !.st = "up", !.timer = Cancelled(@), !.attempt = 0,
                              !.writing = b.queue # <<>>]
    <2>1. /\ DOMAIN d = DOMAIN NoBack /\ d.st = "up" /\ d.queue = b.queue
          /\ d.writing = (b.queue # <<>>)
          /\ d.aborted = b.aborted /\ d.late = b.late /\ d.cut = b.cut
        BY <1>a DEF NoBack
    <2>2. b.st = "connecting" /\ back' = [back EXCEPT ![c] = d]
          /\ UNCHANGED <<conn, sent, wrote, lost, udp, passed>>
        <3>1. b.st = "connecting" /\ UNCHANGED <<conn, sent, wrote, lost, udp, passed>>
            BY <1>7 DEF ConnectDone, udpvars
        <3>2. back' = [back EXCEPT ![c] = d]
            BY <1>7, Zenon DEF ConnectDone
        <3> QED
            BY <3>1, <3>2
    <2> HIDE DEF d
    <2> QED
        BY <1>a, <2>1, <2>2, BackStep
<1>8. CASE RetryFires(c)
    <2> DEFINE d == [b EXCEPT !.st = "resolving"]
    <2>1. DOMAIN d = DOMAIN NoBack /\ d.st = "resolving" /\ d.queue = b.queue
          /\ d.writing = b.writing /\ d.aborted = b.aborted /\ d.late = b.late /\ d.cut = b.cut
        BY <1>a DEF NoBack
    <2>2. b.st = "retry" /\ ~b.aborted /\ b.late = {} /\ back' = [back EXCEPT ![c] = d]
          /\ UNCHANGED <<conn, sent, wrote, lost, udp, passed>>
        BY <1>8 DEF RetryFires, udpvars, ConnsOK, OverConns
    <2> HIDE DEF d
    <2> QED
        BY <2>1, <2>2, <1>a, BackStep
<1>9. CASE BackendLost(c)
    BY <1>9, EndStep DEF BackendLost
<1>10. CASE LateError(c)
    BY <1>10, EndStep DEF LateError
<1> QED
    BY <1>1, <1>2, <1>3, <1>4, <1>5, <1>6, <1>7, <1>8, <1>9, <1>10

\* Chunks of the client, and writes that complete.
LEMMA ChunkSteps ==
    ASSUME ConnsOK, NEW c \in Conns, ClientSends(c) \/ WriteDone(c) \/ LateWrite(c)
    PROVE  ConnsOK'
<1>1. CASE ClientSends(c)
    <2>1. Forward(c, udp[c], passed[c]) /\ conn[c] = "bridge" /\ UNCHANGED <<wrote, lost>>
        BY <1>1, SMTT(30) DEF ClientSends
    <2> QED
        BY <2>1, ConnFacts, ForwardStep
<1>2. CASE WriteDone(c)
    <2> DEFINE b == back[c]
               d == [b EXCEPT !.queue = Tail(@), !.writing = Len(b.queue) > 1]
    <2>1. /\ b.st = "up" /\ b.writing /\ wrote' = [wrote EXCEPT ![c] = Append(@, Head(b.queue))]
          /\ back' = [back EXCEPT ![c] = d] /\ UNCHANGED <<conn, sent, lost, udp, passed>>
        <3>1. back' = [back EXCEPT ![c] = d]
            BY <1>2, Zenon DEF WriteDone
        <3> HIDE DEF d
        <3>2. /\ b.st = "up" /\ b.writing /\ UNCHANGED <<conn, sent, lost, udp, passed>>
              /\ wrote' = [wrote EXCEPT ![c] = Append(@, Head(b.queue))]
            BY <1>2 DEF WriteDone, udpvars
        <3> QED
            BY ONLY <3>1, <3>2
    <2>2. /\ DOMAIN d = DOMAIN NoBack /\ d.st = b.st /\ d.queue = Tail(b.queue)
          /\ d.writing = (Len(b.queue) > 1)
          /\ d.aborted = b.aborted /\ d.late = b.late /\ d.cut = b.cut
        BY ConnFacts DEF NoBack
    <2> HIDE DEF d
    <2>3. OverConns' /\ Others(c)
        BY <2>1 DEF ConnsOK, OverConns, Others
    <2>4. back'[c] = d /\ wrote'[c] = Append(wrote[c], Head(b.queue))
        BY <2>1 DEF ConnsOK, OverConns
    <2>5. ConnOK(conn[c], d, sent[c], Append(wrote[c], Head(b.queue)), lost[c], udp[c], passed[c])
        BY <2>1, <2>2, WroteOK DEF ConnsOK, ConnAt
    <2> QED
        BY <2>1, <2>3, <2>4, <2>5, OneConn
<1>3. CASE LateWrite(c)
    <2> DEFINE b == back[c]
               late == IF Len(b.queue) > 1 THEN {"broken"} ELSE b.late \ {"wrote"}
               d == [b EXCEPT !.queue = Tail(@), !.late = late]
    <2>1. "wrote" \notin late
        OBVIOUS
    <2>2. /\ "wrote" \in b.late /\ lost' = [lost EXCEPT ![c] = @ + 1]
          /\ back' = [back EXCEPT ![c] = d] /\ UNCHANGED <<conn, sent, wrote, udp, passed>>
        <3>1. back' = [back EXCEPT ![c] = d]
            BY <1>3, Zenon DEF LateWrite
        <3> HIDE DEF d
        <3>2. /\ "wrote" \in b.late /\ UNCHANGED <<conn, sent, wrote, udp, passed>>
              /\ lost' = [lost EXCEPT ![c] = @ + 1]
            BY <1>3 DEF LateWrite, udpvars
        <3> QED
            BY ONLY <3>1, <3>2
    <2> HIDE DEF late
    <2>3. /\ DOMAIN d = DOMAIN NoBack /\ d.st = b.st /\ d.queue = Tail(b.queue)
          /\ d.writing = b.writing /\ d.late = late /\ d.cut = b.cut
        BY ConnFacts DEF NoBack
    <2> HIDE DEF d
    <2>4. OverConns' /\ Others(c)
        BY <2>2 DEF ConnsOK, OverConns, Others
    <2>5. back'[c] = d /\ lost'[c] = lost[c] + 1
        BY <2>2 DEF ConnsOK, OverConns
    <2>6. ConnOK(conn[c], d, sent[c], wrote[c], lost[c] + 1, udp[c], passed[c])
        BY <2>1, <2>2, <2>3, LateOK DEF ConnsOK, ConnAt
    <2> QED
        BY <2>2, <2>4, <2>5, <2>6, OneConn
<1> QED
    BY <1>1, <1>2, <1>3

\* Binding, for a session and an endpoint.
LEMMA BindSteps ==
    ASSUME ConnsOK, NEW e \in Endpoints, NEW c \in Conns, NEW own \in BOOLEAN,
           BindRequest(c, e, own)
    PROVE  ConnsOK'
<1> DEFINE u == udp[c]
<1>1. back[c].st # "none" /\ UNCHANGED <<conn, back, sent, wrote, lost>>
    BY DEF BindRequest, Sessions, tcpvars
<1>2. /\ DOMAIN u = DOMAIN NoUdp /\ u.bound \in BOOLEAN /\ u.seq \in Int
      /\ passed[c] \in Seq(Nat) /\ Sequenced(u.seq, passed[c])
    BY ConnFacts
<1>3. CASE UNCHANGED <<udp, passed>>
    BY <1>1, <1>3 DEF ConnsOK, OverConns, ConnAt
<1>4. CASE udp' = [udp EXCEPT ![c] = Delayed(@)] /\ UNCHANGED passed
    <2> DEFINE v == Delayed(u)
    <2>1. DOMAIN v = DOMAIN NoUdp /\ v.bound = u.bound /\ v.seq = u.seq
        BY <1>2 DEF Delayed, NoUdp
    <2>2. udp' = [udp EXCEPT ![c] = v] /\ passed' = passed
        BY <1>4
    <2> HIDE DEF v
    <2> QED
        BY <1>1, <1>2, <2>1, <2>2, UdpStep
<1>5. CASE udp' = [udp EXCEPT ![c] = Bind(c, e)] /\ passed' = [passed EXCEPT ![c] = <<>>]
    <2> DEFINE v == Bind(c, e)
    <2>1. DOMAIN v = DOMAIN NoUdp /\ v.bound = TRUE /\ v.seq = -1
        BY <1>2 DEF Bind, NoUdp
    <2> HIDE DEF v
    <2>2. <<>> \in Seq(Nat) /\ Sequenced(v.seq, <<>>)
        BY SMT, <2>1, EmptySeq DEF Sequenced
    <2> QED
        <3>1. v.bound \in BOOLEAN /\ v.seq \in Int
            <4>1. v.bound \in BOOLEAN
                BY ONLY <2>1, Zenon
            <4>2. v.seq = -1 /\ -1 \in Int
                BY ONLY <2>1
            <4> QED
                BY ONLY <4>1, <4>2, Zenon
        <3>2. udp' = [udp EXCEPT ![c] = v]
            BY ONLY <1>5 DEF v
        <3> QED
            BY <1>1, <1>5, <2>1, <2>2, <3>1, <3>2, UdpStep
<1> QED
    BY <1>3, <1>4, <1>5 DEF BindRequest

\* Datagrams of a bound endpoint.
LEMMA DatagramSteps ==
    ASSUME ConnsOK, NEW e \in Endpoints,
           RudpDatagram(e) \/ \E seq \in 0..MaxSeq : Datagram(e, seq)
    PROVE  ConnsOK'
<1>1. CASE RudpDatagram(e)
    <2>1. PICK c \in BoundTo(e) :
             \/ /\ udp' = [udp EXCEPT ![c].fallback = TRUE]
                /\ UNCHANGED <<conn, back, sent, passed>>
             \/ Forward(c, udp[c], passed[c])
        BY <1>1 DEF RudpDatagram
    <2>2. c \in Conns /\ back[c].st # "none" /\ UNCHANGED <<wrote, lost>>
        BY <1>1 DEF BoundTo, Sessions, RudpDatagram
    <2>3. CASE Forward(c, udp[c], passed[c])
        BY <2>2, <2>3, ConnFacts, ForwardStep
    <2>4. CASE /\ udp' = [udp EXCEPT ![c].fallback = TRUE]
               /\ UNCHANGED <<conn, back, sent, passed>>
        <3> DEFINE v == [udp[c] EXCEPT !.fallback = TRUE]
        <3>1. /\ DOMAIN v = DOMAIN NoUdp /\ v.bound \in BOOLEAN /\ v.seq = udp[c].seq
              /\ v.seq \in Int /\ passed[c] \in Seq(Nat) /\ Sequenced(v.seq, passed[c])
            BY <2>2, ConnFacts DEF NoUdp
        <3>2. udp' = [udp EXCEPT ![c] = v] /\ passed' = passed
            BY <2>4, Zenon
        <3> HIDE DEF v
        <3> QED
            BY <2>2, <2>4, <3>1, <3>2, UdpStep
    <2> QED
        BY <2>1, <2>3, <2>4
<1>2. ASSUME NEW seq \in 0..MaxSeq, Datagram(e, seq)
      PROVE  ConnsOK'
    <2>1. PICK c \in BoundTo(e) :
             \/ /\ Accepts(udp[c], seq)
                /\ Forward(c, [udp[c] EXCEPT !.seq = seq], Append(passed[c], seq))
             \/ Forward(c, udp[c], passed[c])
        BY <1>2 DEF Datagram
    <2>2. c \in Conns /\ back[c].st # "none" /\ UNCHANGED <<wrote, lost>> /\ seq \in Nat
        BY SMT, <1>2, GatewayAssumption DEF BoundTo, Sessions, Datagram, UdpConfigured
    <2>3. CASE Forward(c, udp[c], passed[c])
        BY <2>2, <2>3, ConnFacts, ForwardStep
    <2>4. CASE /\ Accepts(udp[c], seq)
               /\ Forward(c, [udp[c] EXCEPT !.seq = seq], Append(passed[c], seq))
        <3> DEFINE v == [udp[c] EXCEPT !.seq = seq]
        <3>1. DOMAIN v = DOMAIN NoUdp /\ v.bound \in BOOLEAN /\ v.seq = seq /\ v.seq \in Int
            BY SMT, <2>2, ConnFacts DEF NoUdp
        <3>2. Append(passed[c], seq) \in Seq(Nat) /\ Sequenced(seq, Append(passed[c], seq))
            BY <2>2, <2>4, ConnFacts, SequencedAppend
        <3> HIDE DEF v
        <3> QED
            BY <2>2, <2>4, <3>1, <3>2, ForwardStep DEF v
    <2> QED
        BY <2>1, <2>3, <2>4
<1> QED
    BY <1>1, <1>2

\* GatewayApp::stop ends every session at once.
LEMMA StopStep ==
    ASSUME ConnsOK, Stop
    PROVE  ConnsOK'
<1>1. OverConns'
    BY DEF ConnsOK, OverConns, Stop
<1>2. ASSUME NEW c \in Conns
      PROVE  ConnOK(conn'[c], back'[c], sent'[c], wrote'[c], lost'[c], udp'[c], passed'[c])
    <2>1. /\ back'[c] = NoBack /\ udp'[c] = NoUdp /\ passed'[c] = <<>>
          /\ sent'[c] = sent[c] /\ wrote'[c] = wrote[c] /\ lost'[c] = lost[c]
          /\ conn'[c] = IF conn[c] = "none" THEN "none" ELSE "gone"
        BY DEF Stop
    <2>2. ConnOK(conn[c], back[c], sent[c], wrote[c], lost[c], udp[c], passed[c])
        BY DEF ConnsOK, ConnAt
    <2>3. CASE conn[c] = "none"
        <3>1. back[c] = NoBack /\ udp[c] = NoUdp /\ passed[c] = <<>>
            BY <2>2, <2>3, SMTT(30) DEF ConnOK, Leaves
        <3> QED
            BY <2>1, <2>2, <2>3, <3>1, SMTT(30)
    <2>4. CASE conn[c] # "none"
        BY <2>1, <2>2, <2>4, EndOK
    <2> QED
        BY <2>3, <2>4
<1> QED
    BY <1>1, <1>2 DEF ConnsOK, ConnAt

\* Every connection is in order at the start.
LEMMA ConnsInit ==
    ASSUME Init
    PROVE  ConnsOK
<1>1. OverConns
    BY DEF Init, OverConns
<1>2. <<>> \in Seq(Nat) /\ Len(<<>>) = 0
    BY EmptySeq
<1>3. ConnShape("none", NoBack, 0, <<>>, 0, NoUdp, <<>>)
    BY ONLY <1>2 DEF ConnShape, NoBack, NoUdp
<1>4. Leaves("none", NoBack, <<>>, 0, NoUdp, <<>>) /\ Moves(NoBack, 0, <<>>, 0)
      /\ Sequenced(NoUdp.seq, <<>>)
    BY ONLY <1>2 DEF Leaves, Moves, Sequenced, NoBack, NoUdp
<1>5. ConnOK("none", NoBack, 0, <<>>, 0, NoUdp, <<>>)
    BY <1>3, <1>4 DEF ConnOK
<1>6. ASSUME NEW c \in Conns
      PROVE  ConnAt(c)
    <2>1. /\ conn[c] = "none" /\ back[c] = NoBack /\ sent[c] = 0 /\ wrote[c] = <<>>
          /\ lost[c] = 0 /\ udp[c] = NoUdp /\ passed[c] = <<>>
        BY DEF Init
    <2> QED
        BY <1>5, <2>1 DEF ConnAt
<1> QED
    BY <1>1, <1>6 DEF ConnsOK

\* Every step keeps every connection in order.
LEMMA ConnsStep ==
    ASSUME ConnsOK, [Next]_vars
    PROVE  ConnsOK'
<1>1. ASSUME NEW c \in Conns,
             \/ OnConnect(c) \/ ReadPartial(c) \/ ReadRefused(c) \/ HandshakeTimeout(c)
             \/ FinishHandshake(c) \/ ClientGone(c)
             \/ ResolveFails(c) \/ ResolveDone(c) \/ ConnectTimerExpires(c)
             \/ OnConnectTimeout(c) \/ ConnectFails(c) \/ ConnectAborted(c) \/ ConnectDone(c)
             \/ RetryFires(c) \/ ClientSends(c) \/ WriteDone(c) \/ BackendLost(c)
             \/ LateWrite(c) \/ LateError(c)
      PROVE  ConnsOK'
    BY <1>1, HandshakeSteps, LoginStep, BackendSteps, ChunkSteps
<1>2. ASSUME NEW e \in Endpoints,
             \/ BindInvalid(e) \/ RudpDatagram(e)
             \/ \E c \in Conns, own \in BOOLEAN : BindRequest(c, e, own)
             \/ \E seq \in 0..MaxSeq : Datagram(e, seq)
      PROVE  ConnsOK'
    <2>1. CASE BindInvalid(e)
        BY <2>1 DEF BindInvalid, tcpvars, ConnsOK, OverConns, ConnAt
    <2> QED
        BY <1>2, <2>1, BindSteps, DatagramSteps, SMTT(30)
<1>3. CASE Stop
    BY <1>3, StopStep, SMTT(30)
<1>4. CASE Probe \/ Tick \/ UNCHANGED vars
    BY <1>4 DEF Probe, Tick, vars, tcpvars, udpvars, ConnsOK, OverConns, ConnAt
<1> QED
    BY <1>1, <1>2, <1>3, <1>4 DEF Next

\* The inductive invariant of the connections: every one is in order at every
\* step of every handler.
THEOREM GatewayInvariant == Spec => []ConnsOK
BY ConnsInit, ConnsStep, PTL DEF Spec

\* Whichever of the racing handlers ends a client connection, no backend
\* connection and no UDP binding outlives it, and no bridging client is left
\* without a backend connection.
THEOREM SessionsFollow == Spec => []SessionsFollowClients
<1>1. ConnsOK => SessionsFollowClients
    BY SMTT(30) DEF ConnsOK, ConnAt, ConnOK, ConnShape, Leaves, SessionsFollowClients, NoUdp
<1> QED
    BY <1>1, GatewayInvariant, PTL

\* Whatever retries and timeouts happen, a backend connection is written what
\* the client hands over in order, nothing skipped and nothing twice, and from
\* the first chunk on unless a late connect timer cut an established one.
THEOREM ChunksInOrder == Spec => []InOrderToBackend
<1>1. ConnsOK => InOrderToBackend
    <2>1. ASSUME ConnsOK, NEW c \in Conns, back[c].st # "none"
          PROVE  Joined(back[c], sent[c], wrote[c], lost[c])
        BY <2>1 DEF ConnsOK, ConnAt, ConnOK, Moves
    <2>2. ASSUME NEW c \in Conns, Joined(back[c], sent[c], wrote[c], lost[c])
          PROVE  /\ wrote[c] \o back[c].queue = [i \in 1..sent[c] - lost[c] |-> lost[c] + i]
                 /\ lost[c] > 0 => back[c].cut
        <3>1. lost[c] = 0 => ~(lost[c] > 0)
            BY SMT
        <3> QED
            BY <2>2, <3>1, Zenon DEF Joined, Run
    <2> QED
        BY <2>1, <2>2 DEF InOrderToBackend
<1> QED
    BY <1>1, GatewayInvariant, PTL

\* A bridge that is connected and has chunks queued has a write in flight.
THEOREM WritesNeverStall == Spec => []NoStalledWrite
<1>1. ConnsOK => NoStalledWrite
    BY DEF ConnsOK, ConnAt, ConnOK, Moves, NoStalledWrite
<1> QED
    BY <1>1, GatewayInvariant, PTL

\* Sequenced datagrams are forwarded in increasing order of their numbers and
\* none of them twice, whatever the network repeats or reorders.
THEOREM SequencedInOrder == Spec => []SequencedOnce
<1>1. ConnsOK => SequencedOnce
    BY DEF ConnsOK, ConnAt, ConnOK, Sequenced, SequencedOnce
<1> QED
    BY <1>1, GatewayInvariant, PTL

-----------------------------------------------------------------------------
(* The abuse guard. *)

\* The charges f of an endpoint and its entry g in the guard at time t.  The
\* last g.fails charges are those of the current window; each earlier charge
\* but the last FailLimit - 2 of them lies more than FailWindow before the
\* window began, because it ended in a block or because a window began more
\* than FailWindow earlier.
GuardShape(g, f, t) ==
    /\ t \in Nat \ {0} /\ f \in Seq(Nat)
    /\ g \in [start : Nat, fails : Nat, until : Nat]
    /\ g.fails < FailLimit /\ g.fails <= Len(f)
    /\ g.start = 0 <=> g.fails = 0
    /\ \A i \in 1..Len(f) : f[i] <= t
    /\ \A i, j \in 1..Len(f) : i <= j => f[i] <= f[j]
GuardWindow(g, f) ==
    /\ g.fails > 0 => g.start = f[Len(f) - g.fails + 1]
    /\ g.fails = 0 /\ Len(f) > 0 => g.until >= f[Len(f)] + BlockFor
    /\ g.fails > 0 => \A i \in 1..Len(f) - g.fails - (FailLimit - 2) :
                          f[Len(f) - g.fails + 1] - f[i] > FailWindow
Spread(f) ==
    \A i \in 1..Len(f) - (2 * FailLimit - 2) : f[i + (2 * FailLimit - 2)] - f[i] > FailWindow

GuardOK(g, f, t) == GuardShape(g, f, t) /\ GuardWindow(g, f) /\ Spread(f)
GuardsOK ==
    /\ DOMAIN guard = Endpoints /\ DOMAIN faults = Endpoints /\ now \in Nat \ {0}
    /\ \A e \in Endpoints : GuardOK(guard[e], faults[e], now)

\* A block outlasts a failure window, as it does by default (60 s and 10 s).
BlockOutlasts == BlockFor > FailWindow

\* record_failure: a charge joins the window, begins one or ends it in a block.
LEMMA ChargeOK ==
    ASSUME BlockOutlasts, NEW g, NEW f, NEW t, t = now, GuardOK(g, f, t), g.until <= t
    PROVE  GuardOK(Guilty(g), Append(f, t), t)
<1> DEFINE n == Len(f)
           k == g.fails
           q == Append(f, t)
           s == 2 * FailLimit - 2
<1>a. /\ FailLimit \in Nat /\ FailLimit >= 2 /\ FailWindow \in Nat /\ BlockFor \in Nat
      /\ BlockFor > FailWindow
    BY GatewayAssumption DEF UdpConfigured, BlockOutlasts
<1>b. /\ t \in Nat \ {0} /\ f \in Seq(Nat) /\ n \in Nat /\ k \in Nat /\ k < FailLimit /\ k <= n
      /\ g.start \in Nat /\ g.until \in Nat /\ (g.start = 0 <=> k = 0)
      /\ g \in [start : Nat, fails : Nat, until : Nat]
    BY LenProperties DEF GuardOK, GuardShape
<1>c. \A i \in 1..n : f[i] \in Nat /\ f[i] <= t
    BY <1>b, ElementOfSeq DEF GuardOK, GuardShape
<1>d. \A i, j \in 1..n : i <= j => f[i] <= f[j]
    BY DEF GuardOK, GuardShape
<1>e. /\ q \in Seq(Nat) /\ Len(q) = n + 1 /\ q[n + 1] = t
      /\ \A i \in 1..n : q[i] = f[i]
    BY ONLY <1>b, AppendProperties
<1>f. /\ k > 0 => g.start = f[n - k + 1]
      /\ k = 0 /\ n > 0 => g.until >= f[n] + BlockFor
      /\ k > 0 => \A i \in 1..n - k - (FailLimit - 2) : f[n - k + 1] - f[i] > FailWindow
    BY DEF GuardOK, GuardWindow
<1>g. \A i \in 1..n - s : f[i + s] - f[i] > FailWindow
    BY DEF GuardOK, Spread
<1> HIDE DEF n, k, q
<1>h. (\A i \in 1..n + 1 : q[i] <= t) /\ \A i, j \in 1..n + 1 : i <= j => q[i] <= q[j]
    <2>1. \A i \in 1..n + 1 : q[i] <= t
        BY ONLY <1>b, <1>c, <1>e, SMTT(30)
    <2>2. ASSUME NEW i \in 1..n + 1, NEW j \in 1..n + 1, i <= j
          PROVE  q[i] <= q[j]
        BY ONLY <1>b, <1>c, <1>d, <1>e, <2>1, <2>2, SMTT(30)
    <2> QED
        BY <2>1, <2>2
<1>i. ASSUME n + 1 - s >= 1 => t - f[n + 1 - s] > FailWindow
      PROVE  Spread(q)
    <2>1. ASSUME NEW i \in 1..(n + 1) - s
          PROVE  q[i + s] - q[i] > FailWindow
        <3>1. i \in 1..n /\ q[i] = f[i] /\ i + s \in 1..n + 1
            BY ONLY <1>a, <1>b, <1>e, <2>1
        <3>2. CASE i + s = n + 1
            <4>1. i = n + 1 - s /\ n + 1 - s >= 1
                BY ONLY <1>a, <1>b, <3>1, <3>2
            <4>2. t - f[i] > FailWindow
                BY ONLY <1>i, <4>1
            <4> QED
                BY ONLY <1>e, <3>1, <3>2, <4>2
        <3>3. CASE i + s <= n
            BY ONLY <1>a, <1>b, <1>e, <1>g, <3>1, <3>3
        <3> QED
            BY ONLY <1>a, <1>b, <3>1, <3>2, <3>3
    <2> QED
        BY ONLY <1>e, <2>1 DEF Spread
<1>1. CASE g.start = 0 \/ t - g.start > FailWindow
    <2> DEFINE h == [g EXCEPT !.start = t, !.fails = 1]
    <2>1. Guilty(g) = h
        <3>1. (IF g.start = 0 \/ now < g.start \/ now - g.start > FailWindow THEN 0 ELSE g.fails) + 1
                = 1
            BY ONLY <1>1, t = now
        <3>2. 1 < FailLimit
            BY ONLY <1>a
        <3> QED
            BY ONLY <1>1, <3>1, <3>2, t = now DEF Guilty
    <2>2. h \in [start : Nat, fails : Nat, until : Nat] /\ h.start = t /\ h.fails = 1
        BY ONLY <1>b
    <2>3. ASSUME NEW i \in 1..n - (FailLimit - 2)
          PROVE  t - f[i] > FailWindow
        <3>1. i \in 1..n /\ f[i] \in Nat
            BY ONLY <1>a, <1>b, <1>c, <2>3
        <3>2. CASE k = 0
            <4>1. f[i] <= f[n] /\ f[n] \in Nat /\ n > 0
                BY ONLY <1>b, <1>c, <1>d, <3>1
            <4> QED
                BY <1>a, <1>b, <1>f, <3>1, <3>2, <4>1, SMTT(30)
        <3>3. CASE k > 0
            <4>1. n - k + 1 \in 1..n /\ i <= n - k + 1
                BY ONLY <1>a, <1>b, <2>3, <3>1, <3>3
            <4>2. f[i] <= f[n - k + 1] /\ f[n - k + 1] \in Nat
                BY ONLY <1>c, <1>d, <3>1, <4>1
            <4>3. t - f[n - k + 1] > FailWindow
                BY ONLY <1>1, <1>b, <1>f, <3>3
            <4> QED
                BY ONLY <1>a, <1>b, <3>1, <4>2, <4>3, SMTT(30)
        <3> QED
            BY ONLY <1>b, <3>2, <3>3
    <2> HIDE DEF h
    <2>4. GuardShape(h, q, t)
        BY ONLY <1>a, <1>b, <1>e, <1>h, <2>2 DEF GuardShape
    <2>5. GuardWindow(h, q)
        <3>1. \A i \in 1..(n + 1) - 1 - (FailLimit - 2) : q[(n + 1) - 1 + 1] - q[i] > FailWindow
            BY ONLY <1>a, <1>b, <1>e, <2>3, SMTT(30)
        <3> QED
            BY ONLY <1>b, <1>e, <2>2, <3>1 DEF GuardWindow
    <2>6. Spread(q)
        <3>1. n + 1 - s >= 1 => n + 1 - s \in 1..n - (FailLimit - 2)
            BY ONLY <1>a, <1>b
        <3> QED
            BY ONLY <1>i, <2>3, <3>1
    <2> QED
        BY <2>1, <2>4, <2>5, <2>6 DEF GuardOK, q
<1>2. CASE ~(g.start = 0 \/ t - g.start > FailWindow)
    <2>1. k >= 1 /\ n - k + 1 \in 1..n /\ f[n - k + 1] \in Nat /\ f[n - k + 1] <= t
        BY ONLY <1>2, <1>b, <1>c
    <2>0. ~(t < g.start)
        BY ONLY <1>b, <1>f, <2>1
    <2>2. Spread(q)
        <3>1. n + 1 - s >= 1 => n + 1 - s \in 1..n - k - (FailLimit - 2) /\ n + 1 - s \in 1..n
            BY ONLY <1>a, <1>b, <2>1
        <3>2. n + 1 - s >= 1 => f[n - k + 1] - f[n + 1 - s] > FailWindow /\ f[n + 1 - s] \in Nat
            BY ONLY <1>b, <1>c, <1>f, <2>1, <3>1, SMTT(30)
        <3>3. n + 1 - s >= 1 => t - f[n + 1 - s] > FailWindow
            BY ONLY <1>a, <1>b, <2>1, <3>2, SMTT(30)
        <3> QED
            BY ONLY <1>i, <3>3
    <2>3. CASE k + 1 < FailLimit
        <3> DEFINE h == [g EXCEPT !.start = g.start, !.fails = k + 1]
        <3>1. Guilty(g) = h
            BY <1>2, <2>0, <2>3, <1>a, t = now DEF Guilty, k
        <3>2. /\ h \in [start : Nat, fails : Nat, until : Nat] /\ h.start = g.start
              /\ h.fails = k + 1
            <4>1. k + 1 \in Nat
                BY ONLY <1>b
            <4> QED
                BY ONLY <1>b, <4>1
        <3> HIDE DEF h
        <3>3. GuardShape(h, q, t)
            BY ONLY <1>a, <1>b, <1>e, <1>h, <2>1, <2>3, <3>2, SMTT(30) DEF GuardShape
        <3>4. (n + 1) - (k + 1) + 1 = n - k + 1
              /\ (n + 1) - (k + 1) - (FailLimit - 2) = n - k - (FailLimit - 2)
            BY ONLY <1>a, <1>b
        <3>5. \A i \in 1..n - k - (FailLimit - 2) : i \in 1..n
            BY ONLY <1>a, <1>b, <2>1
        <3>6. GuardWindow(h, q)
            BY ONLY <1>b, <1>e, <1>f, <2>1, <3>2, <3>4, <3>5, SMTT(30) DEF GuardWindow
        <3> QED
            BY <2>2, <3>1, <3>3, <3>6 DEF GuardOK, q
    <2>4. CASE ~(k + 1 < FailLimit)
        <3> DEFINE h == [start |-> 0, fails |-> 0, until |-> t + BlockFor]
        <3>1. Guilty(g) = h
            BY <1>2, <2>0, <2>4, <1>a, t = now DEF Guilty, k
        <3>2. h \in [start : Nat, fails : Nat, until : Nat] /\ h.start = 0 /\ h.fails = 0
              /\ h.until = t + BlockFor
            BY ONLY <1>a, <1>b
        <3> HIDE DEF h
        <3>3. GuardShape(h, q, t)
            BY ONLY <1>a, <1>b, <1>e, <1>h, <3>2 DEF GuardShape
        <3>4. GuardWindow(h, q)
            BY ONLY <1>a, <1>b, <1>e, <3>2 DEF GuardWindow
        <3> QED
            BY <2>2, <3>1, <3>3, <3>4 DEF GuardOK, q
    <2> QED
        BY <2>3, <2>4
<1> QED
    BY <1>1, <1>2

\* A good bind clears the window and the charges.
LEMMA ClearedOK ==
    ASSUME NEW g, NEW f, NEW t, GuardOK(g, f, t), NEW h, h.start = 0, h.fails = 0,
           h \in [start : Nat, fails : Nat, until : Nat]
    PROVE  GuardOK(h, <<>>, t)
<1>1. <<>> \in Seq(Nat) /\ Len(<<>>) = 0 /\ FailLimit \in Nat /\ FailLimit >= 2
    BY EmptySeq, GatewayAssumption DEF UdpConfigured
<1>2. t \in Nat \ {0}
    BY DEF GuardOK, GuardShape
<1> QED
    BY SMT, <1>1, <1>2 DEF GuardOK, GuardShape, GuardWindow, Spread

\* The clock moves on.
LEMMA LaterOK ==
    ASSUME NEW g, NEW f, NEW t, GuardOK(g, f, t)
    PROVE  GuardOK(g, f, t + 1)
<1>1. t \in Nat \ {0} /\ f \in Seq(Nat) /\ \A i \in 1..Len(f) : f[i] \in Nat /\ f[i] <= t
    BY ElementOfSeq DEF GuardOK, GuardShape
<1>2. \A i \in 1..Len(f) : f[i] <= t + 1
    BY SMT, <1>1
<1> QED
    BY SMT, <1>1, <1>2 DEF GuardOK, GuardShape

\* Spread charges are few within a window.
LEMMA SpreadCounts ==
    ASSUME NEW g, NEW f, NEW t, GuardOK(g, f, t), NEW i \in 1..Len(f)
    PROVE  Cardinality({j \in i..Len(f) : f[j] - f[i] <= FailWindow}) <= 2 * FailLimit - 2
<1> DEFINE n == Len(f)
           s == 2 * FailLimit - 2
           T == {j \in i..n : f[j] - f[i] <= FailWindow}
<1>1. /\ f \in Seq(Nat) /\ n \in Nat /\ FailLimit \in Nat /\ FailLimit >= 2 /\ FailWindow \in Nat
      /\ \A j \in 1..n : f[j] \in Nat
    BY ElementOfSeq, LenProperties, GatewayAssumption DEF GuardOK, GuardShape, UdpConfigured
<1>2. \A j, l \in 1..n : j <= l => f[j] <= f[l]
    BY DEF GuardOK, GuardShape
<1>3. \A j \in 1..n - s : f[j + s] - f[j] > FailWindow
    BY DEF GuardOK, Spread
<1> HIDE DEF n
<1>4. ASSUME NEW j \in T
      PROVE  j \in i..i + s - 1
    <2>0. i \in 1..n
        BY DEF n
    <2>1. j \in 1..n /\ j >= i /\ f[j] - f[i] <= FailWindow
        BY SMT, <1>1, <2>0
    <2>2. CASE j >= i + s
        <3>1. i \in 1..n - s /\ i + s \in 1..n
            BY ONLY <1>1, <2>0, <2>1, <2>2
        <3>2. f[i + s] - f[i] > FailWindow /\ f[i + s] <= f[j]
            BY ONLY <1>2, <1>3, <2>1, <2>2, <3>1
        <3> QED
            BY ONLY <1>1, <2>0, <2>1, <3>1, <3>2, SMTT(30)
    <2> QED
        BY ONLY <1>1, <2>0, <2>1, <2>2
<1>5. i \in Int /\ i + s - 1 \in Int /\ i <= i + s - 1 /\ (i + s - 1) - i + 1 = s
    BY ONLY <1>1, i \in 1..n DEF n
<1>6. IsFiniteSet(i..i + s - 1) /\ Cardinality(i..i + s - 1) = s
    BY ONLY <1>5, FS_Interval
<1>7. Cardinality(T) <= s
    <2> DEFINE U == i..i + s - 1
    <2>1. T \in SUBSET U
        BY ONLY <1>4
    <2> HIDE DEF T, U
    <2>2. Cardinality(T) <= Cardinality(U)
        BY ONLY <1>6, <2>1, FS_Subset DEF U
    <2> QED
        BY ONLY <1>6, <2>2 DEF U
<1> QED
    BY <1>7 DEF n

\* Only bind requests touch the guard.
LEMMA GuardFrame ==
    ASSUME NEW c \in Conns,
           \/ OnConnect(c) \/ ReadPartial(c) \/ ReadRefused(c) \/ HandshakeTimeout(c)
           \/ FinishHandshake(c) \/ ClientGone(c)
           \/ ResolveFails(c) \/ ResolveDone(c) \/ ConnectTimerExpires(c)
           \/ OnConnectTimeout(c) \/ ConnectFails(c) \/ ConnectAborted(c) \/ ConnectDone(c)
           \/ RetryFires(c) \/ ClientSends(c) \/ WriteDone(c) \/ BackendLost(c)
           \/ LateWrite(c) \/ LateError(c)
    PROVE  UNCHANGED <<guard, faults, now>>
<1>1. CASE OnConnect(c) \/ ReadPartial(c) \/ ReadRefused(c) \/ HandshakeTimeout(c)
           \/ FinishHandshake(c) \/ ClientGone(c)
    BY <1>1 DEF OnConnect, ReadPartial, ReadRefused, HandshakeTimeout, FinishHandshake,
                ClientGone, udpvars
<1>2. CASE ResolveFails(c) \/ OnConnectTimeout(c) \/ ConnectFails(c) \/ ConnectAborted(c)
    BY <1>2 DEF ResolveFails, OnConnectTimeout, ConnectFails, ConnectAborted, RetryOrEnd
<1>3. CASE ResolveDone(c) \/ ConnectTimerExpires(c) \/ ConnectDone(c) \/ RetryFires(c)
           \/ ClientSends(c) \/ WriteDone(c) \/ BackendLost(c) \/ LateWrite(c) \/ LateError(c)
    BY <1>3 DEF ResolveDone, ConnectTimerExpires, ConnectDone, RetryFires, ClientSends,
                WriteDone, BackendLost, LateWrite, LateError, udpvars
<1> QED
    BY <1>1, <1>2, <1>3

\* A charge of endpoint e.
LEMMA ChargeStep ==
    ASSUME BlockOutlasts, GuardsOK, NEW e \in Endpoints, Charge(e), ~Blocked(e), now' = now
    PROVE  GuardsOK'
<1>1. GuardOK(guard[e], faults[e], now) /\ guard[e].until <= now
    <2>1. GuardOK(guard[e], faults[e], now)
        BY DEF GuardsOK
    <2>2. guard[e].until \in Nat /\ now \in Nat
        BY <2>1 DEF GuardOK, GuardShape
    <2> QED
        BY SMT, <2>1, <2>2 DEF Blocked
<1>2. GuardOK(Guilty(guard[e]), Append(faults[e], now), now)
    BY <1>1, ChargeOK
<1>3. /\ DOMAIN guard' = Endpoints /\ DOMAIN faults' = Endpoints
      /\ guard'[e] = Guilty(guard[e]) /\ faults'[e] = Append(faults[e], now)
      /\ \A d \in Endpoints \ {e} : guard'[d] = guard[d] /\ faults'[d] = faults[d]
    BY DEF GuardsOK, Charge
<1>4. ASSUME NEW d \in Endpoints
      PROVE  GuardOK(guard'[d], faults'[d], now)
    <2>1. CASE d = e
        BY <1>2, <1>3, <2>1
    <2>2. CASE d # e
        BY <1>3, <2>2 DEF GuardsOK
    <2> QED
        BY <2>1, <2>2, SMTT(30)
<1> QED
    BY <1>3, <1>4 DEF GuardsOK

\* Every step keeps the guard's bookkeeping right.
LEMMA GuardsStep ==
    ASSUME BlockOutlasts, GuardsOK, [Next]_vars
    PROVE  GuardsOK'
<1>1. CASE UNCHANGED <<guard, faults, now>>
    BY <1>1 DEF GuardsOK
<1>2. ASSUME NEW e \in Endpoints, NEW c \in Conns, NEW own \in BOOLEAN, BindRequest(c, e, own)
      PROVE  GuardsOK'
    <2>1. ~Blocked(e) /\ now' = now
        BY <1>2 DEF BindRequest
    <2>2. CASE Charge(e)
        BY <2>1, <2>2, ChargeStep
    <2>3. CASE /\ guard' = [guard EXCEPT ![e].start = 0, ![e].fails = 0]
               /\ faults' = [faults EXCEPT ![e] = <<>>]
        <3>1. GuardOK(guard[e], faults[e], now)
              /\ guard[e] \in [start : Nat, fails : Nat, until : Nat]
            BY DEF GuardsOK, GuardOK, GuardShape
        <3>2. /\ DOMAIN guard' = Endpoints /\ DOMAIN faults' = Endpoints /\ faults'[e] = <<>>
              /\ guard'[e] = [guard[e] EXCEPT !.start = 0, !.fails = 0]
              /\ \A d \in Endpoints \ {e} : guard'[d] = guard[d] /\ faults'[d] = faults[d]
            BY <2>3 DEF GuardsOK
        <3>3. /\ guard'[e] \in [start : Nat, fails : Nat, until : Nat]
              /\ guard'[e].start = 0 /\ guard'[e].fails = 0
            <4> DEFINE g == guard[e]
                       h == [g EXCEPT !.start = 0, !.fails = 0]
            <4>1. g \in [start : Nat, fails : Nat, until : Nat] /\ guard'[e] = h
                BY <3>1, <3>2
            <4> HIDE DEF g
            <4>2. h \in [start : Nat, fails : Nat, until : Nat] /\ h.start = 0 /\ h.fails = 0
                BY ONLY <4>1
            <4> HIDE DEF h
            <4> QED
                BY ONLY <4>1, <4>2
        <3>4. GuardOK(guard'[e], faults'[e], now)
            <4>1. GuardOK(guard'[e], <<>>, now)
                BY ONLY <3>1, <3>3, ClearedOK
            <4> QED
                BY ONLY <3>2, <4>1
        <3>5. ASSUME NEW d \in Endpoints
              PROVE  GuardOK(guard'[d], faults'[d], now)
            <4>1. CASE d = e
                BY <3>4, <4>1
            <4>2. CASE d # e
                BY <3>2, <4>2 DEF GuardsOK
            <4> QED
                BY <4>1, <4>2
        <3> QED
            BY <2>1, <3>2, <3>5, SMTT(30) DEF GuardsOK
    <2> QED
        BY <1>2, <2>2, <2>3 DEF BindRequest
<1>3. ASSUME NEW e \in Endpoints, BindInvalid(e)
      PROVE  GuardsOK'
    BY <1>3, ChargeStep DEF BindInvalid
<1>4. ASSUME NEW e \in Endpoints, RudpDatagram(e) \/ \E seq \in 0..MaxSeq : Datagram(e, seq)
      PROVE  UNCHANGED <<guard, faults, now>>
    BY <1>4 DEF RudpDatagram, Datagram
<1>5. CASE Tick
    <2>1. now' = now + 1 /\ UNCHANGED <<guard, faults>>
        BY <1>5 DEF Tick, udpvars
    <2> QED
        BY SMT, <2>1, LaterOK DEF GuardsOK
<1>6. CASE Probe \/ Stop \/ UNCHANGED vars
    BY <1>1, <1>6, SMTT(30) DEF Probe, Stop, vars, udpvars
<1> QED
    BY <1>1, <1>2, <1>3, <1>4, <1>5, <1>6, GuardFrame DEF Next

\* No endpoint is charged at the start.
LEMMA GuardsInit ==
    ASSUME Init
    PROVE  GuardsOK
<1> DEFINE g == [start |-> 0, fails |-> 0, until |-> 0]
<1>1. <<>> \in Seq(Nat) /\ Len(<<>>) = 0 /\ FailLimit \in Nat /\ FailLimit >= 2
    BY EmptySeq, GatewayAssumption DEF UdpConfigured
<1>2. GuardOK(g, <<>>, 1)
    BY SMT, <1>1 DEF GuardOK, GuardShape, GuardWindow, Spread
<1> QED
    BY SMT, <1>2 DEF Init, GuardsOK

\* The abuse guard holds an endpoint to fewer than 2 * FailLimit - 1 charged
\* binds within any FailWindow, wherever the window is placed: the guard's own
\* windows are fixed, so up to two of them may overlap it.
THEOREM AbuseGuardHolds ==
    ASSUME BlockOutlasts
    PROVE  Spec => []AbuseBounded
<1>1. Init => GuardsOK
    BY GuardsInit
<1>2. GuardsOK /\ [Next]_vars => GuardsOK'
    BY GuardsStep
<1>3. GuardsOK => AbuseBounded
    BY SpreadCounts DEF GuardsOK, AbuseBounded
<1> QED
    BY <1>1, <1>2, <1>3, PTL DEF Spec
=============================================================================
