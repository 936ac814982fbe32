---------------------------- MODULE NetSession ----------------------------
(***************************************************************************)
(* The packet sessions of server_core: the acceptor that makes them under  *)
(* a connection limit, the pool of blocks they share, and each session's   *)
(* reads, sends, timers and stop.  What runs on a session's strand is one  *)
(* step; what is dispatched to it from another thread waits in strand[s].  *)
(* A packet is its kind, "hello" or "other", and takes one block from the  *)
(* moment it is made until it is written, dropped, or its session is       *)
(* destroyed.                                                              *)
(***************************************************************************)
EXTENDS Integers, Sequences, FiniteSets, FiniteSetsExt

CONSTANTS
    Sessions,    \* the connections that may come
    Configs      \* what is tried: max_connections, the pool's blocks, send_queue_max in
                 \* packets, and the packets a session is asked to send (a bound)

VARIABLES
    conf,     \* the configuration the process runs with
    count,    \* ConnectionRuntimeState::connection_count
    free,     \* the blocks in the pool's free list
    st,       \* the life of each session
    strand,   \* what waits for its strand: packets and a stop
    made,     \* the packet a worker has made and not yet dispatched
    reading,  \* the read in progress: "start" before the first, "dead" on a closed socket
    rblock,   \* the blocks read_buf_ holds
    queue,    \* send_queue_
    writing,  \* the async_write in progress: "no", "on", "dead" on a closed socket
    first,    \* history: the first packet written
    closes,   \* history: how often on_close_ ran
    sends     \* counts the packets asked for

pool == <<conf, count, free>>
io   == <<strand, made, reading, rblock, queue, writing>>
hist == <<first, closes, sends>>
vars == <<pool, st, io, hist>>

\* Live: stopped_ is not set.  Known: some thread may still hold the session.
Live(s) == st[s] = "open"
Known(s) == st[s] \in {"open", "stopping", "closed"}

Init ==
    /\ conf \in Configs /\ count = 0 /\ free = conf.blocks
    /\ st = [s \in Sessions |-> "none"]
    /\ strand = [s \in Sessions |-> <<>>] /\ made = [s \in Sessions |-> "none"]
    /\ reading = [s \in Sessions |-> "no"] /\ rblock = [s \in Sessions |-> 0]
    /\ queue = [s \in Sessions |-> <<>>] /\ writing = [s \in Sessions |-> "no"]
    /\ first = [s \in Sessions |-> "none"] /\ closes = [s \in Sessions |-> 0]
    /\ sends = [s \in Sessions |-> 0]

----------------------------------------------------------------------------
\* What one handler on a session's strand changes, as a record: handlers
\* call one another, and each call maps the record to the next.

Local(s) ==
    [st |-> st[s], queue |-> queue[s], writing |-> writing[s], reading |-> reading[s],
     rblock |-> rblock[s], free |-> free, count |-> count, closes |-> closes[s]]

Becomes(s, r) ==
    /\ st' = [st EXCEPT ![s] = r.st] /\ queue' = [queue EXCEPT ![s] = r.queue]
    /\ writing' = [writing EXCEPT ![s] = r.writing]
    /\ reading' = [reading EXCEPT ![s] = r.reading]
    /\ rblock' = [rblock EXCEPT ![s] = r.rblock]
    /\ free' = r.free /\ count' = r.count
    /\ closes' = [closes EXCEPT ![s] = r.closes]

\* The body of stop() on the strand: the socket and the timers are closed,
\* the count goes down, on_close_ runs.
Finalized(r) == [r EXCEPT !.st = "closed", !.count = @ - 1, !.closes = @ + 1]

\* stop() called on the strand: the first call only.
Stopped(r) == IF r.st = "open" THEN Finalized(r) ELSE r

\* async_send on the strand, a block already taken: a stopped session lets
\* it go; a full queue stops the session; a packet that finds the queue
\* empty starts the write.  None does, for comparison.
Fits(r) == Len(r.queue) < conf.queue

EnqueuedIdle(r, packet) ==
    CASE r.st # "open" -> [r EXCEPT !.free = @ + 1]
      [] r.st = "open" /\ ~Fits(r) -> Stopped([r EXCEPT !.free = @ + 1])
      [] OTHER -> [r EXCEPT !.queue = Append(@, packet)]
Enqueued(r, packet) ==
    CASE r.st # "open" -> [r EXCEPT !.free = @ + 1]
      [] r.st = "open" /\ ~Fits(r) -> Stopped([r EXCEPT !.free = @ + 1])
      [] OTHER -> [r EXCEPT !.queue = Append(@, packet),
                            !.writing = IF r.queue = <<>> THEN "on" ELSE @]

\* make_packet, then async_send, on the strand: without a block the packet
\* is dropped and nobody is told.
Sent(r, packet) ==
    IF r.free = 0 THEN r ELSE Enqueued([r EXCEPT !.free = @ - 1], packet)

\* do_read_header and do_read_body acquire the new block before the old one
\* goes back; without one the old one goes back all the same and the session
\* stops.  Keeping the old one, for comparison.
NextReadKeeps(r, what) ==
    IF r.free = 0 THEN Stopped([r EXCEPT !.reading = "no", !.rblock = 0])
    ELSE [r EXCEPT !.reading = IF r.st = "closed" THEN "dead" ELSE what,
                   !.free = @ - 1 + r.rblock, !.rblock = 1]
NextRead(r, what) ==
    IF r.free = 0
    THEN Stopped([r EXCEPT !.reading = "no", !.free = @ + r.rblock, !.rblock = 0])
    ELSE [r EXCEPT !.reading = IF r.st = "closed" THEN "dead" ELSE what,
                   !.free = @ - 1 + r.rblock, !.rblock = 1]

\* A complete message: the handler, or the dispatcher itself for an unknown
\* or a forbidden one, answers or does not; then the next header is read.
Dispatched(r, answers) ==
    NextRead(IF answers THEN Sent(r, "other") ELSE r, "header")

----------------------------------------------------------------------------
\* The acceptor.

\* The limit is asked before the session exists.
UnderLimit == count < conf.limit

\* The accept handler constructs the session and, off the strand, makes the
\* HELLO and dispatches it.
Accept(s) ==
    /\ st[s] = "none" /\ UnderLimit
    /\ st' = [st EXCEPT ![s] = "open"] /\ count' = count + 1
    /\ IF free > 0
       THEN free' = free - 1 /\ strand' = [strand EXCEPT ![s] = <<"hello">>]
       ELSE UNCHANGED <<free, strand>>
    /\ reading' = [reading EXCEPT ![s] = "start"]
    /\ UNCHANGED <<conf, made, rblock, queue, writing, hist>>

\* The limit is reached: the socket is closed and no session is made.
Reject(s) ==
    /\ st[s] = "none" /\ ~UnderLimit
    /\ st' = [st EXCEPT ![s] = "rejected"]
    /\ UNCHANGED <<pool, io, hist>>

\* start() goes on to the first read, still on the accepting thread: a stop
\* from here is dispatched.
StartRead(s) ==
    /\ reading[s] = "start"
    /\ IF free > 0
       THEN /\ free' = free - 1 /\ rblock' = [rblock EXCEPT ![s] = 1]
            /\ reading' = [reading EXCEPT ![s] = IF st[s] = "closed" THEN "dead" ELSE "header"]
            /\ UNCHANGED <<st, strand>>
       ELSE /\ reading' = [reading EXCEPT ![s] = "no"] /\ UNCHANGED <<free, rblock>>
            /\ IF Live(s)
               THEN /\ st' = [st EXCEPT ![s] = "stopping"]
                    /\ strand' = [strand EXCEPT ![s] = Append(@, "stop")]
               ELSE UNCHANGED <<st, strand>>
    /\ UNCHANGED <<conf, count, made, queue, writing, hist>>

----------------------------------------------------------------------------
\* The strand.

\* What was dispatched from elsewhere runs in order.
StrandRuns(s) ==
    /\ strand[s] # <<>>
    /\ strand' = [strand EXCEPT ![s] = Tail(@)]
    /\ Becomes(s, IF Head(strand[s]) = "stop" THEN Finalized(Local(s))
                  ELSE Enqueued(Local(s), Head(strand[s])))
    /\ UNCHANGED <<conf, made, first, sends>>

\* The HELLO was dispatched before any read or timer was started, so their
\* handlers find it done.
Greeted(s) == reading[s] # "start" /\ "hello" \notin {strand[s][k] : k \in DOMAIN strand[s]}

Asked(s, answers) ==
    /\ answers => sends[s] < conf.sends
    /\ sends' = [sends EXCEPT ![s] = @ + (IF answers THEN 1 ELSE 0)]

\* A header arrives, even as the session stops: a length over the limit is
\* answered and ends the session, a body larger than a block ends it, another
\* is read; an empty one is dispatched at once.
ReadHeader(s, kind, answers) ==
    /\ reading[s] = "header" /\ Greeted(s)
    /\ answers => kind = "empty"
    /\ Asked(s, answers)
    /\ LET r == [Local(s) EXCEPT !.reading = "no"] IN
       Becomes(s, CASE kind = "long"  -> Stopped(Sent(r, "other"))
                    [] kind = "large" -> Stopped(r)
                    [] kind = "empty" -> Dispatched(r, answers)
                    [] kind = "body"  -> NextRead(r, "body"))
    /\ UNCHANGED <<conf, strand, made, first>>

\* A body arrives and is dispatched.
ReadBody(s, answers) ==
    /\ reading[s] = "body"
    /\ Asked(s, answers)
    /\ Becomes(s, Dispatched([Local(s) EXCEPT !.reading = "no"], answers))
    /\ UNCHANGED <<conf, strand, made, first>>

\* A read ends in an error: the client is gone, or the socket was closed.
ReadFails(s) ==
    /\ reading[s] \in {"header", "body", "dead"} /\ Greeted(s)
    /\ Becomes(s, Stopped([Local(s) EXCEPT !.reading = "no"]))
    /\ UNCHANGED <<conf, strand, made, first, sends>>

\* A write completes: its block goes back and the next one starts.
WriteDone(s) ==
    /\ writing[s] = "on"
    /\ first' = [first EXCEPT ![s] = IF @ = "none" THEN Head(queue[s]) ELSE @]
    /\ queue' = [queue EXCEPT ![s] = Tail(@)]
    /\ writing' = [writing EXCEPT ![s] = CASE Len(queue[s]) = 1 -> "no"
                                           [] st[s] = "closed" -> "dead"
                                           [] OTHER -> "on"]
    /\ free' = free + 1
    /\ UNCHANGED <<conf, count, st, strand, made, reading, rblock, closes, sends>>

\* A write ends in an error and stops the session; the queue stays.
WriteFails(s) ==
    /\ writing[s] # "no"
    /\ Becomes(s, Stopped([Local(s) EXCEPT !.writing = "no"]))
    /\ UNCHANGED <<conf, strand, made, first, sends>>

\* The heartbeat timer: a ping, and the timer is armed again.
Ping(s) ==
    /\ Live(s) /\ Greeted(s) /\ sends[s] < conf.sends
    /\ sends' = [sends EXCEPT ![s] = @ + 1]
    /\ Becomes(s, Sent(Local(s), "other"))
    /\ UNCHANGED <<conf, strand, made, first>>

\* The read timer, or the write timer, stops the session.
Timeout(s) ==
    /\ Live(s) /\ Greeted(s)
    /\ Becomes(s, Stopped(Local(s)))
    /\ UNCHANGED <<conf, strand, made, first, sends>>

----------------------------------------------------------------------------
\* Other threads.

\* A worker broadcasts: it takes a block for the packet ...
MakePacket(s) ==
    /\ Known(s) /\ reading[s] # "start" /\ made[s] = "none" /\ sends[s] < conf.sends
    /\ sends' = [sends EXCEPT ![s] = @ + 1]
    /\ IF free > 0 THEN free' = free - 1 /\ made' = [made EXCEPT ![s] = "other"]
                   ELSE UNCHANGED <<free, made>>
    /\ UNCHANGED <<conf, count, st, strand, reading, rblock, queue, writing, first, closes>>

\* ... and dispatches it.
PostPacket(s) ==
    /\ made[s] # "none"
    /\ strand' = [strand EXCEPT ![s] = Append(@, made[s])]
    /\ made' = [made EXCEPT ![s] = "none"]
    /\ UNCHANGED <<pool, st, reading, rblock, queue, writing, hist>>

\* A worker stops the session: the flag now, the rest on the strand.
Kick(s) ==
    /\ Live(s) /\ reading[s] # "start"
    /\ st' = [st EXCEPT ![s] = "stopping"]
    /\ strand' = [strand EXCEPT ![s] = Append(@, "stop")]
    /\ UNCHANGED <<pool, made, reading, rblock, queue, writing, hist>>

\* Nobody holds the session any more: it is destroyed, and the block it read
\* into and those of its queue go back.
Destroyable(s) ==
    /\ st[s] = "closed" /\ reading[s] = "no" /\ writing[s] = "no"
    /\ strand[s] = <<>> /\ made[s] = "none"
Destroy(s) ==
    /\ Destroyable(s)
    /\ st' = [st EXCEPT ![s] = "gone"]
    /\ free' = free + rblock[s] + Len(queue[s])
    /\ rblock' = [rblock EXCEPT ![s] = 0] /\ queue' = [queue EXCEPT ![s] = <<>>]
    /\ UNCHANGED <<conf, count, strand, made, reading, writing, hist>>

----------------------------------------------------------------------------
Step(s) ==
    \/ Accept(s) \/ Reject(s) \/ StartRead(s) \/ StrandRuns(s)
    \/ \E answers \in BOOLEAN :
          \/ \E kind \in {"long", "large", "empty", "body"} : ReadHeader(s, kind, answers)
          \/ ReadBody(s, answers)
    \/ ReadFails(s) \/ WriteDone(s) \/ WriteFails(s) \/ Ping(s) \/ Timeout(s)
    \/ MakePacket(s) \/ PostPacket(s) \/ Kick(s) \/ Destroy(s)

Next == \E s \in Sessions : Step(s)

Spec == Init /\ [][Next]_vars

----------------------------------------------------------------------------
TypeOK ==
    /\ free \in 0..conf.blocks /\ count \in Int
    /\ \A s \in Sessions :
          /\ st[s] \in {"none", "rejected", "open", "stopping", "closed", "gone"}
          /\ reading[s] \in {"no", "start", "header", "body", "dead"} /\ rblock[s] \in 0..1
          /\ closes[s] \in Nat /\ sends[s] \in 0..conf.sends

\* The blocks a session holds: read into, queued, made and on their way.
Held(s) ==
    rblock[s] + Len(queue[s]) + (IF made[s] = "none" THEN 0 ELSE 1)
    + Len(SelectSeq(strand[s], LAMBDA x : x # "stop"))

\* No block is lost and none is returned twice, whatever fails or races:
\* the free blocks and those the sessions hold make up the pool.
PoolConserved == free + MapThenSumSet(Held, Sessions) = conf.blocks

\* A queued packet of an open session is never left without a write in
\* progress, and the queue keeps its budget.
SendQueueMoves ==
    \A s \in Sessions :
        /\ writing[s] # "no" => queue[s] # <<>>
        /\ Live(s) /\ queue[s] # <<>> => writing[s] = "on"
        /\ Len(queue[s]) <= conf.queue

\* session.cpp start(): the HELLO is sent before anything else.
HelloFirst == \A s \in Sessions : first[s] # "other"
============================================================================
