------------------------------ MODULE WbWorker ------------------------------
(***************************************************************************)
(* The write-behind path of the chat server: server_app XADDs session      *)
(* events to a Redis stream, a group of wb_worker processes reads them,    *)
(* batches them into Postgres transactions and acknowledges them; what the *)
(* database rejects goes to a dead letter queue (DLQ).                     *)
(*                                                                         *)
(* Stream ids are the naturals 1, 2, ... in XADD order.  A step of a       *)
(* worker is what it does between two calls to Redis or to Postgres, so a  *)
(* crash, another worker or the server can run between any two calls.      *)
(* Clocks are abstracted: a periodic branch of the loop may be due or not  *)
(* whenever the code looks, and a pending entry becomes old enough for     *)
(* XAUTOCLAIM at some point after its last delivery.                       *)
(***************************************************************************)
EXTENDS Integers, Sequences, FiniteSets

CONSTANTS
  Workers,        \* the wb_worker processes (consumers of one group)
  MaxEvents,      \* bound: XADDs of the server
  Malformed,      \* the ids whose row the database always rejects
  BatchMax,       \* WB_BATCH_MAX_EVENTS
  RetryMax,       \* WB_RETRY_MAX
  ReclaimEnabled, \* WB_RECLAIM_ENABLED
  ReclaimCount,   \* WB_RECLAIM_COUNT
  DlqOnError,     \* the workers with WB_DLQ_ON_ERROR
  AckOnError,     \* the workers with WB_ACK_ON_ERROR
  StreamMaxLen,   \* REDIS_STREAM_MAXLEN, 0 when it is not set
  DlqXaddMayFail, \* whether Redis may refuse the XADD to the DLQ
  MaxFaults,      \* bound: failed calls to Redis or Postgres
  MaxEnds         \* bound: crashes of workers and SIGTERMs to them

ASSUME CountsAssumption ==
  /\ MaxEvents \in Nat /\ StreamMaxLen \in Nat /\ RetryMax \in Nat
  /\ BatchMax \in Nat \ {0} /\ ReclaimCount \in Nat \ {0}
  /\ MaxFaults \in Nat /\ MaxEnds \in Nat
ASSUME FlagsAssumption ==
  /\ ReclaimEnabled \in BOOLEAN /\ DlqXaddMayFail \in BOOLEAN
  /\ DlqOnError \subseteq Workers /\ AckOnError \subseteq Workers

VARIABLES
  \* the Redis stream and its consumer group
  last,           \* the newest id of the stream
  stream,         \* the ids the stream still holds (MAXLEN trims the oldest)
  group,          \* the id the group was created at, or NoGroup
  delivered,      \* the group's last-delivered-id
  pel,            \* the group's pending entries list
  idle,           \* the pending ids idle for at least reclaim_min_idle_ms
  \* where an event ends up
  db,             \* the event_ids committed to session_events
  dlq,            \* the DLQ stream: [orig, retry]
  dropped,        \* acknowledged on error without a copy, as configured
  \* one wb_worker process
  pc,             \* where it is
  conn,           \* db_ is open with the insert prepared
  stopReq,        \* app_host_.stop_requested()
  first,          \* initial_reclaim_done is still false
  cursor,         \* reclaim_next_id_, 0 for "0-0"
  incoming,       \* entries of the last reply that are not in buf yet
  buf,            \* the batch
  next,           \* where the loop goes on once incoming is buffered
  attempt,        \* attempt of Flush
  todo,           \* entries of buf this attempt has not processed
  ackIds,         \* ack_ids
  \* how much of the bounds is used
  faults, ends

streamVars == <<last, stream, group, delivered, pel, idle>>
stores     == <<db, dlq, dropped>>
flushVars  == <<attempt, todo, ackIds>>
bufVars    == <<incoming, buf, next>>
procVars   == <<stopReq, first, cursor>>
bounds     == <<faults, ends>>
vars == <<streamVars, stores, pc, conn, procVars, bufVars, flushVars, bounds>>

NoGroup == -1
Ids     == 1 .. MaxEvents
Phases  == {"down", "stopped", "loop", "reclaim", "read", "buffer", "tick",
            "flush", "entry", "dlq", "dlqack", "drop", "commit", "ack"}
\* the phases of Flush, entered with a full buffer or a due batch
InFlush == {"flush", "entry", "dlq", "dlqack", "drop", "commit", "ack"}

SeqRange(s) == {s[i] : i \in 1 .. Len(s)}
Set(f, w, v) == [f EXCEPT ![w] = v]

Fault == faults < MaxFaults /\ faults' = faults + 1
NoFault == UNCHANGED faults

-----------------------------------------------------------------------------
Init ==
  /\ last = 0 /\ stream = {} /\ group = NoGroup /\ delivered = 0
  /\ pel = {} /\ idle = {} /\ db = {} /\ dlq = <<>> /\ dropped = {}
  /\ pc = [w \in Workers |-> "down"]
  /\ conn = [w \in Workers |-> FALSE]
  /\ stopReq = [w \in Workers |-> FALSE]
  /\ first = [w \in Workers |-> TRUE]
  /\ cursor = [w \in Workers |-> 0]
  /\ incoming = [w \in Workers |-> <<>>]
  /\ buf = [w \in Workers |-> <<>>]
  /\ next = [w \in Workers |-> "read"]
  /\ attempt = [w \in Workers |-> 0]
  /\ todo = [w \in Workers |-> <<>>]
  /\ ackIds = [w \in Workers |-> <<>>]
  /\ faults = 0 /\ ends = 0

-----------------------------------------------------------------------------
(* The server and the clock. *)

\* XADD MAXLEN ~ n keeps at least the n newest entries and never the future.
Trimmed(s) ==
  IF StreamMaxLen = 0
  THEN {s}
  ELSE {t \in SUBSET s : /\ \A i \in t, j \in s : i < j => j \in t
                         /\ Cardinality(t) >= StreamMaxLen \/ t = s}

\* ChatService::emit_write_behind_event.  When the XADD fails the event is
\* only logged and never existed for the rest of the path.
Emit ==
  /\ last < MaxEvents
  /\ last' = last + 1
  /\ stream' \in Trimmed(stream \union {last + 1})
  /\ UNCHANGED <<group, delivered, pel, idle, stores, pc, conn, procVars,
                 bufVars, flushVars, bounds>>

\* A pending entry has now been idle for reclaim_min_idle_ms.
Age(id) ==
  /\ id \in pel \ idle
  /\ idle' = idle \union {id}
  /\ UNCHANGED <<last, stream, group, delivered, pel, stores, pc, conn,
                 procVars, bufVars, flushVars, bounds>>

-----------------------------------------------------------------------------
(* The life of a worker process. *)

\* (mutant) every start moves the group to the end of the stream
CreateGroupAgain == group' = last /\ delivered' = last
\* XGROUP CREATE at "$": only entries added later are ever delivered.
CreateGroup ==
  IF group = NoGroup THEN group' = last /\ delivered' = last
                     ELSE UNCHANGED <<group, delivered>>

\* WbWorker::Run up to Loop.  Nobody looks at the result of XGROUP CREATE, and
\* the first connection attempt may fail.
Start(w) ==
  /\ pc[w] \in {"down", "stopped"}
  /\ \E created, connected \in BOOLEAN :
       /\ IF created THEN CreateGroup ELSE UNCHANGED <<group, delivered>>
       /\ conn' = Set(conn, w, connected)
       /\ IF created THEN NoFault ELSE Fault
  /\ pc' = Set(pc, w, "loop")
  /\ stopReq' = Set(stopReq, w, FALSE)
  /\ first' = Set(first, w, TRUE)
  /\ cursor' = Set(cursor, w, 0)
  /\ incoming' = Set(incoming, w, <<>>)
  /\ buf' = Set(buf, w, <<>>)
  /\ UNCHANGED <<last, stream, pel, idle, stores, next, flushVars, ends>>

\* SIGTERM: the handler sets the flag that only the head of Loop reads.
RequestStop(w) ==
  /\ pc[w] \notin {"down", "stopped"}
  /\ ~stopReq[w]
  /\ ends < MaxEnds
  /\ ends' = ends + 1
  /\ stopReq' = Set(stopReq, w, TRUE)
  /\ UNCHANGED <<streamVars, stores, pc, conn, first, cursor, bufVars,
                 flushVars, faults>>

\* The process dies: its memory and its open transaction are gone.
Crash(w) ==
  /\ pc[w] \notin {"down", "stopped"}
  /\ ends < MaxEnds
  /\ ends' = ends + 1
  /\ pc' = Set(pc, w, "down")
  /\ conn' = Set(conn, w, FALSE)
  /\ stopReq' = Set(stopReq, w, FALSE)
  /\ incoming' = Set(incoming, w, <<>>)
  /\ buf' = Set(buf, w, <<>>)
  /\ attempt' = Set(attempt, w, 0)
  /\ todo' = Set(todo, w, <<>>)
  /\ ackIds' = Set(ackIds, w, <<>>)
  /\ UNCHANGED <<streamVars, stores, first, cursor, next, faults>>

-----------------------------------------------------------------------------
(* Loop. *)

LoopStop(w) ==
  /\ pc[w] = "loop" /\ stopReq[w]
  /\ pc' = Set(pc, w, "stopped")
  /\ conn' = Set(conn, w, FALSE)
  /\ UNCHANGED <<streamVars, stores, procVars, bufVars, flushVars, bounds>>

\* EnsureDbConnection fails; back off and look again.
LoopNoDb(w) ==
  /\ pc[w] = "loop" /\ ~stopReq[w] /\ ~conn[w]
  /\ Fault
  /\ UNCHANGED <<streamVars, stores, pc, conn, procVars, bufVars, flushVars,
                 ends>>

\* EnsureDbConnection succeeds, connecting when there is no connection.
LoopWithDb(w, phase) ==
  /\ pc[w] = "loop" /\ ~stopReq[w]
  /\ conn' = Set(conn, w, TRUE)
  /\ pc' = Set(pc, w, phase)
  /\ UNCHANGED <<streamVars, stores, procVars, bufVars, flushVars, bounds>>

\* (mutant) only the reclaim at startup, never the periodic one
LoopReclaimOnce(w) == ReclaimEnabled /\ first[w] /\ LoopWithDb(w, "reclaim")
\* The first pass is always due: last_reclaim starts one interval ago.
LoopReclaim(w) == ReclaimEnabled /\ LoopWithDb(w, "reclaim")
LoopRead(w)    == ~(ReclaimEnabled /\ first[w]) /\ LoopWithDb(w, "read")

\* The reply that lists S in stream order (XREADGROUP and XAUTOCLAIM do).
Reply(S) ==
  {s \in [1 .. Cardinality(S) -> S] :
    \A i, j \in 1 .. Cardinality(S) : i < j => s[i] < s[j]}
Oldest(S, n) ==
  {i \in S : Cardinality({j \in S : j < i}) < n}

\* XAUTOCLAIM visits the pending ids from the cursor on, takes up to
\* ReclaimCount that are idle (all of them on the first pass, min_idle 0) or
\* that were trimmed from the stream, and drops the trimmed ones from the PEL.
ClaimTaken(w) ==
  Oldest({i \in pel : /\ i >= cursor[w]
                      /\ first[w] \/ i \in idle \/ i \notin stream},
         ReclaimCount)
\* (mutant) every pass starts at "0-0" again
ClaimCursorReset(w, taken) == {0}
ClaimCursor(w, taken) ==
  LET rest == {i \in pel : \A j \in taken : i > j}
  IN IF Cardinality(taken) < ReclaimCount \/ rest = {}
     THEN {0}
     ELSE {i \in rest : \A j \in rest : i <= j}
\* (mutant) reclaiming an entry acknowledges it
ClaimAndAck(taken) == idle' = idle \ taken /\ pel' = pel \ taken
Claim(taken) ==
  /\ idle' = idle \ taken
  /\ pel' = pel \ (taken \ stream)

\* Where the loop is once `entries` are all that is left to buffer.
BufferNext(w, entries, after) ==
  /\ incoming' = Set(incoming, w, entries)
  /\ next' = Set(next, w, after)
  /\ pc' = Set(pc, w, IF entries = <<>> THEN after ELSE "buffer")

\* ReclaimPending; its Acks of deleted_ids find nothing left to remove.
Reclaim(w) ==
  LET taken == ClaimTaken(w) IN
  /\ pc[w] = "reclaim" /\ group # NoGroup
  /\ Claim(taken)
  /\ \E c \in ClaimCursor(w, taken) : cursor' = Set(cursor, w, c)
  /\ first' = Set(first, w, FALSE)
  /\ \E r \in Reply(taken \intersect stream) : BufferNext(w, r, "read")
  /\ UNCHANGED <<last, stream, group, delivered, stores, conn, stopReq, buf,
                 flushVars, bounds>>

\* xautoclaim returns false: Redis did not run it, its reply was lost, or there
\* is no group (NOGROUP).
ReclaimFails(w) ==
  /\ pc[w] = "reclaim"
  /\ \/ group # NoGroup /\ Fault /\ Claim(ClaimTaken(w))
     \/ Fault /\ UNCHANGED <<idle, pel>>
     \/ group = NoGroup /\ NoFault /\ UNCHANGED <<idle, pel>>
  /\ first' = Set(first, w, FALSE)
  /\ pc' = Set(pc, w, "read")
  /\ UNCHANGED <<last, stream, group, delivered, stores, conn, stopReq,
                 cursor, bufVars, flushVars, ends>>

\* XREADGROUP ">": the oldest entries never delivered to the group.
ReadTaken == Oldest({i \in stream : i > delivered}, BatchMax)
Deliver(taken) ==
  /\ pel' = pel \union taken
  /\ \/ taken = {} /\ UNCHANGED delivered
     \/ \E d \in taken : (\A i \in taken : i <= d) /\ delivered' = d

Read(w) ==
  /\ pc[w] = "read" /\ group # NoGroup
  /\ Deliver(ReadTaken)
  /\ \E r \in Reply(ReadTaken) : BufferNext(w, r, "tick")
  /\ UNCHANGED <<last, stream, group, idle, stores, conn, procVars, buf,
                 flushVars, bounds>>

\* xreadgroup returns false for the same reasons: the loop starts over and
\* skips the due flush.
ReadFails(w) ==
  /\ pc[w] = "read"
  /\ \/ group # NoGroup /\ Fault /\ Deliver(ReadTaken)
     \/ Fault /\ UNCHANGED <<pel, delivered>>
     \/ group = NoGroup /\ NoFault /\ UNCHANGED <<pel, delivered>>
  /\ pc' = Set(pc, w, "loop")
  /\ UNCHANGED <<last, stream, group, idle, stores, conn, procVars, bufVars,
                 flushVars, ends>>

\* (mutant) the limit is compared before the entry is appended
BufferEntryLate(w) ==
  /\ pc[w] = "buffer"
  /\ buf' = Set(buf, w, Append(buf[w], Head(incoming[w])))
  /\ incoming' = Set(incoming, w, Tail(incoming[w]))
  /\ \/ pc' = Set(pc, w, "flush")
     \/ /\ Len(buf[w]) < BatchMax
        /\ pc' = Set(pc, w, IF Len(incoming[w]) = 1 THEN next[w] ELSE "buffer")
  /\ UNCHANGED <<streamVars, stores, conn, procVars, next, flushVars, bounds>>
\* One more entry joins the batch.  Whether its bytes reach batch_max_bytes
\* depends on the payload: a batch may be full early, never late.
BufferEntry(w) ==
  /\ pc[w] = "buffer"
  /\ buf' = Set(buf, w, Append(buf[w], Head(incoming[w])))
  /\ incoming' = Set(incoming, w, Tail(incoming[w]))
  /\ \/ pc' = Set(pc, w, "flush")
     \/ /\ Len(buf[w]) + 1 < BatchMax
        /\ pc' = Set(pc, w, IF Len(incoming[w]) = 1 THEN next[w] ELSE "buffer")
  /\ UNCHANGED <<streamVars, stores, conn, procVars, next, flushVars, bounds>>

\* The end of the loop body: the batch may be due.
TickFlush(w) ==
  /\ pc[w] = "tick" /\ buf[w] # <<>>
  /\ pc' = Set(pc, w, "flush")
  /\ next' = Set(next, w, "loop")
  /\ UNCHANGED <<streamVars, stores, conn, procVars, incoming, buf, flushVars,
                 bounds>>
TickWait(w) ==
  /\ pc[w] = "tick"
  /\ pc' = Set(pc, w, "loop")
  /\ UNCHANGED <<streamVars, stores, conn, procVars, bufVars, flushVars,
                 bounds>>

-----------------------------------------------------------------------------
(* Flush. *)

\* Flush returns: the batch is forgotten whether or not it was committed.
EndFlush(w) ==
  /\ buf' = Set(buf, w, <<>>)
  /\ pc' = Set(pc, w, IF incoming[w] = <<>> THEN next[w] ELSE "buffer")
  /\ attempt' = Set(attempt, w, 0)
  /\ todo' = Set(todo, w, <<>>)
  /\ ackIds' = Set(ackIds, w, <<>>)

\* An exception left the attempt: try again while the budget lasts.
EndAttempt(w) ==
  IF attempt[w] < RetryMax
  THEN /\ attempt' = Set(attempt, w, attempt[w] + 1)
       /\ pc' = Set(pc, w, "flush")
       /\ todo' = Set(todo, w, <<>>)
       /\ ackIds' = Set(ackIds, w, <<>>)
       /\ UNCHANGED buf
  ELSE EndFlush(w)

\* The head of an attempt: "DB not ready" without a connection.
BeginAttempt(w) ==
  /\ pc[w] = "flush" /\ conn[w]
  /\ todo' = Set(todo, w, buf[w])
  /\ pc' = Set(pc, w, "entry")
  /\ UNCHANGED <<streamVars, stores, conn, procVars, bufVars, attempt, ackIds,
                 bounds>>
AttemptNotReady(w) ==
  /\ pc[w] = "flush" /\ ~conn[w]
  /\ EndAttempt(w)
  /\ UNCHANGED <<streamVars, stores, conn, procVars, incoming, next, bounds>>

\* The entry of the loop over buf is done.
NextEntry(w) ==
  /\ todo' = Set(todo, w, Tail(todo[w]))
  /\ pc' = Set(pc, w, IF Len(todo[w]) = 1 THEN "commit" ELSE "entry")

\* ProcessEntry inserts the row under a savepoint.
InsertEntry(w) ==
  /\ pc[w] = "entry" /\ Head(todo[w]) \notin Malformed
  /\ ackIds' = Set(ackIds, w, Append(ackIds[w], Head(todo[w])))
  /\ NextEntry(w)
  /\ UNCHANGED <<streamVars, stores, conn, procVars, bufVars, attempt, bounds>>

\* ProcessEntry throws: the row is bad, or the statement failed this time.
RejectEntry(w) ==
  /\ pc[w] = "entry"
  /\ IF Head(todo[w]) \in Malformed THEN NoFault ELSE Fault
  /\ IF w \in DlqOnError \union AckOnError
     THEN /\ pc' = Set(pc, w, IF w \in DlqOnError THEN "dlq" ELSE "drop")
          /\ UNCHANGED todo
     ELSE NextEntry(w)
  /\ UNCHANGED <<streamVars, stores, conn, procVars, bufVars, attempt, ackIds,
                 ends>>

\* The first entry of the batch goes to the DLQ instead of the rejected one.
SendToDlqFirst(w) ==
  /\ pc[w] = "dlq"
  /\ dlq' = Append(dlq, [orig |-> Head(buf[w]), retry |-> 0]) /\ NoFault
  /\ pc' = Set(pc, w, "dlqack")
  /\ UNCHANGED <<streamVars, db, dropped, conn, procVars, bufVars, flushVars,
                 ends>>

\* SendToDlq ignores what xadd returns.
SendToDlq(w) ==
  /\ pc[w] = "dlq"
  /\ \/ dlq' = Append(dlq, [orig |-> Head(todo[w]), retry |-> 0]) /\ NoFault
     \/ DlqXaddMayFail /\ UNCHANGED dlq /\ Fault
  /\ pc' = Set(pc, w, "dlqack")
  /\ UNCHANGED <<streamVars, db, dropped, conn, procVars, bufVars, flushVars,
                 ends>>

\* Ack: XACK removes the id from the PEL, whoever owns it; it may fail.
Ack(id) ==
  \/ pel' = pel \ {id} /\ idle' = idle \ {id} /\ NoFault
  \/ UNCHANGED <<pel, idle>> /\ Fault

AckDlqed(w) ==
  /\ pc[w] = "dlqack"
  /\ Ack(Head(todo[w]))
  /\ NextEntry(w)
  /\ UNCHANGED <<last, stream, group, delivered, stores, conn, procVars,
                 bufVars, attempt, ackIds, ends>>

\* ack_on_error without a DLQ: the event is given up on purpose.
AckDropped(w) ==
  /\ pc[w] = "drop"
  /\ Ack(Head(todo[w]))
  /\ dropped' = dropped \union ({Head(todo[w])} \ pel')
  /\ NextEntry(w)
  /\ UNCHANGED <<last, stream, group, delivered, db, dlq, conn, procVars,
                 bufVars, attempt, ackIds, ends>>

\* tx.commit() returns.
Commit(w) ==
  /\ pc[w] = "commit"
  /\ db' = db \union SeqRange(ackIds[w])
  /\ IF ackIds[w] = <<>>
     THEN EndFlush(w)
     ELSE /\ pc' = Set(pc, w, "ack")
          /\ UNCHANGED <<buf, flushVars>>
  /\ UNCHANGED <<streamVars, dlq, dropped, conn, procVars, incoming, next,
                 bounds>>

\* (mutant) the exception of a failed commit is swallowed
TxThrowsUnseen(w) ==
  /\ pc[w] = "commit" /\ ackIds[w] # <<>>
  /\ Fault
  /\ pc' = Set(pc, w, "ack")
  /\ UNCHANGED <<streamVars, stores, conn, procVars, bufVars, flushVars,
                 ends>>
\* A statement or the commit throws.  A broken connection is closed (reset);
\* a commit whose answer was lost may have taken effect.
TxThrows(w) ==
  /\ pc[w] \in {"entry", "commit"}
  /\ Fault
  /\ \/ conn' = Set(conn, w, FALSE) /\ UNCHANGED db
     \/ pc[w] = "commit" /\ UNCHANGED <<conn, db>>
     \/ /\ pc[w] = "commit"
        /\ conn' = Set(conn, w, FALSE)
        /\ db' = db \union SeqRange(ackIds[w])
  /\ EndAttempt(w)
  /\ UNCHANGED <<streamVars, dlq, dropped, procVars, incoming, next, ends>>

\* The Acks that follow a successful commit.
AckCommitted(w) ==
  /\ pc[w] = "ack"
  /\ Ack(Head(ackIds[w]))
  /\ IF Len(ackIds[w]) = 1
     THEN EndFlush(w)
     ELSE /\ ackIds' = Set(ackIds, w, Tail(ackIds[w]))
          /\ UNCHANGED <<pc, buf, attempt, todo>>
  /\ UNCHANGED <<last, stream, group, delivered, stores, conn, procVars,
                 incoming, next, ends>>

-----------------------------------------------------------------------------
WorkerStep(w) ==
  \/ LoopStop(w) \/ LoopNoDb(w) \/ LoopReclaim(w) \/ LoopRead(w)
  \/ Reclaim(w) \/ ReclaimFails(w) \/ Read(w) \/ ReadFails(w)
  \/ BufferEntry(w) \/ TickFlush(w) \/ TickWait(w)
  \/ BeginAttempt(w) \/ AttemptNotReady(w)
  \/ InsertEntry(w) \/ RejectEntry(w) \/ SendToDlq(w) \/ AckDlqed(w)
  \/ AckDropped(w) \/ Commit(w) \/ TxThrows(w) \/ AckCommitted(w)

Next ==
  \/ Emit
  \/ \E id \in Ids : Age(id)
  \/ \E w \in Workers :
       Start(w) \/ RequestStop(w) \/ Crash(w) \/ WorkerStep(w)

Spec == Init /\ [][Next]_vars

\* A running process keeps running its loop; the two periodic branches come
\* due again and again while the loop turns; an entry nobody claims ages; a
\* worker that died or was stopped is started again by its operator.
Fairness ==
  /\ \A id \in Ids : WF_vars(Age(id))
  /\ \A w \in Workers : /\ WF_vars(Start(w))
                         /\ WF_vars(WorkerStep(w))
                         /\ SF_vars(LoopReclaim(w))
                         /\ SF_vars(TickFlush(w))
FairSpec == Spec /\ Fairness

-----------------------------------------------------------------------------
(* Properties. *)

InDlq(id) == \E i \in 1 .. Len(dlq) : dlq[i].orig = id
Stored(id) == id \in db \/ InDlq(id) \/ id \in dropped

StreamTyped ==
  /\ last \in 0 .. MaxEvents /\ stream \subseteq 1 .. last
  /\ group \in {NoGroup} \union (0 .. last) /\ delivered \in 0 .. last
  /\ pel \subseteq 1 .. delivered /\ idle \subseteq pel
StoresTyped ==
  /\ db \subseteq Ids /\ dropped \subseteq Ids
  /\ dlq \in Seq([orig : Ids, retry : Nat])
ControlTyped ==
  /\ pc \in [Workers -> Phases] /\ next \in [Workers -> {"read", "tick", "loop"}]
  /\ conn \in [Workers -> BOOLEAN] /\ stopReq \in [Workers -> BOOLEAN]
  /\ first \in [Workers -> BOOLEAN] /\ cursor \in [Workers -> 0 .. MaxEvents]
  /\ attempt \in [Workers -> 0 .. RetryMax]
ListsTyped ==
  /\ incoming \in [Workers -> Seq(Ids)] /\ buf \in [Workers -> Seq(Ids)]
  /\ todo \in [Workers -> Seq(Ids)] /\ ackIds \in [Workers -> Seq(Ids)]
BoundsTyped ==
  faults \in 0 .. MaxFaults /\ ends \in 0 .. MaxEnds

\* Every variable has its type: the group never delivers past the stream, only
\* delivered ids are pending, and Flush stays within its retry budget.
TypeOK ==
  StreamTyped /\ StoresTyped /\ ControlTyped /\ ListsTyped /\ BoundsTyped

\* An event the group was given is still pending, or it is in the database,
\* in the DLQ, given up as configured, or trimmed from the stream: no order
\* of crashes, lost replies, retries and reclaims by several workers makes
\* the acknowledgement run ahead of the copy (Flush, comments 2 and 3).
NoSilentLoss ==
  \A id \in 1 .. delivered :
    id > group => id \in pel \/ Stored(id) \/ id \notin stream

\* A batch never outgrows batch_max_events: every append checks the limit,
\* reclaimed and new entries alike, and Flush always empties the batch.
BatchBounded ==
  \A w \in Workers :
    /\ Len(buf[w]) <= BatchMax
    /\ pc[w] \notin InFlush => Len(buf[w]) < BatchMax

\* Without a DLQ and without ack_on_error a bad row stays pending and is
\* reclaimed for ever; the events beside it still reach the database, since
\* the savepoint isolates it in its batch and the reclaim cursor moves past it.
HealthyInDb ==
  group # NoGroup => \A id \in stream : id > group /\ id \notin Malformed => id \in db
HealthyReachDb == <>[]HealthyInDb

\* What the path promises its producer: see WbPromise.  An event is owed from
\* its XADD, or its group's creation, until it is acknowledged.
Owed == IF group = NoGroup THEN {}
        ELSE pel \union {i \in stream : i > delivered}
Accounted == {i \in 1 .. last : Stored(i) \/ i \notin stream}
Promise == INSTANCE WbPromise
             WITH Events <- Ids, owed <- Owed, accounted <- Accounted

\* The workers together implement the abstract delivery promise: a step
\* accepts an event, accounts for events, or forgets accounted ones.
PromiseKept == Promise!Spec
\* The same with the promise's liveness: no owed event is owed for ever.
PromiseFulfilled == Promise!FairSpec

\* docs/db/write-behind.md and wb_worker/README.md: on shutdown "the batch
\* already in the buffer is used up by a last flush".
DrainedOnStop == \A w \in Workers : pc[w] = "stopped" => buf[w] = <<>>

=============================================================================
