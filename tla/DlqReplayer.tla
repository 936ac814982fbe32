----------------------------- MODULE DlqReplayer ----------------------------
(***************************************************************************)
(* wb_dlq_replayer: reads the dead letter queue (DLQ) through a consumer   *)
(* group, tries to insert each event again, puts a failed one back with a  *)
(* higher retry_count and moves it to the dead stream once the budget is   *)
(* spent.  DLQ ids are the positions of `dlq`.  A step is what the process *)
(* does between two calls to Redis or Postgres.                            *)
(***************************************************************************)
EXTENDS Integers, Sequences, FiniteSets

CONSTANTS
  Events,         \* the events that can reach the DLQ
  Unreplayable,   \* the events whose row TryInsertToDb's INSERT rejects
  RRetryMax,      \* WB_RETRY_MAX
  DlqBatch,       \* WB_DLQ_BATCH
  RunOnce,        \* --once
  MaxCopies,      \* bound: entries of the DLQ
  MaxRejects,     \* bound: statements that fail for a healthy row
  MaxRFaults,     \* bound: broken connections and failed Redis calls
  MaxRCrashes     \* bound: crashes of the replayer

ASSUME ReplayerCounts ==
  /\ RRetryMax \in Nat /\ DlqBatch \in Nat \ {0} /\ MaxCopies \in Nat
  /\ MaxRejects \in Nat /\ MaxRFaults \in Nat /\ MaxRCrashes \in Nat
ASSUME ReplayerFlags == RunOnce \in BOOLEAN /\ Unreplayable \subseteq Events

VARIABLES
  db,             \* the event_ids committed to session_events
  dlq,            \* the DLQ stream: [orig, retry]
  dead,           \* the events of the dead stream
  rgroup,         \* the DLQ position the group was created at, or NoGroup
  rdelivered,     \* the group's last-delivered position
  rpel,           \* the delivered positions that are not acknowledged
  rpc,            \* where the replayer is
  rconn,          \* db_ is open
  batch,          \* the entries of the last reply that are still to do
  short,          \* the reply held fewer than DlqBatch entries
  rejects, rfaults, rcrashes

rbounds == <<rejects, rfaults, rcrashes>>
rgroupVars == <<rgroup, rdelivered, rpel>>
rvars == <<db, dlq, dead, rgroupVars, rpc, rconn, batch, short, rbounds>>

NoGroup == -1
RPhases == {"down", "loop", "read", "entry", "retry", "dead", "ack"}

RFault  == rfaults < MaxRFaults /\ rfaults' = rfaults + 1
                                /\ UNCHANGED <<rejects, rcrashes>>
RReject == rejects < MaxRejects /\ rejects' = rejects + 1
                                /\ UNCHANGED <<rfaults, rcrashes>>
Cur == dlq[Head(batch)]

RInit ==
  /\ db = {} /\ dlq = <<>> /\ dead = {}
  /\ rgroup = NoGroup /\ rdelivered = 0 /\ rpel = {}
  /\ rpc = "down" /\ rconn = FALSE /\ batch = <<>> /\ short = FALSE
  /\ rejects = 0 /\ rfaults = 0 /\ rcrashes = 0

-----------------------------------------------------------------------------
\* wb_worker's SendToDlq, as the replayer sees it.
Arrive(e) ==
  /\ Len(dlq) < MaxCopies
  /\ dlq' = Append(dlq, [orig |-> e, retry |-> 0])
  /\ UNCHANGED <<db, dead, rgroupVars, rpc, rconn, batch, short, rbounds>>

\* Run: XGROUP CREATE at "$", its result ignored, then a connection attempt.
RStart ==
  /\ rpc = "down"
  /\ \E created \in BOOLEAN :
       /\ IF created /\ rgroup = NoGroup
          THEN rgroup' = Len(dlq) /\ rdelivered' = Len(dlq)
          ELSE UNCHANGED <<rgroup, rdelivered>>
       /\ rconn' \in BOOLEAN
       /\ IF created /\ rconn' THEN UNCHANGED rbounds ELSE RFault
  /\ rpc' = "loop"
  /\ UNCHANGED <<db, dlq, dead, rpel, batch, short>>

RCrash ==
  /\ rpc # "down" /\ rcrashes < MaxRCrashes
  /\ rcrashes' = rcrashes + 1
  /\ rpc' = "down" /\ rconn' = FALSE /\ batch' = <<>> /\ short' = FALSE
  /\ UNCHANGED <<db, dlq, dead, rgroupVars, rejects, rfaults>>

\* The head of Loop: EnsureDbConnection.
RConnect ==
  /\ rpc = "loop"
  /\ \/ rconn' = TRUE /\ rpc' = "read" /\ UNCHANGED rbounds
     \/ ~rconn /\ RFault /\ UNCHANGED <<rconn, rpc>>
  /\ UNCHANGED <<db, dlq, dead, rgroupVars, batch, short>>

Smaller(a, b) == IF a <= b THEN a ELSE b
\* XREADGROUP ">" delivers up to DlqBatch positions after the last one.
RDeliver(n) ==
  /\ rdelivered' = rdelivered + n
  /\ rpel' = rpel \union (rdelivered + 1 .. rdelivered + n)
Unread == Smaller(DlqBatch, Len(dlq) - rdelivered)

\* An empty reply ends --once.
RRead ==
  /\ rpc = "read" /\ rgroup # NoGroup
  /\ RDeliver(Unread)
  /\ batch' = [i \in 1 .. Unread |-> rdelivered + i]
  /\ short' = (Unread < DlqBatch)
  /\ rpc' = IF Unread > 0 THEN "entry" ELSE IF RunOnce THEN "down" ELSE "loop"
  /\ UNCHANGED <<db, dlq, dead, rgroup, rconn, rbounds>>

\* xreadgroup returns false, before or after Redis ran it, or without a group.
RReadFails ==
  /\ rpc = "read"
  /\ \/ rgroup # NoGroup /\ RFault /\ RDeliver(Unread)
     \/ RFault /\ UNCHANGED <<rdelivered, rpel>>
     \/ rgroup = NoGroup /\ UNCHANGED <<rdelivered, rpel, rbounds>>
  /\ rpc' = IF RunOnce THEN "down" ELSE "loop"
  /\ UNCHANGED <<db, dlq, dead, rgroup, rconn, batch, short>>

\* ProcessEntry returned: on to the next entry, or the end of the batch,
\* where --once stops after a short reply.
EntryDone ==
  /\ batch' = Tail(batch)
  /\ rpc' = IF Len(batch) > 1 THEN "entry"
            ELSE IF RunOnce /\ short THEN "down" ELSE "loop"

-----------------------------------------------------------------------------
(* ProcessEntry. *)

\* TryInsertToDb commits (ON CONFLICT DO NOTHING).
InsertOk ==
  /\ rpc = "entry" /\ rconn /\ Cur.orig \notin Unreplayable
  /\ db' = db \union {Cur.orig}
  /\ rpc' = "ack"
  /\ UNCHANGED <<dlq, dead, rgroupVars, rconn, batch, short, rbounds>>

\* broken_connection: no ACK; the next entry finds no connection.
InsertBroken ==
  /\ rpc = "entry" /\ rconn /\ RFault
  /\ rconn' = FALSE
  /\ EntryDone
  /\ UNCHANGED <<db, dlq, dead, rgroupVars, short>>

\* (mutant) the count is compared before it is raised
HandleFailureLate ==
  rpc' = IF Cur.retry >= RRetryMax THEN "dead" ELSE "retry"
\* The last budgeted attempt goes to the dead stream, an earlier one back.
HandleFailure ==
  rpc' = IF Cur.retry + 1 >= RRetryMax THEN "dead" ELSE "retry"

\* Any other exception: no connection, a bad row, a statement that failed
\* this time, or a commit in doubt that may have happened.
InsertFails ==
  /\ rpc = "entry"
  /\ \/ ~rconn /\ UNCHANGED <<rconn, db, rbounds>>
     \/ rconn /\ Cur.orig \in Unreplayable /\ UNCHANGED <<rconn, db, rbounds>>
     \/ rconn /\ RReject /\ UNCHANGED <<rconn, db>>
     \/ /\ rconn /\ Cur.orig \notin Unreplayable /\ RReject
        /\ rconn' = FALSE
        /\ db' = db \union {Cur.orig}
  /\ HandleFailure
  /\ UNCHANGED <<dlq, dead, rgroupVars, batch, short>>

\* (mutant) the moved entry is not acknowledged
MoveToDeadStreamUnacked ==
  /\ rpc = "dead"
  /\ dead' = dead \union {Cur.orig} /\ EntryDone
  /\ UNCHANGED <<db, dlq, rgroupVars, rconn, short, rbounds>>
\* MoveToDeadStream and RetryLater: the ACK follows only a successful XADD.
MoveToDeadStream ==
  /\ rpc = "dead"
  /\ \/ dead' = dead \union {Cur.orig} /\ rpc' = "ack"
        /\ UNCHANGED <<batch, rbounds>>
     \/ UNCHANGED dead /\ RFault /\ EntryDone
  /\ UNCHANGED <<db, dlq, rgroupVars, rconn, short>>

\* (mutant) the ACK does not look at the result of the XADD
RetryLaterAcksAnyway ==
  /\ rpc = "retry" /\ rpc' = "ack"
  /\ \/ /\ dlq' = Append(dlq, [orig |-> Cur.orig, retry |-> Cur.retry + 1])
        /\ UNCHANGED rbounds
     \/ UNCHANGED dlq /\ RFault
  /\ UNCHANGED <<db, dead, rgroupVars, rconn, batch, short>>
RetryLater ==
  /\ rpc = "retry"
  /\ \/ /\ dlq' = Append(dlq, [orig |-> Cur.orig, retry |-> Cur.retry + 1])
        /\ rpc' = "ack"
        /\ UNCHANGED <<batch, rbounds>>
     \/ UNCHANGED dlq /\ RFault /\ EntryDone
  /\ UNCHANGED <<db, dead, rgroupVars, rconn, short>>

\* redis_->xack of the entry; its failure is ignored.
AckEntry ==
  /\ rpc = "ack"
  /\ \/ rpel' = rpel \ {Head(batch)} /\ UNCHANGED rbounds
     \/ UNCHANGED rpel /\ RFault
  /\ EntryDone
  /\ UNCHANGED <<db, dlq, dead, rgroup, rdelivered, rconn, short>>

ReplayerStep ==
  \/ RConnect \/ RRead \/ RReadFails \/ InsertOk \/ InsertBroken
  \/ InsertFails \/ MoveToDeadStream \/ RetryLater
  \/ AckEntry

RNext == (\E e \in Events : Arrive(e)) \/ RStart \/ RCrash \/ ReplayerStep
RSpec == RInit /\ [][RNext]_rvars

\* The process keeps running; a replayer that ended is started again (a cron
\* job with --once, an operator otherwise).
RFairSpec == RSpec /\ WF_rvars(ReplayerStep) /\ WF_rvars(RStart)

-----------------------------------------------------------------------------
(* Properties. *)

\* Every variable has its type: the group never delivers past the end of the
\* DLQ, and only delivered positions are pending or in the batch.
RTypeOK ==
  /\ db \subseteq Events /\ dead \subseteq Events
  /\ dlq \in Seq([orig : Events, retry : Nat])
  /\ rgroup \in {NoGroup} \union (0 .. Len(dlq)) /\ rdelivered \in 0 .. Len(dlq)
  /\ rpel \subseteq 1 .. rdelivered
  /\ rpc \in RPhases /\ rconn \in BOOLEAN /\ short \in BOOLEAN
  /\ batch \in Seq(1 .. rdelivered)
  /\ rejects \in 0 .. MaxRejects /\ rfaults \in 0 .. MaxRFaults
  /\ rcrashes \in 0 .. MaxRCrashes

\* A copy of e in the DLQ that some replayer still has to deal with.
LiveCopy(e) ==
  \E i \in 1 .. Len(dlq) : dlq[i].orig = e /\ (i > rdelivered \/ i \in rpel)

\* An event of the DLQ is in the database, in the dead stream, or has a copy
\* that is not acknowledged: re-adding and moving come before the ACK, so no
\* crash and no lost reply between the calls loses the event.
ReplayKeepsEvery ==
  \A i \in 1 .. Len(dlq) :
    i > rgroup => \/ dlq[i].orig \in db \union dead
                  \/ LiveCopy(dlq[i].orig)

\* The retry count of an entry stays below the budget (HandleFailure compares
\* retry_count + 1, so the entry with the budget's last count is never put
\* back), however often copies of one event meet.
RetryBounded ==
  \A i \in 1 .. Len(dlq) : dlq[i].retry = 0 \/ dlq[i].retry < RRetryMax

\* wb_dlq_replayer/main.cpp:207: an entry left without ACK is "subject to
\* reprocessing".
UnackedIsReprocessed ==
  \A i \in 1 .. MaxCopies : i \in rpel ~> i \notin rpel

\* wb_dlq_replayer/main.cpp:202-205: after a broken connection the next turn
\* of the loop reconnects; so no entry should be charged a retry, or be moved
\* to the dead stream, without an attempt on an open connection.
ChargedOnlyWhenTried ==
  [][rpc = "entry" /\ rpc' \in {"retry", "dead"} => rconn]_rvars

\* docs/ops/dlq-retry.md:29: the replayer "reads the oldest entry of the DLQ".
OldestIsRead ==
  \A i \in 1 .. rdelivered : \/ dlq[i].orig \in db \union dead
                             \/ LiveCopy(dlq[i].orig)

=============================================================================
