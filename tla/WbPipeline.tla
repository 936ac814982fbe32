----------------------------- MODULE WbPipeline -----------------------------
(***************************************************************************)
(* The whole write-behind pipeline: the workers of WbWorker and the        *)
(* replayer of DlqReplayer run side by side on one database and one dead   *)
(* letter queue.  A worker's SendToDlq is what DlqReplayer calls Arrive.   *)
(***************************************************************************)
EXTENDS WbWorker

CONSTANTS Unreplayable, RRetryMax, DlqBatch, RunOnce, MaxRejects, MaxRFaults, MaxRCrashes
VARIABLES dead, rgroup, rdelivered, rpel, rpc, rconn, batch, short, rejects, rfaults, rcrashes

R == INSTANCE DlqReplayer WITH Events <- Ids, MaxCopies <- 0

\* What only the workers and the server change, and what only the replayer.
workerOnly ==
  <<last, stream, group, delivered, pel, idle, dropped, pc, conn, stopReq,
    first, cursor, incoming, buf, next, attempt, todo, ackIds, faults,
    ends>>
replayerOnly ==
  <<dead, rgroup, rdelivered, rpel, rpc, rconn, batch, short, rejects,
    rfaults, rcrashes>>
pipeVars == <<workerOnly, db, dlq, replayerOnly>>

PipeInit == Init /\ R!RInit
WorkerSide == Next /\ UNCHANGED replayerOnly
ReplayerSide ==
  (R!RStart \/ R!RCrash \/ R!ReplayerStep) /\ UNCHANGED workerOnly
PipeNext == WorkerSide \/ ReplayerSide
PipeSpec == PipeInit /\ [][PipeNext]_pipeVars

\* The fairness of the two components.
PipeFairSpec ==
  /\ PipeSpec
  /\ \A id \in Ids : WF_pipeVars(Age(id) /\ UNCHANGED replayerOnly)
  /\ \A w \in Workers :
       /\ WF_pipeVars(Start(w) /\ UNCHANGED replayerOnly)
       /\ WF_pipeVars(WorkerStep(w) /\ UNCHANGED replayerOnly)
       /\ SF_pipeVars(LoopReclaim(w) /\ UNCHANGED replayerOnly)
       /\ SF_pipeVars(TickFlush(w) /\ UNCHANGED replayerOnly)
  /\ WF_pipeVars(R!RStart /\ UNCHANGED workerOnly)
  /\ WF_pipeVars(R!ReplayerStep /\ UNCHANGED workerOnly)

-----------------------------------------------------------------------------
\* An event the workers' group was given is pending there, or in the database,
\* in the dead stream, given up as configured, trimmed, or has an entry of
\* the DLQ that no replayer acknowledged: the hand-over from worker to
\* replayer leaves no gap, with any crash or lost reply on either side.
NothingFallsBetween ==
  \A id \in 1 .. delivered :
    id > group => \/ id \in pel \union db \union dead \union dropped
                  \/ id \notin stream
                  \/ R!LiveCopy(id)
                  \/ \E i \in 1 .. Len(dlq) : i <= rgroup /\ dlq[i].orig = id

\* As long as no call of the replayer itself is lost, the DLQ is drained and
\* every event comes to rest in the database or in the dead stream, or waits in
\* the part of the DLQ that was written before the replayer's group existed.
AtRest ==
  /\ rpel = {}
  /\ \A id \in stream : group # NoGroup /\ id > group =>
       \/ id \in db \union dead \union dropped
       \/ \E i \in 1 .. Len(dlq) : i <= rgroup /\ dlq[i].orig = id
PipelineSettles == <>[]AtRest

=============================================================================
