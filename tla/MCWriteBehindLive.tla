------------------------- MODULE MCWriteBehindLive -------------------------
(***************************************************************************)
(* What the write-behind path must do in the end, under three loads, each  *)
(* on its own: a worker with a DLQ that fails, stops and crashes; a worker *)
(* with neither a DLQ nor ack_on_error and a row the database never takes; *)
(* and worker and replayer together.  part names the load; a replayer that *)
(* does not run keeps its initial state.                                   *)
(***************************************************************************)
EXTENDS Integers, Sequences, FiniteSets

CONSTANTS Workers

VARIABLES
  part,
  last, stream, group, delivered, pel, idle, db, dlq, dropped, pc, conn, stopReq, first, cursor,
  incoming, buf, next, attempt, todo, ackIds, faults, ends,
  dead, rgroup, rdelivered, rpel, rpc, rconn, batch, short, rejects, rfaults, rcrashes

workerOnly ==
  <<last, stream, group, delivered, pel, idle, dropped, pc, conn, stopReq, first, cursor, incoming,
    buf, next, attempt, todo, ackIds, faults, ends>>
replayerOnly ==
  <<dead, rgroup, rdelivered, rpel, rpc, rconn, batch, short, rejects, rfaults, rcrashes>>
vars == <<part, workerOnly, db, dlq, replayerOnly>>

\* Two events, the second one malformed.
Live == INSTANCE WbWorker
          WITH MaxEvents <- 2, Malformed <- {2}, BatchMax <- 2, RetryMax <- 1,
               ReclaimEnabled <- TRUE, ReclaimCount <- 2, DlqOnError <- Workers,
               AckOnError <- Workers, StreamMaxLen <- 0, DlqXaddMayFail <- FALSE,
               MaxFaults <- 2, MaxEnds <- 1

\* Three events, the first one malformed; the reclaim takes one at a time.
Poison == INSTANCE WbWorker
            WITH MaxEvents <- 3, Malformed <- {1}, BatchMax <- 2, RetryMax <- 1,
                 ReclaimEnabled <- TRUE, ReclaimCount <- 1, DlqOnError <- {},
                 AckOnError <- {}, StreamMaxLen <- 0, DlqXaddMayFail <- FALSE, MaxFaults <- 1,
                 MaxEnds <- 1

\* Two events, the second one malformed and not replayable; --once.
Pipe == INSTANCE WbPipeline
          WITH MaxEvents <- 2, Malformed <- {2}, BatchMax <- 2, RetryMax <- 1,
               ReclaimEnabled <- TRUE, ReclaimCount <- 2, DlqOnError <- Workers,
               AckOnError <- Workers, StreamMaxLen <- 0, DlqXaddMayFail <- FALSE,
               MaxFaults <- 1, MaxEnds <- 0,
               Unreplayable <- {2}, RRetryMax <- 2, DlqBatch <- 2, RunOnce <- TRUE,
               MaxRejects <- 1, MaxRFaults <- 0, MaxRCrashes <- 0

Init == part \in {"live", "poison", "pipe"} /\ Pipe!PipeInit

\* A step of the worker's side under the load that runs; a step of the
\* replayer.
Worker(live, poison, pipe) ==
  /\ \/ part = "live" /\ live
     \/ part = "poison" /\ poison
     \/ part = "pipe" /\ pipe
  /\ UNCHANGED <<part, replayerOnly>>
Replayer(A) == part = "pipe" /\ A /\ UNCHANGED <<part, workerOnly>>

Next ==
  \/ Worker(Live!Next, Poison!Next, Pipe!Next)
  \/ Replayer(Pipe!R!RStart \/ Pipe!R!RCrash \/ Pipe!R!ReplayerStep)

\* The fairness of WbPipeline's components.
Fairness ==
  /\ \A id \in 1 .. 3 :
       WF_vars(Worker(id <= 2 /\ Live!Age(id), Poison!Age(id), id <= 2 /\ Pipe!Age(id)))
  /\ \A w \in Workers :
       /\ WF_vars(Worker(Live!Start(w), Poison!Start(w), Pipe!Start(w)))
       /\ WF_vars(Worker(Live!WorkerStep(w), Poison!WorkerStep(w), Pipe!WorkerStep(w)))
       /\ SF_vars(Worker(Live!LoopReclaim(w), Poison!LoopReclaim(w), Pipe!LoopReclaim(w)))
       /\ SF_vars(Worker(Live!TickFlush(w), Poison!TickFlush(w), Pipe!TickFlush(w)))
  /\ WF_vars(Replayer(Pipe!R!RStart)) /\ WF_vars(Replayer(Pipe!R!ReplayerStep))

FairSpec == Init /\ [][Next]_vars /\ Fairness

----------------------------------------------------------------------------

\* WbWorker: the workers implement the delivery promise, its liveness included.
Promise == INSTANCE WbPromise
             WITH Events <- 1 .. 2, owed <- IF part = "live" THEN Live!Owed ELSE {},
                  accounted <- IF part = "live" THEN Live!Accounted ELSE {}
PromiseFulfilled == Promise!FairSpec

\* WbWorker: the events beside a bad row reach the database.
HealthyReachDb == <>[](part = "poison" => Poison!HealthyInDb)

\* WbPipeline: the DLQ is drained and every event comes to rest.
PipelineSettles == <>[](part = "pipe" => Pipe!AtRest)
============================================================================
