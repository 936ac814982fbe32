--------------------------- MODULE MCWriteBehind ---------------------------
(***************************************************************************)
(* The write-behind path under three loads, each on its own: a worker that *)
(* drops what the database rejects while the stream is trimmed, the        *)
(* replayer with whatever may reach the DLQ, and worker and replayer       *)
(* together.  part names the load.  The part that does not run keeps its   *)
(* initial state, which is that of WbPipeline in all three.                *)
(***************************************************************************)
EXTENDS DlqReplayer

CONSTANTS Workers

VARIABLES
  part,
  last, stream, group, delivered, pel, idle, dropped, pc, conn, stopReq, first, cursor, incoming,
  buf, next, attempt, todo, ackIds, faults, ends

workerOnly ==
  <<last, stream, group, delivered, pel, idle, dropped, pc, conn, stopReq, first, cursor, incoming,
    buf, next, attempt, todo, ackIds, faults, ends>>
replayerOnly ==
  <<dead, rgroup, rdelivered, rpel, rpc, rconn, batch, short, rejects, rfaults, rcrashes>>

\* Three events, the second one malformed; the stream keeps one.
Trim == INSTANCE WbWorker
          WITH MaxEvents <- 3, Malformed <- {2}, BatchMax <- 2, RetryMax <- 1,
               ReclaimEnabled <- TRUE, ReclaimCount <- 1, DlqOnError <- {}, AckOnError <- Workers,
               StreamMaxLen <- 1, DlqXaddMayFail <- FALSE, MaxFaults <- 2, MaxEnds <- 1

\* Two events, the second one malformed and not replayable either.
Pipe == INSTANCE WbPipeline
          WITH MaxEvents <- 2, Malformed <- {2}, BatchMax <- 2, RetryMax <- 1,
               ReclaimEnabled <- TRUE, ReclaimCount <- 2, DlqOnError <- Workers,
               AckOnError <- Workers, StreamMaxLen <- 0, DlqXaddMayFail <- FALSE, MaxFaults <- 1,
               MaxEnds <- 0, MaxRejects <- 0, MaxRFaults <- 1

Init == part \in {"trim", "replay", "pipe"} /\ Pipe!PipeInit

TrimNext == part = "trim" /\ Trim!Next /\ UNCHANGED <<part, replayerOnly>>
ReplayNext == part = "replay" /\ RNext /\ UNCHANGED <<part, workerOnly>>
PipeNext == part = "pipe" /\ Pipe!PipeNext /\ UNCHANGED part

Spec == Init /\ [][TrimNext \/ ReplayNext \/ PipeNext]_<<part, workerOnly, db, dlq, replayerOnly>>

----------------------------------------------------------------------------

\* WbWorker: what a trimmed stream still holds is not lost.
NoSilentLoss == part = "trim" => Trim!NoSilentLoss

\* WbPipeline: the hand-over from worker to replayer leaves no gap.
NothingFallsBetween == part = "pipe" => Pipe!NothingFallsBetween
============================================================================
