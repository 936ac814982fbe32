--------------------------- MODULE PipelineProofs ---------------------------
(***************************************************************************)
(* Worker and replayer together: the hand-over leaves no gap.              *)
(*                                                                         *)
(* Neither component's proof assumes that it is alone on the database and  *)
(* on the DLQ: Outside is what the replayer's invariant tolerates, and a   *)
(* step of a worker is one (WorkerOutside); StoresGrow is what the workers'*)
(* tolerates, and a step of the replayer is one (ReplayerGrows).  The      *)
(* invariant of the pipeline is the conjunction of the two.                *)
(***************************************************************************)
EXTENDS WbPipeline, WbWorkerSafety

RP == INSTANCE DlqReplayerProofs WITH Events <- Ids, MaxCopies <- 0

\* The configuration of the replayer.
ReplayerConfig ==
  /\ RRetryMax \in Nat /\ DlqBatch \in Nat \ {0} /\ RunOnce \in BOOLEAN
  /\ Unreplayable \subseteq Ids
  /\ MaxRejects \in Nat /\ MaxRFaults \in Nat /\ MaxRCrashes \in Nat

PipeInv == Typed /\ Safe /\ RP!RInv

-----------------------------------------------------------------------------
\* A worker only adds to the database, and to the DLQ what it gives up on.
LEMMA WorkerAdds ==
  ASSUME Typed, [Next]_vars
  PROVE  /\ db \subseteq db'
         /\ \/ dlq' = dlq
            \/ \E e \in Ids : dlq' = Append(dlq, [orig |-> e, retry |-> 0])
<1> DEFINE Adds == /\ db \subseteq db'
                   /\ \/ dlq' = dlq
                      \/ \E e \in Ids : dlq' = Append(dlq, [orig |-> e, retry |-> 0])
<1>1. CASE UNCHANGED stores
  BY <1>1 DEF stores
<1>2. CASE UNCHANGED vars \/ Emit \/ \E id \in Ids : Age(id)
  BY <1>1, <1>2 DEF vars, Emit, Age
<1>3. ASSUME NEW w \in Workers, Start(w) \/ RequestStop(w) \/ Crash(w) PROVE Adds
  BY <1>1, <1>3 DEF Start, RequestStop, Crash
<1>4. ASSUME NEW w \in Workers, WorkerStep(w) PROVE Adds
  <2>1. CASE SendToDlq(w)
    <3>1. Head(todo[w]) \in Ids
      BY <2>1, HeadTail DEF SendToDlq, Typed, TypeOK, ListsTyped, PhaseOK, PhaseOf
    <3> QED
      BY <2>1, <3>1 DEF SendToDlq
  <2>2. CASE Commit(w) \/ TxThrows(w)
    BY <2>2 DEF Commit, TxThrows
  <2>3. CASE AckDropped(w)
    BY <2>3 DEF AckDropped
  <2>4. CASE ~(SendToDlq(w) \/ Commit(w) \/ TxThrows(w) \/ AckDropped(w))
    <3>1. UNCHANGED stores
      BY <1>4, <2>4 DEF WorkerStep, LoopStop, LoopNoDb, LoopReclaim, LoopRead, LoopWithDb, Reclaim,
         ReclaimFails, Read, ReadFails, BufferEntry, TickFlush, TickWait, BeginAttempt,
         AttemptNotReady, InsertEntry, RejectEntry, AckDlqed, AckCommitted
    <3> QED
      BY <1>1, <3>1
  <2> QED
    BY <2>1, <2>2, <2>3, <2>4
<1> QED
  BY <1>2, <1>3, <1>4 DEF Next

\* The replayer tolerates the workers.
LEMMA WorkerOutside ==
  ASSUME Typed, [Next]_vars, UNCHANGED replayerOnly PROVE RP!Outside
<1>1. Typed'
  BY TypeStep
<1>2. db' \subseteq Ids
  BY <1>1 DEF Typed, TypeOK, StoresTyped
<1>3. UNCHANGED <<dead, RP!rgroupVars, rpc, rconn, batch, short, RP!rbounds>>
  BY DEF replayerOnly, RP!rgroupVars, RP!rbounds
<1> QED
  BY <1>2, <1>3, WorkerAdds DEF RP!Outside

\* The workers tolerate the replayer.
LEMMA ReplayerGrows ==
  ASSUME ReplayerConfig, Typed, Safe, RP!RInv,
         RP!RStart \/ RP!RCrash \/ RP!ReplayerStep, UNCHANGED workerOnly
  PROVE  Typed' /\ Safe' /\ RP!RInv'
<1>1. RP!RInv' /\ db \subseteq db' /\ RP!DlqGrows
  BY RP!ReplayerKeeps, RP!ReplayerAdds DEF ReplayerConfig
<1>2. RP!RTypeOK /\ RP!RTypeOK'
  BY <1>1 DEF RP!RInv, RP!RTyped
<1>3. /\ Len(dlq) <= Len(dlq') /\ Len(dlq) \in Nat /\ Len(dlq') \in Nat
      /\ \A i \in 1 .. Len(dlq) : dlq'[i] = dlq[i]
  BY <1>1, <1>2, RP!Added DEF ReplayerConfig
<1>4. Typed'
  <2> USE DEF Typed, TypeOK, workerOnly
  <2>1. StreamTyped' /\ BoundsTyped'
    BY DEF StreamTyped, BoundsTyped
  <2>2. ControlTyped' /\ ListsTyped'
    BY DEF ControlTyped, ListsTyped
  <2>3. StoresTyped'
    BY <1>2 DEF StoresTyped, RP!RTypeOK
  <2>4. PhaseOK'
    BY DEF PhaseOK, PhaseOf
  <2> QED
    BY <2>1, <2>2, <2>3, <2>4
<1>5. StoresGrow
  <2>1. \A id \in Ids : InDlq(id) => InDlq(id)'
    BY <1>3 DEF InDlq
  <2> QED
    BY <1>1, <2>1 DEF StoresGrow, Stored, workerOnly
<1>6. NoSilentLoss'
  <2>1. LeavesStored
    BY DEF LeavesStored, workerOnly
  <2> QED
    BY <1>5, <2>1, KeepsNoLoss DEF workerOnly
<1>7. ASSUME NEW w \in Workers PROVE HoldsOf(w)'
  <2>1. OthersKept(w)
    BY DEF OthersKept, workerOnly
  <2>2. pc[w] = "ack" => \A i \in 1 .. Len(ackIds[w]) : ackIds[w][i] \in db'
    BY <1>1 DEF Safe, HoldsOf
  <2>3. pc[w] = "dlqack" => Head(todo[w]) \in Ids
    BY HeadTail DEF Typed, TypeOK, ListsTyped, PhaseOK, PhaseOf
  <2>4. pc[w] = "dlqack" => InDlq(Head(todo[w]))'
    BY <1>3 DEF Safe, HoldsOf, InDlq, workerOnly
  <2> QED
    BY <2>2, <2>4 DEF HoldsOf, InDlq, workerOnly
<1> QED
  BY <1>1, <1>4, <1>6, <1>7 DEF Safe

\* A step of the replayer, as WbPipeline names it and as the proofs about the
\* replayer do.
LEMMA SameReplayer ==
  R!RStart \/ R!RCrash \/ R!ReplayerStep <=> RP!RStart \/ RP!RCrash \/ RP!ReplayerStep
<1>1. R!RStart <=> RP!RStart
  BY DEF R!RStart, RP!RStart, R!RFault, RP!RFault, R!NoGroup, RP!NoGroup, R!rbounds, RP!rbounds
<1>2. R!RCrash <=> RP!RCrash
  BY DEF R!RCrash, RP!RCrash, R!rgroupVars, RP!rgroupVars
<1>3. R!RConnect <=> RP!RConnect
  BY DEF R!RConnect, RP!RConnect, R!RFault, RP!RFault, R!rgroupVars, RP!rgroupVars,
         R!rbounds, RP!rbounds
<1>4. R!RRead <=> RP!RRead
  BY DEF R!RRead, RP!RRead, R!RDeliver, RP!RDeliver, R!Unread, RP!Unread,
         R!Smaller, RP!Smaller, R!NoGroup, RP!NoGroup, R!rbounds, RP!rbounds
<1>5. R!RReadFails <=> RP!RReadFails
  BY DEF R!RReadFails, RP!RReadFails, R!RFault, RP!RFault, R!RDeliver, RP!RDeliver,
         R!Unread, RP!Unread, R!Smaller, RP!Smaller, R!NoGroup, RP!NoGroup,
         R!rbounds, RP!rbounds
<1>6. R!InsertOk <=> RP!InsertOk
  BY DEF R!InsertOk, RP!InsertOk, R!Cur, RP!Cur, R!rgroupVars, RP!rgroupVars,
         R!rbounds, RP!rbounds
<1>7. R!InsertBroken <=> RP!InsertBroken
  BY DEF R!InsertBroken, RP!InsertBroken, R!RFault, RP!RFault, R!EntryDone, RP!EntryDone,
         R!rgroupVars, RP!rgroupVars
<1>8. R!InsertFails <=> RP!InsertFails
  BY DEF R!InsertFails, RP!InsertFails, R!Cur, RP!Cur, R!RReject, RP!RReject,
         R!HandleFailure, RP!HandleFailure, R!rgroupVars, RP!rgroupVars, R!rbounds, RP!rbounds
<1>9. R!MoveToDeadStream <=> RP!MoveToDeadStream
  BY DEF R!MoveToDeadStream, RP!MoveToDeadStream, R!Cur, RP!Cur, R!RFault, RP!RFault,
         R!EntryDone, RP!EntryDone, R!rgroupVars, RP!rgroupVars, R!rbounds, RP!rbounds
<1>10. R!RetryLater <=> RP!RetryLater
  BY DEF R!RetryLater, RP!RetryLater, R!Cur, RP!Cur, R!RFault, RP!RFault,
         R!EntryDone, RP!EntryDone, R!rgroupVars, RP!rgroupVars, R!rbounds, RP!rbounds
<1>11. R!AckEntry <=> RP!AckEntry
  BY DEF R!AckEntry, RP!AckEntry, R!RFault, RP!RFault, R!EntryDone, RP!EntryDone,
         R!rbounds, RP!rbounds
<1> QED
  BY <1>1, <1>2, <1>3, <1>4, <1>5, <1>6, <1>7, <1>8, <1>9, <1>10, <1>11
     DEF R!ReplayerStep, RP!ReplayerStep

\* The invariant of the pipeline is inductive.
LEMMA PipeStep ==
  ASSUME ~DlqXaddMayFail, ReplayerConfig, PipeInv, [PipeNext]_pipeVars PROVE PipeInv'
<1>1. CASE [Next]_vars /\ UNCHANGED replayerOnly
  <2>1. Typed' /\ Safe'
    BY <1>1, TypeStep, SafeStep DEF PipeInv
  <2>2. RP!RInv'
    BY <1>1, WorkerOutside, RP!OutsideKeeps DEF PipeInv, ReplayerConfig
  <2> QED
    BY <2>1, <2>2 DEF PipeInv
<1>2. CASE ReplayerSide
  BY <1>2, ReplayerGrows, SameReplayer DEF ReplayerSide, PipeInv
<1>3. CASE UNCHANGED pipeVars
  <2>1. UNCHANGED vars /\ UNCHANGED replayerOnly
    BY <1>3 DEF pipeVars, workerOnly, replayerOnly, vars, streamVars, stores, procVars, bufVars,
                flushVars, bounds
  <2> QED
    BY <1>1, <2>1
<1> QED
  BY <1>1, <1>2, <1>3 DEF PipeNext, WorkerSide

\* The pipeline's invariant says that nothing falls between its parts.
LEMMA PipeSafe == ASSUME PipeInv PROVE NothingFallsBetween
<1> SUFFICES ASSUME NEW id \in 1 .. delivered, id > group, id \notin pel, id \in stream,
                    id \notin db, id \notin dropped
             PROVE  \/ id \in dead
                    \/ R!LiveCopy(id)
                    \/ \E i \in 1 .. Len(dlq) : i <= rgroup /\ dlq[i].orig = id
  BY DEF NothingFallsBetween
<1>1. PICK i \in 1 .. Len(dlq) : dlq[i].orig = id
  BY DEF PipeInv, Safe, NoSilentLoss, Stored, InDlq
<1>2. CASE i <= rgroup
  BY <1>1, <1>2
<1>3. CASE i > rgroup
  BY <1>1, <1>3 DEF PipeInv, RP!RInv, RP!RSafe, RP!ReplayKeepsEvery, RP!LiveCopy, R!LiveCopy
<1>4. rgroup \in Int /\ i \in Int
  BY DEF PipeInv, RP!RInv, RP!RTyped, RP!RTypeOK, RP!NoGroup
<1> QED
  BY <1>2, <1>3, <1>4

\* An event the workers' group was given is pending, in the database, in the
\* dead stream, given up as configured, trimmed, or in an entry of the DLQ
\* that is still to be replayed or that was there before the replayer's group:
\* no crash and no lost reply on either side of SendToDlq loses it.
THEOREM PipelineLosesNothing ==
  ASSUME ~DlqXaddMayFail, ReplayerConfig PROVE PipeSpec => []NothingFallsBetween
<1>1. PipeInit => PipeInv
  <2>1. R!RInit => RP!RInit
    BY DEF R!RInit, RP!RInit, R!NoGroup, RP!NoGroup
  <2> QED
    BY <2>1, TypeInit, SafeInit, RP!InitInv DEF PipeInit, PipeInv, ReplayerConfig
<1>2. PipeSpec => []PipeInv
  BY <1>1, PipeStep, PTL DEF PipeSpec
<1> QED
  BY <1>2, PipeSafe, PTL
=============================================================================
