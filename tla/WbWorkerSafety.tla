--------------------------- MODULE WbWorkerSafety ---------------------------
(***************************************************************************)
(* No event is lost silently: the proof that NoSilentLoss holds of WbWorker*)
(* whenever Redis accepts the writes to the dead letter queue.             *)
(*                                                                         *)
(* NoSilentLoss is not inductive: it says nothing of the ids a worker is   *)
(* about to acknowledge.  HoldsOf adds that: what a worker acknowledges    *)
(* after a commit is in the database, and what it acknowledges after       *)
(* SendToDlq is in the dead letter queue.                                  *)
(***************************************************************************)
EXTENDS WbWorkerProofs

HoldsOf(w) ==
  /\ pc[w] = "ack" => \A i \in 1 .. Len(ackIds[w]) : ackIds[w][i] \in db
  /\ pc[w] = "dlqack" => InDlq(Head(todo[w]))
Safe == NoSilentLoss /\ \A w \in Workers : HoldsOf(w)

\* Stores only grow.
StoresGrow ==
  /\ \A id \in Ids : Stored(id) => Stored(id)'
  /\ \A id \in Ids : InDlq(id) => InDlq(id)'
  /\ db \subseteq db'
\* What a step of w leaves alone in the other workers.
OthersKept(w) ==
  \A x \in Workers :
    x # w => pc'[x] = pc[x] /\ ackIds'[x] = ackIds[x] /\ todo'[x] = todo[x]
\* What leaves the PEL is stored, or was trimmed from the stream.
LeavesStored ==
  \A id \in pel : id \in pel' \/ Stored(id)' \/ id \notin stream
\* The step stores events, acknowledges stored ones, or does neither.
Settles ==
  /\ StoresGrow /\ LeavesStored /\ pel' \subseteq pel
  /\ UNCHANGED <<last, stream, group, delivered>>

-----------------------------------------------------------------------------
\* The leaves are Zenon's, but for those that name another prover.
USE Zenon

\* A step of w that only adds to the stores keeps what the others rely on.
LEMMA OthersHold ==
  ASSUME Typed, Safe, NEW w \in Workers, StoresGrow, OthersKept(w), HoldsOf(w)'
  PROVE  \A x \in Workers : HoldsOf(x)'
<1> SUFFICES ASSUME NEW x \in Workers, x # w PROVE HoldsOf(x)'
  OBVIOUS
<1>1. pc'[x] = pc[x] /\ ackIds'[x] = ackIds[x] /\ todo'[x] = todo[x]
  BY DEF OthersKept
<1>2. pc'[x] = "ack" => \A i \in 1 .. Len(ackIds'[x]) : ackIds'[x][i] \in db'
  BY <1>1 DEF Safe, HoldsOf, StoresGrow
<1>3. pc'[x] = "dlqack" => InDlq(Head(todo[x]))'
  <2> SUFFICES ASSUME pc[x] = "dlqack" PROVE InDlq(Head(todo[x]))'
    BY <1>1
  <2>1. InDlq(Head(todo[x])) /\ Head(todo[x]) \in Ids
    BY HeadTail DEF Safe, HoldsOf, Typed, TypeOK, ListsTyped, PhaseOK, PhaseOf
  <2> QED
    BY <2>1, <1>1 DEF StoresGrow, InDlq
<1> QED
  BY <1>2, <1>3 DEF HoldsOf

\* A step that only adds to the stores and takes only stored ids from the PEL
\* loses nothing.
LEMMA KeepsNoLoss ==
  ASSUME Typed, Safe, StoresGrow, LeavesStored,
         stream' = stream, delivered' = delivered, group' = group
  PROVE  NoSilentLoss'
<1> SUFFICES ASSUME NEW id \in 1 .. delivered, id > group
             PROVE  id \in pel' \/ Stored(id)' \/ id \notin stream
  BY DEF NoSilentLoss
<1>1. id \in Ids
  BY SMT, CountsAssumption DEF Typed, TypeOK, StreamTyped, Ids
<1>2. id \in pel \/ Stored(id) \/ id \notin stream
  BY DEF Safe, NoSilentLoss
<1> QED
  BY <1>1, <1>2 DEF StoresGrow, LeavesStored

\* A step of w that leaves Redis and the stores alone and does not get ready
\* to acknowledge.
LEMMA QuietStep ==
  ASSUME Typed, Safe, NEW w \in Workers, UNCHANGED <<streamVars, stores>>,
         OthersKept(w), pc'[w] \notin {"ack", "dlqack"}
  PROVE  Safe' /\ Settles
<1>1. StoresGrow /\ LeavesStored
  BY DEF StoresGrow, LeavesStored, Stored, InDlq, streamVars, stores
<1>2. HoldsOf(w)'
  BY DEF HoldsOf
<1>3. NoSilentLoss'
  BY <1>1, KeepsNoLoss DEF streamVars
<1> QED
  BY <1>1, <1>2, <1>3, OthersHold DEF Safe, Settles, streamVars

\* XREADGROUP leaves no gap behind the id it delivers up to.
LEMMA ReadLeavesNoGap ==
  ASSUME Typed, NEW d \in ReadTaken, NEW id \in stream, id > delivered, id <= d
  PROVE  id \in ReadTaken
<1> DEFINE U == {i \in stream : i > delivered}
           below(n) == {j \in U : j < n}
<1>1. stream \subseteq 1 .. last /\ last \in Nat /\ d \in U /\ id \in U
  BY SMT DEF Typed, TypeOK, StreamTyped, ReadTaken, Oldest
<1>2. IsFiniteSet(below(d))
  <2>1. IsFiniteSet(1 .. last)
    BY SMT, <1>1, FS_Interval
  <2>2. below(d) \subseteq 1 .. last
    BY <1>1
  <2> QED
    BY <2>1, <2>2, FS_Subset
<1>3. below(id) \subseteq below(d)
  <2> SUFFICES ASSUME NEW j \in U, j < id PROVE j < d
    OBVIOUS
  <2>1. j \in Int /\ id \in Int /\ d \in Int
    BY SMT, <1>1
  <2> QED
    BY SMT, <2>1
<1>4. Cardinality(below(id)) <= Cardinality(below(d))
  BY <1>2, <1>3, FS_Subset
<1>5. Cardinality(below(d)) < BatchMax
  BY DEF ReadTaken, Oldest
<1>6. Cardinality(below(id)) \in Nat /\ Cardinality(below(d)) \in Nat
  BY <1>2, <1>3, FS_Subset, FS_CardinalityType
<1>7. Cardinality(below(id)) < BatchMax
  BY SMT, <1>4, <1>5, <1>6, CountsAssumption
<1> QED
  BY <1>1, <1>7 DEF ReadTaken, Oldest

\* XREADGROUP, reply received or lost, loses no event.
LEMMA SafeDeliver ==
  ASSUME Typed, Safe, Deliver(ReadTaken), UNCHANGED <<last, stream, group, stores>>
  PROVE  NoSilentLoss'
<1> SUFFICES ASSUME NEW id \in 1 .. delivered', id > group, id \in stream
             PROVE  id \in pel' \/ Stored(id)'
  BY DEF NoSilentLoss
<1>1. Stored(id) <=> Stored(id)'
  BY DEF Stored, InDlq, stores
<1>2. CASE id <= delivered
  <2>1. id \in 1 .. delivered
    BY SMT, <1>2 DEF Typed, TypeOK, StreamTyped
  <2> QED
    BY <1>1, <2>1 DEF Safe, NoSilentLoss, Deliver
<1>3. CASE id > delivered
  <2>1. delivered' # delivered
    BY SMT, <1>3 DEF Typed, TypeOK, StreamTyped
  <2>2. PICK d \in ReadTaken : delivered' = d
    BY <2>1 DEF Deliver
  <2>3. id \in ReadTaken
    BY SMT, <1>3, <2>2, ReadLeavesNoGap
  <2> QED
    BY <2>3 DEF Deliver
<1> QED
  BY SMT, <1>2, <1>3 DEF Typed, TypeOK, StreamTyped

\* Initially nothing is delivered, so nothing is lost.
LEMMA SafeInit == Init => Safe
BY DEF Init, Safe, NoSilentLoss, HoldsOf

\* An XADD of the server, with its trimming, loses no event.
LEMMA SafeEmit == ASSUME Typed, Safe, Emit PROVE Safe'
<1>1. \A id \in 1 .. delivered : id \in stream' => id \in stream
  BY SMT DEF Emit, Trimmed, Typed, TypeOK, StreamTyped
<1>2. \A id : Stored(id)' <=> Stored(id)
  BY DEF Emit, stores, Stored, InDlq
<1>3. NoSilentLoss'
  BY <1>1, <1>2 DEF Safe, NoSilentLoss, Emit
<1>4. \A w \in Workers : HoldsOf(w)'
  BY DEF Emit, stores, flushVars, Safe, HoldsOf, InDlq
<1> QED
  BY <1>3, <1>4 DEF Safe

\* An entry that ages loses no event.
LEMMA SafeAge == ASSUME Typed, Safe, NEW id \in Ids, Age(id) PROVE Safe'
<1>1. NoSilentLoss'
  BY DEF Age, Safe, NoSilentLoss, Stored, InDlq, stores
<1>2. \A w \in Workers : HoldsOf(w)'
  BY DEF Age, stores, flushVars, Safe, HoldsOf, InDlq
<1> QED
  BY <1>1, <1>2 DEF Safe

\* The exit from Loop loses no event.
LEMMA SafeLoopStop ==
  ASSUME Typed, Safe, NEW w \in Workers, LoopStop(w) PROVE Safe' /\ Settles
<1> USE DEF Typed, TypeOK, ControlTyped, ListsTyped, LoopStop, streamVars,
      stores, flushVars, bufVars, procVars, bounds, Set
<1>1. UNCHANGED <<streamVars, stores>>
  OBVIOUS
<1>2. OthersKept(w)
  BY DEF OthersKept
<1>3. pc'[w] \notin {"ack", "dlqack"}
  OBVIOUS
<1> QED
  BY <1>1, <1>2, <1>3, QuietStep

\* A failed EnsureDbConnection loses no event.
LEMMA SafeLoopNoDb ==
  ASSUME Typed, Safe, NEW w \in Workers, LoopNoDb(w) PROVE Safe' /\ Settles
<1> USE DEF Typed, TypeOK, ControlTyped, ListsTyped, LoopNoDb, streamVars,
      stores, flushVars, bufVars, procVars, Fault
<1>1. UNCHANGED <<streamVars, stores>>
  OBVIOUS
<1>2. OthersKept(w)
  BY DEF OthersKept
<1>3. pc'[w] \notin {"ack", "dlqack"}
  OBVIOUS
<1> QED
  BY <1>1, <1>2, <1>3, QuietStep

\* The reclaim branch of Loop loses no event.
LEMMA SafeLoopReclaim ==
  ASSUME Typed, Safe, NEW w \in Workers, LoopReclaim(w) PROVE Safe' /\ Settles
<1> USE DEF Typed, TypeOK, ControlTyped, ListsTyped, LoopReclaim, LoopWithDb,
      streamVars, stores, flushVars, bufVars, procVars, bounds, Set
<1>1. UNCHANGED <<streamVars, stores>>
  OBVIOUS
<1>2. OthersKept(w)
  BY DEF OthersKept
<1>3. pc'[w] \notin {"ack", "dlqack"}
  OBVIOUS
<1> QED
  BY <1>1, <1>2, <1>3, QuietStep

\* The read branch of Loop loses no event.
LEMMA SafeLoopRead ==
  ASSUME Typed, Safe, NEW w \in Workers, LoopRead(w) PROVE Safe' /\ Settles
<1> USE DEF Typed, TypeOK, ControlTyped, ListsTyped, LoopRead, LoopWithDb,
      streamVars, stores, flushVars, bufVars, procVars, bounds, Set
<1>1. UNCHANGED <<streamVars, stores>>
  OBVIOUS
<1>2. OthersKept(w)
  BY DEF OthersKept
<1>3. pc'[w] \notin {"ack", "dlqack"}
  OBVIOUS
<1> QED
  BY <1>1, <1>2, <1>3, QuietStep

\* Appending an entry to the batch loses no event.
LEMMA SafeBufferEntry ==
  ASSUME Typed, Safe, NEW w \in Workers, BufferEntry(w) PROVE Safe' /\ Settles
<1> USE DEF Typed, TypeOK, ControlTyped, ListsTyped, BufferEntry, streamVars,
      stores, flushVars, procVars, bounds, Set
<1>1. UNCHANGED <<streamVars, stores>>
  OBVIOUS
<1>2. OthersKept(w)
  BY DEF OthersKept
<1>3. pc'[w] \notin {"ack", "dlqack"}
  OBVIOUS
<1> QED
  BY <1>1, <1>2, <1>3, QuietStep

\* A due flush loses no event.
LEMMA SafeTickFlush ==
  ASSUME Typed, Safe, NEW w \in Workers, TickFlush(w) PROVE Safe' /\ Settles
<1> USE DEF Typed, TypeOK, ControlTyped, ListsTyped, TickFlush, streamVars,
      stores, flushVars, procVars, bounds, Set
<1>1. UNCHANGED <<streamVars, stores>>
  OBVIOUS
<1>2. OthersKept(w)
  BY DEF OthersKept
<1>3. pc'[w] \notin {"ack", "dlqack"}
  OBVIOUS
<1> QED
  BY <1>1, <1>2, <1>3, QuietStep

\* A batch that is not due loses no event.
LEMMA SafeTickWait ==
  ASSUME Typed, Safe, NEW w \in Workers, TickWait(w) PROVE Safe' /\ Settles
<1> USE DEF Typed, TypeOK, ControlTyped, ListsTyped, TickWait, streamVars,
      stores, flushVars, bufVars, procVars, bounds, Set
<1>1. UNCHANGED <<streamVars, stores>>
  OBVIOUS
<1>2. OthersKept(w)
  BY DEF OthersKept
<1>3. pc'[w] \notin {"ack", "dlqack"}
  OBVIOUS
<1> QED
  BY <1>1, <1>2, <1>3, QuietStep

\* The head of an attempt of Flush loses no event.
LEMMA SafeBeginAttempt ==
  ASSUME Typed, Safe, NEW w \in Workers, BeginAttempt(w) PROVE Safe' /\ Settles
<1> USE DEF Typed, TypeOK, ControlTyped, ListsTyped, BeginAttempt, streamVars,
      stores, bufVars, procVars, bounds, Set
<1>1. UNCHANGED <<streamVars, stores>>
  OBVIOUS
<1>2. OthersKept(w)
  BY DEF OthersKept
<1>3. pc'[w] \notin {"ack", "dlqack"}
  OBVIOUS
<1> QED
  BY <1>1, <1>2, <1>3, QuietStep

\* An attempt without a connection loses no event.
LEMMA SafeAttemptNotReady ==
  ASSUME Typed, Safe, NEW w \in Workers, AttemptNotReady(w) PROVE Safe' /\ Settles
<1> USE DEF Typed, TypeOK, ControlTyped, ListsTyped, AttemptNotReady,
      streamVars, stores, procVars, bounds, EndAttempt, Set, EndFlush
<1>1. UNCHANGED <<streamVars, stores>>
  OBVIOUS
<1>2. OthersKept(w)
  BY SMT DEF OthersKept
<1>3. pc'[w] \notin {"ack", "dlqack"}
  OBVIOUS
<1> QED
  BY <1>1, <1>2, <1>3, QuietStep

\* A successful ProcessEntry loses no event.
LEMMA SafeInsertEntry ==
  ASSUME Typed, Safe, NEW w \in Workers, InsertEntry(w) PROVE Safe' /\ Settles
<1> USE DEF Typed, TypeOK, ControlTyped, ListsTyped, InsertEntry, streamVars,
      stores, bufVars, procVars, bounds, Set, NextEntry
<1>1. UNCHANGED <<streamVars, stores>>
  OBVIOUS
<1>2. OthersKept(w)
  BY DEF OthersKept
<1>3. pc'[w] \notin {"ack", "dlqack"}
  OBVIOUS
<1> QED
  BY <1>1, <1>2, <1>3, QuietStep

\* A failed ProcessEntry loses no event.
LEMMA SafeRejectEntry ==
  ASSUME Typed, Safe, NEW w \in Workers, RejectEntry(w) PROVE Safe' /\ Settles
<1> USE DEF Typed, TypeOK, ControlTyped, ListsTyped, RejectEntry, streamVars,
      stores, bufVars, procVars, Set, Fault, NoFault, NextEntry
<1>1. UNCHANGED <<streamVars, stores>>
  OBVIOUS
<1>2. OthersKept(w)
  BY DEF OthersKept
<1>3. pc'[w] \notin {"ack", "dlqack"}
  OBVIOUS
<1> QED
  BY <1>1, <1>2, <1>3, QuietStep

\* A crash loses no event.
LEMMA SafeCrash ==
  ASSUME Typed, Safe, NEW w \in Workers, Crash(w) PROVE Safe' /\ Settles
<1> USE DEF Typed, TypeOK, ControlTyped, ListsTyped, Crash, streamVars,
      stores, Set
<1>1. UNCHANGED <<streamVars, stores>>
  OBVIOUS
<1>2. OthersKept(w)
  BY DEF OthersKept
<1>3. pc'[w] \notin {"ack", "dlqack"}
  OBVIOUS
<1> QED
  BY <1>1, <1>2, <1>3, QuietStep

\* SIGTERM loses no event.
LEMMA SafeRequestStop ==
  ASSUME Typed, Safe, NEW w \in Workers, RequestStop(w) PROVE Safe' /\ Settles
<1> USE DEF Typed, TypeOK, ControlTyped, ListsTyped, RequestStop, streamVars,
      stores, flushVars, bufVars, Set
<1>1. StoresGrow /\ LeavesStored
  BY DEF StoresGrow, LeavesStored, Stored, InDlq
<1>2. HoldsOf(w)'
  BY DEF Safe, HoldsOf, InDlq
<1>3. NoSilentLoss'
  BY <1>1, KeepsNoLoss
<1> QED
  BY <1>1, <1>2, <1>3, OthersHold DEF Safe, OthersKept, Settles

\* Run loses no event.
LEMMA SafeStart ==
  ASSUME Typed, Safe, NEW w \in Workers, Start(w) PROVE Safe'
<1> USE DEF Typed, TypeOK, ControlTyped, ListsTyped, Start, stores, flushVars,
      Set, Fault, NoFault, CreateGroup
<1>1. OthersKept(w)
  BY DEF OthersKept
<1>2. StoresGrow
  BY DEF StoresGrow, Stored, InDlq
<1>3. HoldsOf(w)'
  BY DEF HoldsOf
<1>4. NoSilentLoss'
  <2>1. CASE group' = last /\ delivered' = last
    BY SMT, <2>1 DEF NoSilentLoss, StreamTyped
  <2>2. CASE UNCHANGED <<group, delivered>>
    <3>1. LeavesStored
      BY DEF LeavesStored
    <3> QED
      BY <2>2, <3>1, <1>2, KeepsNoLoss
  <2> QED
    BY <2>1, <2>2
<1> QED
  BY <1>1, <1>2, <1>3, <1>4, OthersHold DEF Safe

\* ReclaimPending loses no event.
LEMMA SafeReclaim ==
  ASSUME Typed, Safe, NEW w \in Workers, Reclaim(w) PROVE Safe' /\ Settles
<1> USE DEF Typed, TypeOK, ControlTyped, ListsTyped, Reclaim, stores,
      flushVars, bounds, Set, BufferNext, Claim
<1>1. OthersKept(w)
  BY DEF OthersKept
<1>2. StoresGrow
  BY DEF StoresGrow, Stored, InDlq
<1>3. HoldsOf(w)'
  BY DEF HoldsOf
<1>4. LeavesStored
  BY DEF LeavesStored
<1>5. NoSilentLoss'
  BY <1>2, <1>4, KeepsNoLoss
<1>6. Settles
  BY <1>2, <1>4 DEF Settles
<1> QED
  BY <1>1, <1>2, <1>3, <1>5, <1>6, OthersHold DEF Safe

\* A failed XAUTOCLAIM loses no event.
LEMMA SafeReclaimFails ==
  ASSUME Typed, Safe, NEW w \in Workers, ReclaimFails(w) PROVE Safe' /\ Settles
<1> USE DEF Typed, TypeOK, ControlTyped, ListsTyped, ReclaimFails, stores,
      flushVars, bufVars, Set, Fault, Claim
<1>1. OthersKept(w)
  BY DEF OthersKept
<1>2. StoresGrow
  BY DEF StoresGrow, Stored, InDlq
<1>3. HoldsOf(w)'
  BY DEF HoldsOf
<1>4. LeavesStored
  BY DEF LeavesStored
<1>5. NoSilentLoss'
  BY <1>2, <1>4, KeepsNoLoss
<1>6. Settles
  BY <1>2, <1>4 DEF Settles
<1> QED
  BY <1>1, <1>2, <1>3, <1>5, <1>6, OthersHold DEF Safe

\* XREADGROUP loses no event.
LEMMA SafeRead ==
  ASSUME Typed, Safe, NEW w \in Workers, Read(w) PROVE Safe'
<1> USE DEF Typed, TypeOK, ControlTyped, ListsTyped, Read, stores, flushVars,
      procVars, bounds, BufferNext, Set
<1>1. OthersKept(w)
  BY DEF OthersKept
<1>2. StoresGrow
  BY DEF StoresGrow, Stored, InDlq
<1>3. HoldsOf(w)'
  BY DEF HoldsOf
<1>4. NoSilentLoss'
  BY SafeDeliver
<1> QED
  BY <1>1, <1>2, <1>3, <1>4, OthersHold DEF Safe

\* A failed XREADGROUP loses no event.
LEMMA SafeReadFails ==
  ASSUME Typed, Safe, NEW w \in Workers, ReadFails(w) PROVE Safe'
<1> USE DEF Typed, TypeOK, ControlTyped, ListsTyped, ReadFails, stores,
      flushVars, bufVars, procVars, Set, Fault
<1>1. OthersKept(w)
  BY DEF OthersKept
<1>2. StoresGrow
  BY DEF StoresGrow, Stored, InDlq
<1>3. HoldsOf(w)'
  BY DEF HoldsOf
<1>4. NoSilentLoss'
  <2>1. CASE Deliver(ReadTaken)
    BY <2>1, SafeDeliver
  <2>2. CASE UNCHANGED <<pel, delivered>>
    <3>1. LeavesStored
      BY <2>2 DEF LeavesStored
    <3> QED
      BY <2>2, <3>1, <1>2, KeepsNoLoss
  <2> QED
    BY <2>1, <2>2
<1> QED
  BY <1>1, <1>2, <1>3, <1>4, OthersHold DEF Safe

\* SendToDlq loses no event.
LEMMA SafeSendToDlq ==
  ASSUME ~DlqXaddMayFail, Typed, Safe, NEW w \in Workers, SendToDlq(w) PROVE Safe' /\ Settles
<1> USE DEF Typed, TypeOK, ControlTyped, ListsTyped, SendToDlq, streamVars,
      flushVars, bufVars, procVars, Set, Fault, NoFault
<1>h. todo[w] \in Seq(Ids) /\ todo[w] # <<>> /\ Head(todo[w]) \in Ids
  BY HeadTail DEF PhaseOK, PhaseOf
<1> DEFINE e == [orig |-> Head(todo[w]), retry |-> 0]
<1>d. /\ dlq' = Append(dlq, e)
      /\ e \in [orig : Ids, retry : Nat]
      /\ dlq \in Seq([orig : Ids, retry : Nat])
  BY <1>h DEF StoresTyped
<1>e. /\ Len(dlq') = Len(dlq) + 1 /\ Len(dlq) \in Nat
      /\ \A i \in 1 .. Len(dlq) : dlq'[i] = dlq[i]
      /\ dlq'[Len(dlq) + 1] = e
  BY SMT, <1>d, AppendList, LenProperties
<1>1. OthersKept(w)
  BY DEF OthersKept
<1>2. StoresGrow
  <2>1. \A id \in Ids : InDlq(id) => InDlq(id)'
    BY SMT, <1>e DEF InDlq
  <2> QED
    BY <2>1 DEF StoresGrow, Stored
<1>3. HoldsOf(w)'
  <2>1. Len(dlq) + 1 \in 1 .. Len(dlq') /\ dlq'[Len(dlq) + 1].orig = Head(todo[w])
    BY SMT, <1>e
  <2>2. pc'[w] = "dlqack" /\ todo' = todo
    OBVIOUS
  <2> QED
    BY <2>1, <2>2 DEF HoldsOf, InDlq
<1>4. LeavesStored
  BY DEF LeavesStored
<1>5. NoSilentLoss'
  BY <1>2, <1>4, KeepsNoLoss
<1>6. Settles
  BY <1>2, <1>4 DEF Settles
<1> QED
  BY <1>1, <1>2, <1>3, <1>5, <1>6, OthersHold DEF Safe

\* The Ack after SendToDlq loses no event.
LEMMA SafeAckDlqed ==
  ASSUME Typed, Safe, NEW w \in Workers, AckDlqed(w) PROVE Safe' /\ Settles
<1> USE DEF Typed, TypeOK, ControlTyped, ListsTyped, AckDlqed, stores,
      bufVars, procVars, NextEntry, Set, Ack, Fault, NoFault
<1>h. todo[w] \in Seq(Ids) /\ todo[w] # <<>> /\ Head(todo[w]) \in Ids
  BY HeadTail DEF PhaseOK, PhaseOf
<1>1. OthersKept(w)
  BY DEF OthersKept
<1>2. StoresGrow
  BY DEF StoresGrow, Stored, InDlq
<1>3. HoldsOf(w)'
  BY DEF HoldsOf
<1>4. LeavesStored
  <2>1. \A id \in Ids : id = Head(todo[w]) => Stored(id)'
    BY <1>2, <1>h DEF Safe, HoldsOf, Stored, StoresGrow
  <2> QED
    BY <1>h, <2>1 DEF LeavesStored
<1>5. NoSilentLoss'
  BY <1>2, <1>4, KeepsNoLoss
<1>6. Settles
  BY <1>2, <1>4 DEF Settles
<1> QED
  BY <1>1, <1>2, <1>3, <1>5, <1>6, OthersHold DEF Safe

\* The Ack of ack_on_error loses no event.
LEMMA SafeAckDropped ==
  ASSUME Typed, Safe, NEW w \in Workers, AckDropped(w) PROVE Safe' /\ Settles
<1> USE DEF Typed, TypeOK, ControlTyped, ListsTyped, AckDropped, bufVars,
      procVars, NextEntry, Set, Ack, Fault, NoFault
<1>h. todo[w] \in Seq(Ids) /\ todo[w] # <<>> /\ Head(todo[w]) \in Ids
  BY HeadTail DEF PhaseOK, PhaseOf
<1>1. OthersKept(w)
  BY DEF OthersKept
<1>2. StoresGrow
  BY DEF StoresGrow, Stored, InDlq
<1>3. HoldsOf(w)'
  BY DEF HoldsOf
<1>4. LeavesStored
  BY DEF LeavesStored, Stored
<1>5. NoSilentLoss'
  BY <1>2, <1>4, KeepsNoLoss
<1>6. Settles
  BY <1>2, <1>4 DEF Settles
<1> QED
  BY <1>1, <1>2, <1>3, <1>5, <1>6, OthersHold DEF Safe

\* tx.commit() loses no event.
LEMMA SafeCommit ==
  ASSUME Typed, Safe, NEW w \in Workers, Commit(w) PROVE Safe' /\ Settles
<1> USE DEF Typed, TypeOK, ControlTyped, ListsTyped, Commit, streamVars,
      flushVars, procVars, bounds, Set, EndFlush
<1>1. OthersKept(w)
  BY DEF OthersKept
<1>2. StoresGrow
  BY DEF StoresGrow, Stored, InDlq
<1>3. HoldsOf(w)'
  <2>1. CASE ackIds[w] = <<>>
    BY <2>1 DEF HoldsOf, EndFlush
  <2>2. CASE ackIds[w] # <<>>
    <3>1. pc'[w] = "ack" /\ ackIds' = ackIds
      BY <2>2
    <3>2. \A i \in 1 .. Len(ackIds[w]) : ackIds[w][i] \in db'
      BY DEF SeqRange
    <3> QED
      BY <3>1, <3>2 DEF HoldsOf
  <2> QED
    BY <2>1, <2>2
<1>4. LeavesStored
  BY DEF LeavesStored
<1>5. NoSilentLoss'
  BY <1>2, <1>4, KeepsNoLoss
<1>6. Settles
  BY <1>2, <1>4 DEF Settles
<1> QED
  BY <1>1, <1>2, <1>3, <1>5, <1>6, OthersHold DEF Safe

\* An exception of the transaction loses no event.
LEMMA SafeTxThrows ==
  ASSUME Typed, Safe, NEW w \in Workers, TxThrows(w) PROVE Safe' /\ Settles
<1> USE DEF Typed, TypeOK, ControlTyped, ListsTyped, TxThrows, streamVars,
      procVars, Set, Fault, EndAttempt, EndFlush
<1>1. OthersKept(w)
  BY SMT DEF OthersKept
<1>2. StoresGrow
  BY DEF StoresGrow, Stored, InDlq
<1>3. HoldsOf(w)'
  <2>1. CASE attempt[w] < RetryMax
    BY <2>1 DEF HoldsOf
  <2>2. CASE ~(attempt[w] < RetryMax)
    <3>1. pc'[w] \in {"read", "tick", "loop", "buffer"}
      BY <2>2
    <3> QED
      BY <3>1 DEF HoldsOf
  <2> QED
    BY <2>1, <2>2
<1>4. LeavesStored
  BY DEF LeavesStored
<1>5. NoSilentLoss'
  BY <1>2, <1>4, KeepsNoLoss
<1>6. Settles
  BY <1>2, <1>4 DEF Settles
<1> QED
  BY <1>1, <1>2, <1>3, <1>5, <1>6, OthersHold DEF Safe

\* The Ack after a commit loses no event.
LEMMA SafeAckCommitted ==
  ASSUME Typed, Safe, NEW w \in Workers, AckCommitted(w) PROVE Safe' /\ Settles
<1> USE DEF Typed, TypeOK, ControlTyped, ListsTyped, AckCommitted, stores,
      procVars, Set, EndFlush, Ack, Fault, NoFault
<1>h. ackIds[w] \in Seq(Ids) /\ ackIds[w] # <<>>
  BY DEF PhaseOK, PhaseOf
<1>i. Head(ackIds[w]) \in db
  BY SMT, <1>h, EmptySeq DEF Safe, HoldsOf
<1>1. OthersKept(w)
  BY DEF OthersKept
<1>2. StoresGrow
  BY DEF StoresGrow, Stored, InDlq
<1>3. HoldsOf(w)'
  <2>1. CASE Len(ackIds[w]) = 1
    BY <2>1 DEF HoldsOf, EndFlush
  <2>2. CASE Len(ackIds[w]) # 1
    <3>1. ackIds'[w] = Tail(ackIds[w]) /\ pc'[w] = "ack" /\ db' = db
      BY <2>2
    <3>2. \A i \in 1 .. Len(Tail(ackIds[w])) : Tail(ackIds[w])[i] \in db
      BY SMT, <1>h, HeadTail DEF Safe, HoldsOf
    <3> QED
      BY <3>1, <3>2 DEF HoldsOf
  <2> QED
    BY <2>1, <2>2
<1>4. LeavesStored
  BY <1>i DEF LeavesStored, Stored
<1>5. NoSilentLoss'
  BY <1>2, <1>4, KeepsNoLoss
<1>6. Settles
  BY <1>2, <1>4 DEF Settles
<1> QED
  BY <1>1, <1>2, <1>3, <1>5, <1>6, OthersHold DEF Safe

-----------------------------------------------------------------------------
\* TypeOK is an invariant (the type correctness of WbWorker): ids stay in the
\* range the stream has handed out, only delivered ids are pending, and the
\* retry budget of Flush is respected.
THEOREM WorkerTypeOK == Spec => []TypeOK
BY TypeCorrect, PTL DEF Typed

\* A step of a worker's loop other than a read.
LEMMA SettlesStep ==
  ASSUME ~DlqXaddMayFail, Typed, Safe, NEW w \in Workers,
         RequestStop(w) \/ Crash(w) \/ WorkerStep(w)
  PROVE  Read(w) \/ ReadFails(w) \/ (Safe' /\ Settles)
BY SafeLoopStop, SafeLoopNoDb, SafeLoopReclaim, SafeLoopRead, SafeReclaim, SafeReclaimFails,
   SafeBufferEntry, SafeTickFlush, SafeTickWait, SafeBeginAttempt, SafeAttemptNotReady,
   SafeInsertEntry, SafeRejectEntry, SafeSendToDlq, SafeAckDlqed, SafeAckDropped, SafeCommit,
   SafeTxThrows, SafeAckCommitted, SafeRequestStop, SafeCrash DEF WorkerStep

\* Every step keeps Safe.
LEMMA SafeStep == ASSUME ~DlqXaddMayFail, Typed, Safe, [Next]_vars PROVE Safe'
<1>1. CASE UNCHANGED vars
  <2>1. NoSilentLoss'
    BY <1>1 DEF vars, streamVars, stores, Safe, NoSilentLoss, Stored, InDlq
  <2>2. \A w \in Workers : HoldsOf(w)'
    BY <1>1 DEF vars, stores, flushVars, Safe, HoldsOf, InDlq
  <2> QED
    BY <2>1, <2>2 DEF Safe
<1>2. CASE Emit
  BY <1>2, SafeEmit
<1>3. ASSUME NEW id \in Ids, Age(id) PROVE Safe'
  BY <1>3, SafeAge
<1>4. ASSUME NEW w \in Workers, RequestStop(w) \/ Crash(w) \/ WorkerStep(w) PROVE Safe'
  BY <1>4, SettlesStep, SafeRead, SafeReadFails
<1>5. ASSUME NEW w \in Workers, Start(w) PROVE Safe'
  BY <1>5, SafeStart
<1> QED
  BY <1>1, <1>2, <1>3, <1>4, <1>5 DEF Next

\* Safe holds of every behaviour.
LEMMA SafeAlways == ASSUME ~DlqXaddMayFail PROVE Spec => []Safe
BY SafeStep, SafeInit, TypeCorrect, PTL DEF Spec

\* NoSilentLoss is an invariant: as long as Redis accepts the XADD of
\* SendToDlq, an event leaves the pending list only when it is stored, given
\* up as configured or trimmed, for any workers, faults, crashes and stops.
THEOREM WorkerLosesNothing ==
  ASSUME ~DlqXaddMayFail PROVE Spec => []NoSilentLoss
<1>1. Safe => NoSilentLoss
  BY DEF Safe
<1> QED
  BY <1>1, SafeAlways, PTL

-----------------------------------------------------------------------------
(* The delivery promise. *)

\* Nothing is pending before there is a group.
GroupFirst == group = NoGroup => pel = {}

\* Only XREADGROUP adds to the PEL, and Redis answers it with NOGROUP as long
\* as there is no group.
LEMMA GroupFirstStep ==
  ASSUME ~DlqXaddMayFail, Typed, Safe, GroupFirst, [Next]_vars PROVE GroupFirst'
<1>1. CASE UNCHANGED vars
  BY <1>1 DEF vars, streamVars, GroupFirst
<1>2. CASE Emit \/ \E id \in Ids : Age(id)
  BY <1>2 DEF Emit, Age, GroupFirst
<1>3. ASSUME NEW w \in Workers, RequestStop(w) \/ Crash(w) \/ WorkerStep(w) PROVE GroupFirst'
  <2>1. CASE Settles
    BY <2>1 DEF Settles, GroupFirst
  <2>2. CASE Read(w) \/ ReadFails(w)
    BY <2>2 DEF Read, ReadFails, GroupFirst
  <2> QED
    BY <1>3, <2>1, <2>2, SettlesStep
<1>4. ASSUME NEW w \in Workers, Start(w) PROVE GroupFirst'
  <2>1. last # NoGroup
    BY SMT DEF NoGroup, Typed, TypeOK, StreamTyped
  <2> QED
    BY <1>4, <2>1 DEF Start, CreateGroup, GroupFirst
<1> QED
  BY <1>1, <1>2, <1>3, <1>4 DEF Next

\* What is owed or accounted for has been added to the stream.
LEMMA OwedTyped ==
  ASSUME Typed
  PROVE  Owed \subseteq 1 .. last /\ Accounted \subseteq 1 .. last /\ Owed \subseteq Ids
<1>1. pel \subseteq 1 .. last /\ stream \subseteq 1 .. last /\ 1 .. last \subseteq Ids
  BY SMT, CountsAssumption DEF Typed, TypeOK, StreamTyped, Ids
<1>2. {i \in stream : i > delivered} \subseteq 1 .. last
  BY <1>1
<1>3. Owed \subseteq 1 .. last
  BY <1>1, <1>2 DEF Owed
<1> QED
  BY <1>1, <1>3 DEF Accounted

\* A step that settles events is one of the promise.
LEMMA SettlesKeeps == ASSUME Typed, Settles PROVE [Promise!Next]_Promise!vars
<1> DEFINE done == Owed \ Owed'
<1>0. /\ last \in Nat /\ 1 .. last \subseteq Ids /\ delivered \in 0 .. last
      /\ pel \subseteq 1 .. delivered /\ stream \subseteq 1 .. last
  BY SMT, CountsAssumption DEF Typed, TypeOK, StreamTyped, Ids
<1>1. Accounted \subseteq Accounted' /\ Accounted' \subseteq Ids
  BY <1>0 DEF Accounted, Settles, StoresGrow
<1>2. Owed' \subseteq Owed
  BY DEF Owed, Settles
<1>3. Owed \subseteq Ids
  BY OwedTyped
<1>4. done \subseteq Accounted'
  <2> SUFFICES ASSUME NEW id \in Owed, id \notin Owed' PROVE id \in Accounted'
    OBVIOUS
  <2>1. id \in pel /\ id \notin pel'
    BY DEF Owed, Settles
  <2>2. id \in 1 .. last /\ (Stored(id)' \/ id \notin stream)
    BY SMT, <1>0, <2>1 DEF Settles, LeavesStored
  <2> QED
    BY <2>2 DEF Accounted, Settles
<1>5. Promise!Settle(Accounted', done)
  BY <1>1, <1>2, <1>4 DEF Promise!Settle
<1>6. Accounted' \in SUBSET Ids /\ done \in SUBSET Ids
  BY <1>1, <1>3
<1> QED
  BY <1>5, <1>6 DEF Promise!Next

\* A step that leaves what is owed and accounted for alone.
LEMMA StutterKeeps ==
  ASSUME Owed' = Owed, Accounted' = Accounted PROVE [Promise!Next]_Promise!vars
BY DEF Promise!vars

\* XADD: the new event is owed; what the stream gives up is accounted for.
LEMMA EmitKeeps == ASSUME Typed, Typed', Emit PROVE [Promise!Next]_Promise!vars
<1>0. /\ last \in Nat /\ last' = last + 1 /\ last + 1 \in Ids /\ delivered \in 0 .. last
      /\ pel \subseteq 1 .. delivered /\ stream \subseteq 1 .. last
      /\ stream' \subseteq stream \union {last + 1}
  BY SMT, CountsAssumption DEF Typed, TypeOK, StreamTyped, Ids, Emit, Trimmed
<1>1. \A id : Stored(id)' <=> Stored(id)
  BY DEF Emit, stores, Stored, InDlq
<1>2. Accounted \subseteq Accounted'
  BY SMT, <1>0, <1>1 DEF Accounted
<1>3. Accounted' \in SUBSET Ids
  <2>1. 1 .. last' \subseteq Ids
    BY SMT, CountsAssumption DEF Typed, TypeOK, StreamTyped, Ids
  <2> QED
    BY <2>1 DEF Accounted
<1>4. CASE group = NoGroup
  <2>1. Promise!Settle(Accounted', {})
    BY <1>2, <1>4 DEF Promise!Settle, Owed, Emit
  <2> QED
    BY <1>3, <2>1 DEF Promise!Next
<1>5. CASE group # NoGroup
  <2> DEFINE e == last + 1
             done == (Owed \union {e}) \ Owed'
  <2>1. e \notin Owed \union Accounted /\ e \in Ids
    BY SMT, <1>0, OwedTyped
  <2>2. Owed' \subseteq Owed \union {e}
    BY <1>0, <1>5 DEF Owed, Emit
  <2>3. done \subseteq Accounted'
    <3> SUFFICES ASSUME NEW id \in Owed \union {e}, id \notin Owed' PROVE id \in Accounted'
      OBVIOUS
    <3>1. id \in 1 .. last'
      BY SMT, <1>0, OwedTyped
    <3>2. id > delivered \/ id \in pel
      BY SMT, <1>0, <1>5 DEF Owed
    <3>3. id \notin stream'
      BY <1>5, <3>2 DEF Owed, Emit
    <3> QED
      BY <3>1, <3>3 DEF Accounted
  <2>4. Promise!Accept(e, Accounted', done)
    BY <1>2, <2>1, <2>2, <2>3 DEF Promise!Accept
  <2>5. done \in SUBSET Ids
    BY <2>1, OwedTyped
  <2> QED
    BY <1>3, <2>1, <2>4, <2>5 DEF Promise!Next
<1> QED
  BY <1>4, <1>5

\* XREADGROUP moves events from the unread to the pending ones.
LEMMA DeliverOwed ==
  ASSUME Typed, Deliver(ReadTaken), UNCHANGED <<last, stream, group, stores>>
  PROVE  Owed' = Owed /\ Accounted' = Accounted
<1>0. delivered \in Nat /\ stream \subseteq 1 .. last /\ last \in Nat
  BY SMT DEF Typed, TypeOK, StreamTyped
<1>1. ReadTaken \subseteq {i \in stream : i > delivered}
  BY DEF ReadTaken, Oldest
<1>2. {i \in stream : i > delivered} = ReadTaken \union {i \in stream : i > delivered'}
  <2>1. CASE ReadTaken = {} /\ UNCHANGED delivered
    BY <2>1
  <2>2. ASSUME NEW d \in ReadTaken, \A i \in ReadTaken : i <= d, delivered' = d
        PROVE  {i \in stream : i > delivered} = ReadTaken \union {i \in stream : i > delivered'}
    <3>1. d \in Nat /\ d > delivered
      BY SMT, <1>0, <1>1
    <3>2. ASSUME NEW i \in stream, i > delivered PROVE i \in ReadTaken \/ i > d
      BY SMT, <1>0, <3>1, <3>2, ReadLeavesNoGap
    <3>3. ASSUME NEW i \in stream, i > d PROVE i > delivered
      BY SMT, <1>0, <3>1, <3>3
    <3> QED
      BY <1>1, <2>2, <3>2, <3>3
  <2> QED
    BY <2>1, <2>2 DEF Deliver
<1>3. Owed' = Owed
  BY <1>2 DEF Owed, Deliver
<1> QED
  BY <1>3 DEF Accounted, Stored, InDlq, stores

\* XGROUP CREATE at "$" owes nothing: the events before it are not the group's.
LEMMA StartOwed ==
  ASSUME Typed, GroupFirst, NEW w \in Workers, Start(w)
  PROVE  Owed' = Owed /\ Accounted' = Accounted
<1>1. Accounted' = Accounted
  BY DEF Start, Accounted, Stored, InDlq, stores
<1>2. CASE group = NoGroup /\ group' = last /\ delivered' = last
  <2>1. last # NoGroup /\ \A i \in stream : ~(i > last)
    BY SMT DEF NoGroup, Typed, TypeOK, StreamTyped
  <2> QED
    BY <1>1, <1>2, <2>1 DEF Owed, GroupFirst, Start
<1>3. CASE UNCHANGED <<group, delivered>>
  BY <1>1, <1>3 DEF Owed, Start
<1> QED
  BY <1>2, <1>3 DEF Start, CreateGroup

\* Every step of the path is a step of the promise or changes nothing in it.
LEMMA PromiseStep ==
  ASSUME ~DlqXaddMayFail, Typed, Typed', Safe, GroupFirst, [Next]_vars
  PROVE  [Promise!Next]_Promise!vars
<1>1. CASE UNCHANGED vars
  <2>1. Owed' = Owed /\ Accounted' = Accounted
    BY <1>1 DEF vars, streamVars, stores, Owed, Accounted, Stored, InDlq
  <2> QED
    BY <2>1, StutterKeeps
<1>2. CASE Emit
  BY <1>2, EmitKeeps
<1>3. ASSUME NEW id \in Ids, Age(id) PROVE [Promise!Next]_Promise!vars
  <2>1. Owed' = Owed /\ Accounted' = Accounted
    BY <1>3 DEF Age, stores, Owed, Accounted, Stored, InDlq
  <2> QED
    BY <2>1, StutterKeeps
<1>4. ASSUME NEW w \in Workers, RequestStop(w) \/ Crash(w) \/ WorkerStep(w)
      PROVE  [Promise!Next]_Promise!vars
  <2>1. CASE Settles
    BY <2>1, SettlesKeeps
  <2>2. CASE Read(w)
    BY <2>2, DeliverOwed, StutterKeeps DEF Read
  <2>3. CASE ReadFails(w)
    <3>1. CASE Deliver(ReadTaken)
      BY <2>3, <3>1, DeliverOwed, StutterKeeps DEF ReadFails
    <3>2. CASE UNCHANGED <<pel, delivered>>
      <4>1. Owed' = Owed /\ Accounted' = Accounted
        BY <2>3, <3>2 DEF ReadFails, stores, Owed, Accounted, Stored, InDlq
      <4> QED
        BY <4>1, StutterKeeps
    <3> QED
      BY <2>3, <3>1, <3>2 DEF ReadFails
  <2> QED
    BY <1>4, <2>1, <2>2, <2>3, SettlesStep
<1>5. ASSUME NEW w \in Workers, Start(w) PROVE [Promise!Next]_Promise!vars
  BY <1>5, StartOwed, StutterKeeps
<1> QED
  BY <1>1, <1>2, <1>3, <1>4, <1>5 DEF Next

\* The workers implement the delivery promise (WbPromise): as long as Redis
\* accepts the XADD of SendToDlq, every step of the path accepts an event,
\* accounts for events, or forgets only events that are accounted for.
THEOREM WorkersKeepPromise ==
  ASSUME ~DlqXaddMayFail PROVE Spec => PromiseKept
<1>1. Init => Promise!Init
  <2> SUFFICES ASSUME Init PROVE Promise!Init
    OBVIOUS
  <2>1. 1 .. last = {}
    BY SMT DEF Init
  <2> QED
    BY <2>1 DEF Init, Promise!Init, Owed, Accounted
<1>2. Init => GroupFirst
  BY DEF Init, GroupFirst
<1>3. Spec => []GroupFirst
  BY <1>2, GroupFirstStep, SafeAlways, TypeCorrect, PTL DEF Spec
<1> QED
  BY <1>1, <1>3, PromiseStep, SafeAlways, TypeCorrect, PTL DEF Spec, PromiseKept, Promise!Spec

-----------------------------------------------------------------------------
(* The size of a batch. *)

BatchOf(w) ==
  /\ Len(buf[w]) <= BatchMax
  /\ pc[w] \notin InFlush => Len(buf[w]) < BatchMax

\* The other workers' batches are their own.
LEMMA OtherBatches ==
  ASSUME BatchBounded, NEW w \in Workers, BatchOf(w)',
         \A x \in Workers : x # w => buf'[x] = buf[x] /\ pc'[x] = pc[x]
  PROVE  BatchBounded'
BY DEF BatchBounded, BatchOf

\* The batch may be entered by Flush, and stays with Flush or without it.
LEMMA SameBatch ==
  ASSUME Typed, BatchBounded, NEW w \in Workers, buf' = buf, NEW p, pc' = Set(pc, w, p),
         p \in InFlush \/ pc[w] \notin InFlush
  PROVE  BatchBounded'
<1>1. pc'[w] = p /\ \A x \in Workers : x # w => pc'[x] = pc[x]
  BY DEF Typed, TypeOK, ControlTyped, Set
<1>2. BatchOf(w)'
  BY <1>1 DEF BatchBounded, BatchOf
<1> QED
  BY <1>1, <1>2, OtherBatches

\* Flush, a crash and a start leave an empty batch.
LEMMA NoBatch ==
  ASSUME Typed, BatchBounded, NEW w \in Workers, buf' = Set(buf, w, <<>>),
         NEW p, pc' = Set(pc, w, p)
  PROVE  BatchBounded'
<1>1. /\ buf'[w] = <<>>
      /\ \A x \in Workers : x # w => buf'[x] = buf[x] /\ pc'[x] = pc[x]
  BY DEF Typed, TypeOK, ControlTyped, ListsTyped, Set
<1>2. Len(buf'[w]) = 0
  BY <1>1, EmptySeq
<1>3. BatchOf(w)'
  BY SMT, <1>2, CountsAssumption DEF BatchOf
<1> QED
  BY <1>1, <1>3, OtherBatches

\* The end of a failed attempt: the batch is kept for the next one or dropped.
LEMMA AttemptBatch ==
  ASSUME Typed, BatchBounded, NEW w \in Workers, EndAttempt(w) PROVE BatchBounded'
<1>1. "flush" \in InFlush
  BY DEF InFlush
<1> QED
  BY <1>1, SameBatch, NoBatch DEF EndAttempt, EndFlush

\* Every append looks at the limit.
LEMMA BufferBatch ==
  ASSUME Typed, BatchBounded, NEW w \in Workers, BufferEntry(w) PROVE BatchBounded'
<1>1. /\ buf[w] \in Seq(Ids) /\ Head(incoming[w]) \in Ids /\ Len(buf[w]) \in Nat
      /\ next[w] \in {"read", "tick", "loop"}
  BY HeadTail, LenProperties
     DEF BufferEntry, Typed, TypeOK, ListsTyped, ControlTyped, PhaseOK, PhaseOf
<1>2. /\ buf'[w] = Append(buf[w], Head(incoming[w]))
      /\ \A x \in Workers : x # w => buf'[x] = buf[x] /\ pc'[x] = pc[x]
  BY DEF BufferEntry, Typed, TypeOK, ListsTyped, ControlTyped, Set
<1>3. Len(buf'[w]) = Len(buf[w]) + 1
  BY SMT, <1>1, <1>2, AppendList
<1>4. Len(buf[w]) < BatchMax
  BY DEF BufferEntry, BatchBounded, InFlush
<1>5. pc'[w] \in InFlush \/ Len(buf[w]) + 1 < BatchMax
  BY DEF BufferEntry, Typed, TypeOK, ControlTyped, InFlush, Set
<1>6. BatchOf(w)'
  BY SMT, <1>1, <1>3, <1>4, <1>5, CountsAssumption DEF BatchOf
<1> QED
  BY <1>2, <1>6, OtherBatches

\* No step lets a batch outgrow its limit.
LEMMA BatchStep ==
  ASSUME Typed, BatchBounded, NEW w \in Workers,
         Start(w) \/ RequestStop(w) \/ Crash(w) \/ WorkerStep(w)
  PROVE  BatchBounded'
<1>1. CASE Start(w) \/ Crash(w)
  BY <1>1, NoBatch DEF Start, Crash
<1>2. CASE RequestStop(w) \/ LoopNoDb(w)
  BY <1>2 DEF RequestStop, LoopNoDb, bufVars, BatchBounded
<1>3. CASE LoopStop(w) \/ LoopReclaim(w) \/ LoopRead(w) \/ ReclaimFails(w) \/ ReadFails(w)
  BY <1>3, SameBatch
     DEF LoopStop, LoopReclaim, LoopRead, LoopWithDb, ReclaimFails, ReadFails, bufVars, InFlush
<1>4. CASE Reclaim(w) \/ Read(w)
  BY <1>4, SameBatch DEF Reclaim, Read, BufferNext, InFlush
<1>5. CASE TickFlush(w) \/ TickWait(w)
  BY <1>5, SameBatch DEF TickFlush, TickWait, bufVars, InFlush
<1>6. CASE BufferEntry(w)
  BY <1>6, BufferBatch
<1>7. CASE BeginAttempt(w) \/ InsertEntry(w) \/ SendToDlq(w) \/ AckDlqed(w) \/ AckDropped(w)
  BY <1>7, SameBatch
     DEF BeginAttempt, InsertEntry, SendToDlq, AckDlqed, AckDropped, NextEntry, bufVars, InFlush
<1>8. CASE RejectEntry(w)
  <2>1. PICK p \in InFlush : pc' = Set(pc, w, p)
    BY <1>8 DEF RejectEntry, NextEntry, InFlush
  <2> QED
    BY <1>8, <2>1, SameBatch DEF RejectEntry, bufVars
<1>9. CASE AttemptNotReady(w) \/ TxThrows(w)
  BY <1>9, AttemptBatch DEF AttemptNotReady, TxThrows
<1>10. CASE Commit(w)
  <2>1. "ack" \in InFlush
    BY DEF InFlush
  <2> QED
    BY <1>10, <2>1, SameBatch, NoBatch DEF Commit, EndFlush
<1>11. CASE AckCommitted(w)
  <2>1. CASE Len(ackIds[w]) = 1
    BY <1>11, <2>1, NoBatch DEF AckCommitted, EndFlush
  <2>2. CASE Len(ackIds[w]) # 1
    BY <1>11, <2>2 DEF AckCommitted, BatchBounded
  <2> QED
    BY <2>1, <2>2
<1> QED
  BY <1>1, <1>2, <1>3, <1>4, <1>5, <1>6, <1>7, <1>8, <1>9, <1>10, <1>11 DEF WorkerStep

\* No batch outgrows batch_max_events, and a worker that is not in Flush has
\* room for one more entry: what BufferEntry is about to append never
\* overshoots, whether it was read or reclaimed.
THEOREM BatchesBounded == Spec => []BatchBounded
<1>1. Init => BatchBounded
  BY SMT, CountsAssumption DEF Init, BatchBounded
<1>2. ASSUME Typed, BatchBounded, [Next]_vars PROVE BatchBounded'
  <2>1. CASE UNCHANGED vars
    BY <1>2, <2>1 DEF vars, bufVars, BatchBounded
  <2>2. CASE Emit \/ \E id \in Ids : Age(id)
    BY <1>2, <2>2 DEF Emit, Age, bufVars, BatchBounded
  <2> QED
    BY <1>2, <2>1, <2>2, BatchStep DEF Next
<1> QED
  BY <1>1, <1>2, TypeCorrect, PTL DEF Spec
=============================================================================
