--------------------------- MODULE WbWorkerProofs ---------------------------
(***************************************************************************)
(* Proofs about WbWorker for any number of events and workers, any batch   *)
(* size, retry budget and policy, and any number of faults and crashes.    *)
(***************************************************************************)
EXTENDS WbWorker, FiniteSetTheorems, SequenceTheorems, TLAPS

\* A step that takes the head of a list finds the list non-empty.
PhaseOf(w) ==
  /\ pc[w] = "buffer" => incoming[w] # <<>>
  /\ pc[w] \in InFlush => buf[w] # <<>>
  /\ pc[w] \in {"entry", "dlq", "dlqack", "drop"} => todo[w] # <<>>
  /\ pc[w] = "ack" => ackIds[w] # <<>>
PhaseOK == \A w \in Workers : PhaseOf(w)

Typed == TypeOK /\ PhaseOK

-----------------------------------------------------------------------------
(* Lists. *)

\* The leaves are Zenon's, but for those that name another prover.
USE Zenon

\* Head and Tail of a non-empty list.
LEMMA HeadTail ==
  ASSUME NEW S, NEW s \in Seq(S), s # <<>>
  PROVE  /\ Head(s) \in S /\ Tail(s) \in Seq(S)
         /\ Len(s) \in Nat \ {0} /\ Len(Tail(s)) = Len(s) - 1
         /\ Len(s) # 1 => Tail(s) # <<>>
         /\ \A i \in 1 .. Len(Tail(s)) : i + 1 \in 1 .. Len(s) /\ Tail(s)[i] = s[i + 1]
<1>1. Len(s) \in Nat \ {0} /\ Head(s) \in S
  BY HeadTailProperties, EmptySeq
<1>2. Tail(s) \in Seq(S) /\ Len(Tail(s)) = Len(s) - 1
  BY HeadTailProperties
<1>3. Len(s) # 1 => Tail(s) # <<>>
  BY SMT, <1>1, <1>2
<1>4. \A i \in 1 .. Len(Tail(s)) : i + 1 \in 1 .. Len(s) /\ Tail(s)[i] = s[i + 1]
  BY SMT, <1>1, <1>2, HeadTailProperties
<1> QED
  BY <1>1, <1>2, <1>3, <1>4

\* Append adds its element at the end.
LEMMA AppendList ==
  ASSUME NEW S, NEW s \in Seq(S), NEW e \in S
  PROVE  /\ Append(s, e) \in Seq(S) /\ Append(s, e) # <<>>
         /\ Len(Append(s, e)) = Len(s) + 1
         /\ \A i \in 1 .. Len(s) : Append(s, e)[i] = s[i]
         /\ Append(s, e)[Len(s) + 1] = e
BY SMT, AppendProperties, EmptySeq

\* The replies of Redis list ids of the set they are about.
LEMMA ReplySeq ==
  ASSUME NEW n \in Nat, NEW S, S \subseteq 1 .. n, NEW r \in Reply(S)
  PROVE  r \in Seq(S)
<1>1. IsFiniteSet(1 .. n)
  BY SMT, FS_Interval
<1>2. Cardinality(S) \in Nat
  BY <1>1, FS_Subset, FS_CardinalityType
<1> QED
  BY SMT, <1>2 DEF Reply

\* The empty list is a list of ids.
LEMMA EmptyList == <<>> \in Seq(Ids)
BY SMT

-----------------------------------------------------------------------------
(* The pieces the actions of Flush are built from. *)

\* The return of Flush leaves the worker's lists and its phase well typed.
LEMMA EndFlushTyped ==
  ASSUME Typed, NEW w \in Workers, EndFlush(w),
         UNCHANGED <<incoming, next, stopReq, first, cursor>>,
         conn' \in [Workers -> BOOLEAN]
  PROVE  ControlTyped' /\ ListsTyped' /\ PhaseOK'
<1> USE DEF Typed, TypeOK, EndFlush, Set
<1>1. ControlTyped'
  <2>1. pc' \in [Workers -> Phases]
    BY DEF ControlTyped, Phases
  <2>2. attempt' \in [Workers -> 0 .. RetryMax]
    BY SMT, CountsAssumption DEF ControlTyped
  <2> QED
    BY <2>1, <2>2 DEF ControlTyped
<1>2. ListsTyped'
  BY EmptyList DEF ListsTyped
<1>3. ASSUME NEW x \in Workers PROVE PhaseOf(x)'
  <2>1. CASE x = w
    <3>1. pc'[w] \in {"read", "tick", "loop", "buffer"}
      BY DEF ControlTyped
    <3>2. pc'[w] = "buffer" => incoming'[w] # <<>>
      BY DEF ControlTyped
    <3> QED
      BY <2>1, <3>1, <3>2 DEF PhaseOf, InFlush
  <2>2. CASE x # w
    BY <2>2 DEF PhaseOK, PhaseOf, ControlTyped, ListsTyped
  <2> QED
    BY <2>1, <2>2
<1> QED
  BY <1>1, <1>2, <1>3 DEF PhaseOK

\* The end of a failed attempt leaves the worker's lists and its phase well typed
\* and stays within the retry budget.
LEMMA EndAttemptTyped ==
  ASSUME Typed, NEW w \in Workers, EndAttempt(w), pc[w] \in InFlush,
         UNCHANGED <<incoming, next, stopReq, first, cursor>>,
         conn' \in [Workers -> BOOLEAN]
  PROVE  ControlTyped' /\ ListsTyped' /\ PhaseOK'
<1>1. CASE attempt[w] < RetryMax
  <2> USE <1>1 DEF Typed, TypeOK, EndAttempt, Set
  <2>1. pc' \in [Workers -> Phases]
    BY DEF ControlTyped, Phases
  <2>0. attempt[w] + 1 \in 0 .. RetryMax
    BY SMT, CountsAssumption DEF ControlTyped
  <2>2. attempt' \in [Workers -> 0 .. RetryMax]
    BY <2>0 DEF ControlTyped
  <2>3. ListsTyped'
    BY EmptyList DEF ListsTyped
  <2>4. ASSUME NEW x \in Workers PROVE PhaseOf(x)'
    <3>1. CASE x = w
      BY <3>1 DEF PhaseOK, PhaseOf, ControlTyped, InFlush
    <3>2. CASE x # w
      BY <3>2 DEF PhaseOK, PhaseOf, ControlTyped, ListsTyped
    <3> QED
      BY <3>1, <3>2
  <2> QED
    BY <2>1, <2>2, <2>3, <2>4 DEF PhaseOK, ControlTyped
<1>2. CASE ~(attempt[w] < RetryMax)
  BY <1>2, EndFlushTyped DEF EndAttempt
<1> QED
  BY <1>1, <1>2

\* Moving on in the loop over the batch leaves phase and list well typed.
LEMMA NextEntryTyped ==
  ASSUME Typed, NEW w \in Workers, NextEntry(w),
         pc[w] \in {"entry", "dlq", "dlqack", "drop"},
         UNCHANGED <<incoming, buf, next, conn, stopReq, first, cursor, attempt>>,
         ackIds' \in [Workers -> Seq(Ids)],
         \A x \in Workers : x # w => ackIds'[x] = ackIds[x]
  PROVE  ControlTyped' /\ ListsTyped' /\ PhaseOK'
<1> USE DEF Typed, TypeOK, NextEntry, Set
<1>1. todo[w] \in Seq(Ids) /\ todo[w] # <<>>
  BY DEF ListsTyped, PhaseOK, PhaseOf
<1>2. Tail(todo[w]) \in Seq(Ids) /\ (Len(todo[w]) # 1 => Tail(todo[w]) # <<>>)
  BY <1>1, HeadTail
<1>3. ControlTyped'
  BY DEF ControlTyped, Phases
<1>4. ListsTyped'
  BY <1>2 DEF ListsTyped
<1>5. ASSUME NEW x \in Workers PROVE PhaseOf(x)'
  <2>1. CASE x = w
    <3>1. pc'[w] \in {"commit", "entry"} /\ (pc'[w] = "entry" => todo'[w] # <<>>)
      BY <1>2 DEF ControlTyped, ListsTyped
    <3>2. buf'[w] # <<>>
      BY DEF PhaseOK, PhaseOf, InFlush
    <3> QED
      BY <2>1, <3>1, <3>2 DEF PhaseOf
  <2>2. CASE x # w
    BY <2>2 DEF PhaseOK, PhaseOf, ControlTyped, ListsTyped
  <2> QED
    BY <2>1, <2>2
<1> QED
  BY <1>3, <1>4, <1>5 DEF PhaseOK

\* The reclaim cursor is 0 or a pending id.
LEMMA CursorType ==
  ASSUME NEW w \in Workers, NEW taken, pel \subseteq Ids
  PROVE  ClaimCursor(w, taken) \subseteq 0 .. MaxEvents
<1> DEFINE rest == {i \in pel : \A j \in taken : i > j}
<1>1. pel \subseteq 0 .. MaxEvents /\ rest \subseteq pel
  <2>1. pel \subseteq 0 .. MaxEvents
    BY SMT, CountsAssumption DEF Ids
  <2>2. rest \subseteq pel
    OBVIOUS
  <2> QED
    BY <2>1, <2>2
<1>2. 0 \in 0 .. MaxEvents
  BY SMT, CountsAssumption
<1>3. ClaimCursor(w, taken) \subseteq rest \union {0}
  BY DEF ClaimCursor
<1> QED
  BY <1>1, <1>2, <1>3

-----------------------------------------------------------------------------
(* Typed is preserved by every action. *)

\* Initially no worker runs and every list is empty, which is well typed.
LEMMA TypeInit == Init => Typed
BY SMT, CountsAssumption
DEF Init, Typed, TypeOK, StreamTyped, StoresTyped, ControlTyped, ListsTyped,
    BoundsTyped, PhaseOK, PhaseOf, Phases, InFlush, NoGroup

\* An XADD of the server, with its trimming, keeps Typed.
LEMMA TypeEmit == ASSUME Typed, Emit PROVE Typed'
<1> USE DEF Emit, stores, procVars, bufVars, flushVars, bounds, Typed, TypeOK
<1>1. last' \in 0 .. MaxEvents /\ last' >= last
  BY SMT, CountsAssumption DEF StreamTyped
<1>2. stream' \subseteq 1 .. last'
  BY SMT, <1>1 DEF StreamTyped, Trimmed
<1>3. StreamTyped'
  BY SMT, <1>1, <1>2 DEF StreamTyped
<1>4. StoresTyped' /\ BoundsTyped'
  BY DEF StoresTyped, BoundsTyped
<1>5. ControlTyped' /\ ListsTyped'
  BY DEF ControlTyped, ListsTyped
<1>6. PhaseOK'
  BY DEF PhaseOK, PhaseOf
<1> QED
  BY <1>3, <1>4, <1>5, <1>6

\* An entry that ages keeps Typed.
LEMMA TypeAge == ASSUME Typed, NEW id \in Ids, Age(id) PROVE Typed'
<1> USE DEF Age, stores, procVars, bufVars, flushVars, bounds, Typed, TypeOK
<1>1. StreamTyped' /\ StoresTyped' /\ BoundsTyped'
  BY DEF StreamTyped, StoresTyped, BoundsTyped
<1>2. ControlTyped' /\ ListsTyped'
  BY DEF ControlTyped, ListsTyped
<1>3. PhaseOK'
  BY DEF PhaseOK, PhaseOf
<1> QED
  BY <1>1, <1>2, <1>3

\* The exit from Loop keeps Typed.
LEMMA TypeLoopStop ==
  ASSUME Typed, NEW w \in Workers, LoopStop(w)
  PROVE  Typed'
<1> USE CountsAssumption DEF Typed, TypeOK, LoopStop, streamVars, stores,
      flushVars, bufVars, procVars, bounds, Set
<1>1. StreamTyped'
  BY DEF StreamTyped
<1>2. StoresTyped'
  BY DEF StoresTyped
<1>3. ControlTyped'
  BY DEF ControlTyped, Phases
<1>4. ListsTyped'
  BY DEF ListsTyped
<1>5. BoundsTyped'
  BY DEF BoundsTyped
<1>6. PhaseOK'
  BY DEF PhaseOK, PhaseOf, ControlTyped, ListsTyped, InFlush
<1> QED
  BY <1>1, <1>2, <1>3, <1>4, <1>5, <1>6

\* A failed EnsureDbConnection keeps Typed.
LEMMA TypeLoopNoDb ==
  ASSUME Typed, NEW w \in Workers, LoopNoDb(w)
  PROVE  Typed'
<1> USE CountsAssumption DEF Typed, TypeOK, LoopNoDb, streamVars, stores,
      flushVars, bufVars, procVars, Fault
<1>1. StreamTyped'
  BY DEF StreamTyped
<1>2. StoresTyped'
  BY DEF StoresTyped
<1>3. ControlTyped'
  BY DEF ControlTyped, Phases
<1>4. ListsTyped'
  BY DEF ListsTyped
<1>5. BoundsTyped'
  BY SMT DEF BoundsTyped
<1>6. PhaseOK'
  BY DEF PhaseOK, PhaseOf, ControlTyped, ListsTyped, InFlush
<1> QED
  BY <1>1, <1>2, <1>3, <1>4, <1>5, <1>6

\* The reclaim branch of Loop keeps Typed.
LEMMA TypeLoopReclaim ==
  ASSUME Typed, NEW w \in Workers, LoopReclaim(w)
  PROVE  Typed'
<1> USE CountsAssumption DEF Typed, TypeOK, LoopReclaim, LoopWithDb,
      streamVars, stores, flushVars, bufVars, procVars, bounds, Set
<1>1. StreamTyped'
  BY DEF StreamTyped
<1>2. StoresTyped'
  BY DEF StoresTyped
<1>3. ControlTyped'
  BY DEF ControlTyped, Phases
<1>4. ListsTyped'
  BY DEF ListsTyped
<1>5. BoundsTyped'
  BY DEF BoundsTyped
<1>6. PhaseOK'
  BY DEF PhaseOK, PhaseOf, ControlTyped, ListsTyped, InFlush
<1> QED
  BY <1>1, <1>2, <1>3, <1>4, <1>5, <1>6

\* The read branch of Loop keeps Typed.
LEMMA TypeLoopRead ==
  ASSUME Typed, NEW w \in Workers, LoopRead(w)
  PROVE  Typed'
<1> USE CountsAssumption DEF Typed, TypeOK, LoopRead, LoopWithDb, streamVars,
      stores, flushVars, bufVars, procVars, bounds, Set
<1>1. StreamTyped'
  BY DEF StreamTyped
<1>2. StoresTyped'
  BY DEF StoresTyped
<1>3. ControlTyped'
  BY DEF ControlTyped, Phases
<1>4. ListsTyped'
  BY DEF ListsTyped
<1>5. BoundsTyped'
  BY DEF BoundsTyped
<1>6. PhaseOK'
  BY DEF PhaseOK, PhaseOf, ControlTyped, ListsTyped, InFlush
<1> QED
  BY <1>1, <1>2, <1>3, <1>4, <1>5, <1>6

\* ReclaimPending keeps Typed.
LEMMA TypeReclaim ==
  ASSUME Typed, NEW w \in Workers, Reclaim(w)
  PROVE  Typed'
<1> USE CountsAssumption DEF Typed, TypeOK, Reclaim, stores, flushVars,
      bounds, Set, BufferNext, Claim
<1>t. ClaimTaken(w) \subseteq pel /\ pel \subseteq Ids
  BY SMT DEF ClaimTaken, Oldest, StreamTyped, Ids
<1>c. cursor' \in [Workers -> 0 .. MaxEvents]
  <2>1. ClaimCursor(w, ClaimTaken(w)) \subseteq 0 .. MaxEvents
    BY <1>t, CursorType
  <2> QED
    BY <2>1 DEF ControlTyped
<1>r. PICK r \in Reply(ClaimTaken(w) \intersect stream) : BufferNext(w, r, "read")
  OBVIOUS
<1>s. r \in Seq(Ids)
  <2>1. r \in Seq(ClaimTaken(w) \intersect stream)
    BY <1>t, ReplySeq DEF Ids
  <2> QED
    BY SMT, <2>1, <1>t, SeqMonotonic
<1>1. StreamTyped'
  BY DEF StreamTyped
<1>2. StoresTyped'
  BY DEF StoresTyped
<1>3. ControlTyped'
  BY <1>c, <1>r DEF ControlTyped, Phases
<1>4. ListsTyped'
  BY <1>r, <1>s DEF ListsTyped
<1>5. BoundsTyped'
  BY DEF BoundsTyped
<1>6. PhaseOK'
  BY <1>r, <1>s DEF PhaseOK, PhaseOf, ControlTyped, ListsTyped, InFlush
<1> QED
  BY <1>1, <1>2, <1>3, <1>4, <1>5, <1>6

\* A failed XAUTOCLAIM keeps Typed.
LEMMA TypeReclaimFails ==
  ASSUME Typed, NEW w \in Workers, ReclaimFails(w)
  PROVE  Typed'
<1> USE CountsAssumption DEF Typed, TypeOK, ReclaimFails, stores, flushVars,
      bufVars, Set, Fault, NoFault, Claim
<1>1. StreamTyped'
  BY DEF StreamTyped
<1>2. StoresTyped'
  BY DEF StoresTyped
<1>3. ControlTyped'
  BY DEF ControlTyped, Phases
<1>4. ListsTyped'
  BY DEF ListsTyped
<1>5. BoundsTyped'
  BY SMT DEF BoundsTyped
<1>6. PhaseOK'
  BY DEF PhaseOK, PhaseOf, ControlTyped, ListsTyped, InFlush
<1> QED
  BY <1>1, <1>2, <1>3, <1>4, <1>5, <1>6

\* XREADGROUP keeps Typed.
LEMMA TypeRead ==
  ASSUME Typed, NEW w \in Workers, Read(w)
  PROVE  Typed'
<1> USE CountsAssumption DEF Typed, TypeOK, Read, stores, flushVars, procVars,
      bounds, BufferNext, Set, Deliver
<1>r. /\ ReadTaken \subseteq 1 .. last
      /\ \A i \in ReadTaken : i > delivered
  BY DEF ReadTaken, Oldest, StreamTyped
<1>d. delivered' \in 0 .. last /\ delivered' >= delivered /\ pel' \subseteq 1 .. delivered'
  BY SMT, <1>r DEF StreamTyped
<1>p. PICK r \in Reply(ReadTaken) : BufferNext(w, r, "tick")
  OBVIOUS
<1>s. r \in Seq(Ids)
  <2>1. last \in Nat /\ ReadTaken \subseteq Ids
    BY SMT, <1>r DEF StreamTyped, Ids
  <2>2. r \in Seq(ReadTaken)
    BY <1>r, <2>1, ReplySeq
  <2> QED
    BY <2>1, <2>2, SeqMonotonic
<1>1. StreamTyped'
  BY <1>d DEF StreamTyped
<1>2. StoresTyped'
  BY DEF StoresTyped
<1>3. ControlTyped'
  BY <1>p DEF ControlTyped, Phases
<1>4. ListsTyped'
  BY <1>p, <1>s DEF ListsTyped
<1>5. BoundsTyped'
  BY DEF BoundsTyped
<1>6. PhaseOK'
  BY <1>p, <1>s DEF PhaseOK, PhaseOf, ControlTyped, ListsTyped, InFlush
<1> QED
  BY <1>1, <1>2, <1>3, <1>4, <1>5, <1>6

\* A failed XREADGROUP keeps Typed.
LEMMA TypeReadFails ==
  ASSUME Typed, NEW w \in Workers, ReadFails(w)
  PROVE  Typed'
<1> USE CountsAssumption DEF Typed, TypeOK, ReadFails, stores, flushVars,
      bufVars, procVars, Set, Fault, NoFault, Deliver
<1>r. ReadTaken \subseteq 1 .. last /\ \A i \in ReadTaken : i > delivered
  BY DEF ReadTaken, Oldest, StreamTyped
<1>d. delivered' \in 0 .. last /\ delivered' >= delivered /\ pel' \subseteq 1 .. delivered'
  <2>1. CASE Deliver(ReadTaken)
    BY SMT, <2>1, <1>r DEF StreamTyped
  <2>2. CASE UNCHANGED <<pel, delivered>>
    BY SMT, <2>2 DEF StreamTyped
  <2> QED
    BY <2>1, <2>2
<1>e. pel \subseteq pel'
  OBVIOUS
<1>1. StreamTyped'
  BY <1>d, <1>e DEF StreamTyped
<1>2. StoresTyped'
  BY DEF StoresTyped
<1>3. ControlTyped'
  BY DEF ControlTyped, Phases
<1>4. ListsTyped'
  BY DEF ListsTyped
<1>5. BoundsTyped'
  BY SMT DEF BoundsTyped
<1>6. PhaseOK'
  BY DEF PhaseOK, PhaseOf, ControlTyped, ListsTyped, InFlush
<1> QED
  BY <1>1, <1>2, <1>3, <1>4, <1>5, <1>6

\* Appending an entry to the batch keeps Typed.
LEMMA TypeBufferEntry ==
  ASSUME Typed, NEW w \in Workers, BufferEntry(w)
  PROVE  Typed'
<1> USE CountsAssumption DEF Typed, TypeOK, BufferEntry, streamVars, stores,
      flushVars, procVars, bounds, Set
<1>h. /\ incoming[w] \in Seq(Ids) /\ incoming[w] # <<>> /\ Head(incoming[w]) \in Ids
      /\ Tail(incoming[w]) \in Seq(Ids) /\ (Len(incoming[w]) # 1 => Tail(incoming[w]) # <<>>)
  BY HeadTail DEF ListsTyped, PhaseOK, PhaseOf
<1>a. /\ Append(buf[w], Head(incoming[w])) \in Seq(Ids)
      /\ Append(buf[w], Head(incoming[w])) # <<>>
  <2>1. buf[w] \in Seq(Ids)
    BY DEF ListsTyped
  <2> QED
    BY ONLY <1>h, <2>1, AppendList
<1>n. pc'[w] \in {"flush", "buffer", "read", "tick", "loop"}
  BY DEF ControlTyped
<1>1. StreamTyped'
  BY DEF StreamTyped
<1>2. StoresTyped'
  BY DEF StoresTyped
<1>3. ControlTyped'
  BY DEF ControlTyped, Phases
<1>4. ListsTyped'
  BY <1>h, <1>a DEF ListsTyped
<1>5. BoundsTyped'
  BY DEF BoundsTyped
<1>6. PhaseOK'
  <2> SUFFICES ASSUME NEW x \in Workers PROVE PhaseOf(x)'
    BY DEF PhaseOK
  <2>1. CASE x = w
    <3>1. buf'[w] # <<>>
      BY <1>a DEF ListsTyped
    <3>2. pc'[w] = "buffer" => incoming'[w] # <<>>
      BY <1>h DEF ListsTyped, ControlTyped
    <3> QED
      BY <2>1, <3>1, <3>2, <1>n DEF PhaseOf
  <2>2. CASE x # w
    BY <2>2 DEF PhaseOK, PhaseOf, ControlTyped, ListsTyped
  <2> QED
    BY <2>1, <2>2
<1> QED
  BY <1>1, <1>2, <1>3, <1>4, <1>5, <1>6

\* A due flush keeps Typed.
LEMMA TypeTickFlush ==
  ASSUME Typed, NEW w \in Workers, TickFlush(w)
  PROVE  Typed'
<1> USE CountsAssumption DEF Typed, TypeOK, TickFlush, streamVars, stores,
      flushVars, procVars, bounds, Set
<1>1. StreamTyped'
  BY DEF StreamTyped
<1>2. StoresTyped'
  BY DEF StoresTyped
<1>3. ControlTyped'
  BY DEF ControlTyped, Phases
<1>4. ListsTyped'
  BY DEF ListsTyped
<1>5. BoundsTyped'
  BY DEF BoundsTyped
<1>6. PhaseOK'
  BY DEF PhaseOK, PhaseOf, ControlTyped, ListsTyped, InFlush
<1> QED
  BY <1>1, <1>2, <1>3, <1>4, <1>5, <1>6

\* A batch that is not due keeps Typed.
LEMMA TypeTickWait ==
  ASSUME Typed, NEW w \in Workers, TickWait(w)
  PROVE  Typed'
<1> USE CountsAssumption DEF Typed, TypeOK, TickWait, streamVars, stores,
      flushVars, bufVars, procVars, bounds, Set
<1>1. StreamTyped'
  BY DEF StreamTyped
<1>2. StoresTyped'
  BY DEF StoresTyped
<1>3. ControlTyped'
  BY DEF ControlTyped, Phases
<1>4. ListsTyped'
  BY DEF ListsTyped
<1>5. BoundsTyped'
  BY DEF BoundsTyped
<1>6. PhaseOK'
  BY DEF PhaseOK, PhaseOf, ControlTyped, ListsTyped, InFlush
<1> QED
  BY <1>1, <1>2, <1>3, <1>4, <1>5, <1>6

\* The head of an attempt of Flush keeps Typed.
LEMMA TypeBeginAttempt ==
  ASSUME Typed, NEW w \in Workers, BeginAttempt(w)
  PROVE  Typed'
<1> USE CountsAssumption DEF Typed, TypeOK, BeginAttempt, streamVars, stores,
      bufVars, procVars, bounds, Set
<1>1. StreamTyped'
  BY DEF StreamTyped
<1>2. StoresTyped'
  BY DEF StoresTyped
<1>3. ControlTyped'
  BY DEF ControlTyped, Phases
<1>4. ListsTyped'
  BY DEF ListsTyped
<1>5. BoundsTyped'
  BY DEF BoundsTyped
<1>6. PhaseOK'
  BY DEF PhaseOK, PhaseOf, ControlTyped, ListsTyped, InFlush
<1> QED
  BY <1>1, <1>2, <1>3, <1>4, <1>5, <1>6

\* An attempt without a connection keeps Typed.
LEMMA TypeAttemptNotReady ==
  ASSUME Typed, NEW w \in Workers, AttemptNotReady(w)
  PROVE  Typed'
<1> USE CountsAssumption DEF Typed, TypeOK, AttemptNotReady, streamVars,
      stores, procVars, bounds, Set
<1>a. ControlTyped' /\ ListsTyped' /\ PhaseOK'
  BY EndAttemptTyped DEF ControlTyped, InFlush
<1>1. StreamTyped'
  BY DEF StreamTyped
<1>2. StoresTyped'
  BY DEF StoresTyped
<1>3. BoundsTyped'
  BY DEF BoundsTyped
<1> QED
  BY <1>1, <1>2, <1>3, <1>a

\* A successful ProcessEntry keeps Typed.
LEMMA TypeInsertEntry ==
  ASSUME Typed, NEW w \in Workers, InsertEntry(w)
  PROVE  Typed'
<1> USE CountsAssumption DEF Typed, TypeOK, InsertEntry, streamVars, stores,
      bufVars, procVars, bounds, Set
<1>h. todo[w] \in Seq(Ids) /\ todo[w] # <<>> /\ Head(todo[w]) \in Ids
  BY HeadTail DEF ListsTyped, PhaseOK, PhaseOf
<1>i. /\ ackIds' \in [Workers -> Seq(Ids)]
      /\ \A x \in Workers : x # w => ackIds'[x] = ackIds[x]
  BY <1>h, AppendList DEF ListsTyped
<1>a. ControlTyped' /\ ListsTyped' /\ PhaseOK'
  BY <1>i, NextEntryTyped
<1>1. StreamTyped'
  BY DEF StreamTyped
<1>2. StoresTyped'
  BY DEF StoresTyped
<1>3. BoundsTyped'
  BY DEF BoundsTyped
<1> QED
  BY <1>1, <1>2, <1>3, <1>a

\* A failed ProcessEntry keeps Typed.
LEMMA TypeRejectEntry ==
  ASSUME Typed, NEW w \in Workers, RejectEntry(w)
  PROVE  Typed'
<1> USE CountsAssumption DEF Typed, TypeOK, RejectEntry, streamVars, stores,
      bufVars, procVars, Set, Fault, NoFault
<1>a. ControlTyped' /\ ListsTyped' /\ PhaseOK'
  <2>1. CASE w \in DlqOnError \union AckOnError
    BY <2>1 DEF ControlTyped, ListsTyped, PhaseOK, PhaseOf, Phases, InFlush
  <2>2. CASE w \notin DlqOnError \union AckOnError
    <3>1. NextEntry(w) /\ UNCHANGED ackIds
      BY <2>2
    <3> QED
      BY <3>1, NextEntryTyped DEF ListsTyped
  <2> QED
    BY <2>1, <2>2
<1>1. StreamTyped'
  BY DEF StreamTyped
<1>2. StoresTyped'
  BY DEF StoresTyped
<1>3. BoundsTyped'
  BY SMT DEF BoundsTyped
<1> QED
  BY <1>1, <1>2, <1>3, <1>a

\* SendToDlq keeps Typed.
LEMMA TypeSendToDlq ==
  ASSUME Typed, NEW w \in Workers, SendToDlq(w)
  PROVE  Typed'
<1> USE CountsAssumption DEF Typed, TypeOK, SendToDlq, streamVars, flushVars,
      bufVars, procVars, Set, Fault, NoFault
<1>h. todo[w] \in Seq(Ids) /\ todo[w] # <<>> /\ Head(todo[w]) \in Ids
  BY HeadTail DEF ListsTyped, PhaseOK, PhaseOf
<1>d. dlq' \in Seq([orig : Ids, retry : Nat])
  <2>1. [orig |-> Head(todo[w]), retry |-> 0] \in [orig : Ids, retry : Nat]
    BY <1>h
  <2>2. Append(dlq, [orig |-> Head(todo[w]), retry |-> 0]) \in Seq([orig : Ids, retry : Nat])
    BY <2>1, AppendList DEF StoresTyped
  <2> QED
    BY <2>2 DEF StoresTyped
<1>1. StreamTyped'
  BY DEF StreamTyped
<1>2. StoresTyped'
  BY <1>d DEF StoresTyped
<1>3. ControlTyped'
  BY DEF ControlTyped, Phases
<1>4. ListsTyped'
  BY DEF ListsTyped
<1>5. BoundsTyped'
  BY SMT DEF BoundsTyped
<1>6. PhaseOK'
  BY DEF PhaseOK, PhaseOf, ControlTyped, ListsTyped, InFlush
<1> QED
  BY <1>1, <1>2, <1>3, <1>4, <1>5, <1>6

\* The Ack after SendToDlq keeps Typed.
LEMMA TypeAckDlqed ==
  ASSUME Typed, NEW w \in Workers, AckDlqed(w)
  PROVE  Typed'
<1> USE CountsAssumption DEF Typed, TypeOK, AckDlqed, stores, bufVars,
      procVars, Set, Ack, Fault, NoFault
<1>a. ControlTyped' /\ ListsTyped' /\ PhaseOK'
  BY NextEntryTyped DEF ListsTyped
<1>1. StreamTyped'
  BY DEF StreamTyped
<1>2. StoresTyped'
  BY DEF StoresTyped
<1>3. BoundsTyped'
  BY SMT DEF BoundsTyped
<1> QED
  BY <1>1, <1>2, <1>3, <1>a

\* The Ack of ack_on_error keeps Typed.
LEMMA TypeAckDropped ==
  ASSUME Typed, NEW w \in Workers, AckDropped(w)
  PROVE  Typed'
<1> USE CountsAssumption DEF Typed, TypeOK, AckDropped, bufVars, procVars,
      Set, Ack, Fault, NoFault
<1>h. todo[w] \in Seq(Ids) /\ todo[w] # <<>> /\ Head(todo[w]) \in Ids
  BY HeadTail DEF ListsTyped, PhaseOK, PhaseOf
<1>a. ControlTyped' /\ ListsTyped' /\ PhaseOK'
  BY NextEntryTyped DEF ListsTyped
<1>1. StreamTyped'
  BY DEF StreamTyped
<1>2. StoresTyped'
  BY <1>h DEF StoresTyped
<1>3. BoundsTyped'
  BY SMT DEF BoundsTyped
<1> QED
  BY <1>1, <1>2, <1>3, <1>a

\* tx.commit() keeps Typed.
LEMMA TypeCommit ==
  ASSUME Typed, NEW w \in Workers, Commit(w)
  PROVE  Typed'
<1> USE CountsAssumption DEF Typed, TypeOK, Commit, streamVars, flushVars,
      procVars, bounds, Set
<1>d. SeqRange(ackIds[w]) \subseteq Ids
  BY SMT, ElementOfSeq DEF ListsTyped, SeqRange
<1>a. ControlTyped' /\ ListsTyped' /\ PhaseOK'
  <2>1. CASE ackIds[w] = <<>>
    BY <2>1, EndFlushTyped DEF ControlTyped
  <2>2. CASE ackIds[w] # <<>>
    BY <2>2 DEF ControlTyped, ListsTyped, PhaseOK, PhaseOf, Phases, InFlush
  <2> QED
    BY <2>1, <2>2
<1>1. StreamTyped'
  BY DEF StreamTyped
<1>2. StoresTyped'
  BY <1>d DEF StoresTyped
<1>3. BoundsTyped'
  BY DEF BoundsTyped
<1> QED
  BY <1>1, <1>2, <1>3, <1>a

\* An exception of the transaction keeps Typed.
LEMMA TypeTxThrows ==
  ASSUME Typed, NEW w \in Workers, TxThrows(w)
  PROVE  Typed'
<1> USE CountsAssumption DEF Typed, TypeOK, TxThrows, streamVars, procVars,
      Set, Fault
<1>d. SeqRange(ackIds[w]) \subseteq Ids
  BY SMT, ElementOfSeq DEF ListsTyped, SeqRange
<1>c. conn' \in [Workers -> BOOLEAN]
  BY DEF ControlTyped
<1>a. ControlTyped' /\ ListsTyped' /\ PhaseOK'
  BY <1>c, EndAttemptTyped DEF InFlush
<1>1. StreamTyped'
  BY DEF StreamTyped
<1>2. StoresTyped'
  BY <1>d DEF StoresTyped
<1>3. BoundsTyped'
  BY SMT DEF BoundsTyped
<1> QED
  BY <1>1, <1>2, <1>3, <1>a

\* The Ack after a commit keeps Typed.
LEMMA TypeAckCommitted ==
  ASSUME Typed, NEW w \in Workers, AckCommitted(w)
  PROVE  Typed'
<1> USE CountsAssumption DEF Typed, TypeOK, AckCommitted, stores, procVars,
      Set, Ack, Fault, NoFault
<1>h. ackIds[w] \in Seq(Ids) /\ ackIds[w] # <<>>
  BY DEF ListsTyped, PhaseOK, PhaseOf
<1>a. ControlTyped' /\ ListsTyped' /\ PhaseOK'
  <2>1. CASE Len(ackIds[w]) = 1
    BY <2>1, EndFlushTyped DEF ControlTyped
  <2>2. CASE Len(ackIds[w]) # 1
    <3>1. Tail(ackIds[w]) \in Seq(Ids) /\ Tail(ackIds[w]) # <<>>
      BY <1>h, <2>2, HeadTail
    <3>2. ControlTyped' /\ ListsTyped'
      BY <2>2, <3>1 DEF ControlTyped, ListsTyped
    <3>3. PhaseOK'
      BY <2>2, <3>1 DEF PhaseOK, PhaseOf, ListsTyped
    <3> QED
      BY <3>2, <3>3
  <2> QED
    BY <2>1, <2>2
<1>1. StreamTyped'
  BY DEF StreamTyped
<1>2. StoresTyped'
  BY DEF StoresTyped
<1>3. BoundsTyped'
  BY SMT DEF BoundsTyped
<1> QED
  BY <1>1, <1>2, <1>3, <1>a

\* Run keeps Typed.
LEMMA TypeStart ==
  ASSUME Typed, NEW w \in Workers, Start(w)
  PROVE  Typed'
<1> USE CountsAssumption DEF Typed, TypeOK, Start, stores, flushVars, Set,
      Fault, NoFault, CreateGroup
<1>1. StreamTyped'
  BY SMT DEF StreamTyped
<1>2. StoresTyped'
  BY DEF StoresTyped
<1>3. ControlTyped'
  <2>1. conn' \in [Workers -> BOOLEAN]
    BY DEF ControlTyped
  <2>2. pc' \in [Workers -> Phases]
    BY DEF ControlTyped, Phases
  <2>3. stopReq' \in [Workers -> BOOLEAN] /\ first' \in [Workers -> BOOLEAN]
    BY DEF ControlTyped
  <2>4. cursor' \in [Workers -> 0 .. MaxEvents]
    BY SMT DEF ControlTyped
  <2> QED
    BY <2>1, <2>2, <2>3, <2>4 DEF ControlTyped
<1>4. ListsTyped'
  BY EmptyList DEF ListsTyped
<1>5. BoundsTyped'
  BY SMT DEF BoundsTyped
<1>6. PhaseOK'
  BY DEF PhaseOK, PhaseOf, ControlTyped, ListsTyped, InFlush
<1> QED
  BY <1>1, <1>2, <1>3, <1>4, <1>5, <1>6

\* SIGTERM keeps Typed.
LEMMA TypeRequestStop ==
  ASSUME Typed, NEW w \in Workers, RequestStop(w)
  PROVE  Typed'
<1> USE CountsAssumption DEF Typed, TypeOK, RequestStop, streamVars, stores,
      flushVars, bufVars, Set
<1>1. StreamTyped'
  BY DEF StreamTyped
<1>2. StoresTyped'
  BY DEF StoresTyped
<1>3. ControlTyped'
  BY DEF ControlTyped, Phases
<1>4. ListsTyped'
  BY DEF ListsTyped
<1>5. BoundsTyped'
  BY SMT DEF BoundsTyped
<1>6. PhaseOK'
  BY DEF PhaseOK, PhaseOf, ControlTyped, ListsTyped, InFlush
<1> QED
  BY <1>1, <1>2, <1>3, <1>4, <1>5, <1>6

\* A crash keeps Typed.
LEMMA TypeCrash ==
  ASSUME Typed, NEW w \in Workers, Crash(w)
  PROVE  Typed'
<1> USE CountsAssumption DEF Typed, TypeOK, Crash, streamVars, stores, Set
<1>1. StreamTyped'
  BY DEF StreamTyped
<1>2. StoresTyped'
  BY DEF StoresTyped
<1>3. ControlTyped'
  BY SMT DEF ControlTyped, Phases
<1>4. ListsTyped'
  BY EmptyList DEF ListsTyped
<1>5. BoundsTyped'
  BY SMT DEF BoundsTyped
<1>6. PhaseOK'
  BY DEF PhaseOK, PhaseOf, ControlTyped, ListsTyped, InFlush
<1> QED
  BY <1>1, <1>2, <1>3, <1>4, <1>5, <1>6

\* Every step keeps Typed.
LEMMA TypeStep == ASSUME Typed, [Next]_vars PROVE Typed'
<1>1. CASE UNCHANGED vars
  <2> USE <1>1 DEF vars, streamVars, stores, procVars, bufVars,
        flushVars, bounds, Typed, TypeOK
  <2>1. StreamTyped' /\ StoresTyped' /\ BoundsTyped'
    BY DEF StreamTyped, StoresTyped, BoundsTyped
  <2>2. ControlTyped' /\ ListsTyped'
    BY DEF ControlTyped, ListsTyped
  <2>3. PhaseOK'
    BY DEF PhaseOK, PhaseOf
  <2> QED
    BY <2>1, <2>2, <2>3
<1>2. CASE Emit
  BY <1>2, TypeEmit
<1>3. ASSUME NEW id \in Ids, Age(id) PROVE Typed'
  BY <1>3, TypeAge
<1>4. ASSUME NEW w \in Workers, WorkerStep(w) PROVE Typed'
  BY <1>4, TypeLoopStop, TypeLoopNoDb, TypeLoopReclaim, TypeLoopRead,
    TypeReclaim, TypeReclaimFails, TypeRead, TypeReadFails,
    TypeBufferEntry, TypeTickFlush, TypeTickWait, TypeBeginAttempt,
    TypeAttemptNotReady, TypeInsertEntry, TypeRejectEntry, TypeSendToDlq,
    TypeAckDlqed, TypeAckDropped, TypeCommit, TypeTxThrows,
    TypeAckCommitted DEF WorkerStep
<1>5. ASSUME NEW w \in Workers, Start(w) \/ RequestStop(w) \/ Crash(w)
      PROVE  Typed'
  BY <1>5, TypeStart, TypeRequestStop, TypeCrash
<1> QED
  BY <1>1, <1>2, <1>3, <1>4, <1>5 DEF Next

\* Every variable has its type and no step takes the head of an empty list:
\* Flush runs only on a batch with entries, its loop only on entries left.
THEOREM TypeCorrect == Spec => []Typed
BY TypeStep, TypeInit, PTL DEF Spec

=============================================================================
