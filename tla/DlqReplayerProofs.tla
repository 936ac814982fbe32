-------------------------- MODULE DlqReplayerProofs -------------------------
(***************************************************************************)
(* The replayer of the dead letter queue loses nothing and keeps its retry *)
(* budget, for any events, batch size, budget, faults and crashes.         *)
(*                                                                         *)
(* ReplayKeepsEvery is not inductive: it says nothing of the entry that is *)
(* about to be acknowledged.  AckSafe adds that what the replayer is about *)
(* to acknowledge is stored, or has been added again behind the position   *)
(* the group has delivered.  RetryBounded needs what HandleFailure has     *)
(* found before RetryLater runs: RetryAllowed.                             *)
(***************************************************************************)
EXTENDS DlqReplayer, SequenceTheorems, TLAPS

\* ProcessEntry has an entry.
InHand == rpc \in {"entry", "retry", "dead", "ack"} => batch # <<>>
\* HandleFailure chose RetryLater.
RetryAllowed == rpc = "retry" => Cur.retry + 1 < RRetryMax
\* The XACK of the entry in hand loses nothing.
AckSafe ==
  rpc = "ack" => \/ Cur.orig \in db \union dead
                 \/ \E i \in 1 .. Len(dlq) : i > rdelivered /\ dlq[i].orig = Cur.orig

RTyped == RTypeOK /\ InHand
RSafe == ReplayKeepsEvery /\ RetryBounded /\ RetryAllowed /\ AckSafe
RInv == RTyped /\ RSafe

Entries == [orig : Events, retry : Nat]
\* The DLQ is only added to.
DlqGrows == dlq' = dlq \/ \E e \in Entries : dlq' = Append(dlq, e)
\* What leaves the pending list is stored, or is in the DLQ again.
LeavesKept ==
  \A k \in rpel : \/ k \in rpel' \/ dlq[k].orig \in db' \union dead'
                  \/ \E i \in 1 .. Len(dlq') : i > rdelivered /\ dlq'[i].orig = dlq[k].orig
\* What a worker does, seen by the replayer.
Outside ==
  /\ db \subseteq db' /\ db' \subseteq Events
  /\ dlq' = dlq \/ \E e \in Events : dlq' = Append(dlq, [orig |-> e, retry |-> 0])
  /\ UNCHANGED <<dead, rgroupVars, rpc, rconn, batch, short, rbounds>>

-----------------------------------------------------------------------------
(* Lists. *)

\* The entry in hand is an entry of the DLQ.
LEMMA CurTyped ==
  ASSUME RTypeOK, batch # <<>>
  PROVE  /\ Head(batch) \in 1 .. rdelivered /\ Head(batch) \in 1 .. Len(dlq)
         /\ Cur \in Entries /\ Cur.orig \in Events /\ Cur.retry \in Nat
<1>1. Head(batch) \in 1 .. rdelivered
  BY HeadTailProperties DEF RTypeOK
<1>2. Head(batch) \in 1 .. Len(dlq)
  BY <1>1 DEF RTypeOK
<1>3. dlq \in Seq(Entries)
  BY DEF RTypeOK, Entries
<1>4. Cur \in Entries
  BY <1>2, <1>3, ElementOfSeq DEF Cur
<1> QED
  BY <1>1, <1>2, <1>4 DEF Entries

\* The end of ProcessEntry.
LEMMA EntryDoneTyped ==
  ASSUME RTypeOK, batch # <<>>, EntryDone
  PROVE  /\ batch' \in Seq(1 .. rdelivered)
         /\ rpc' \in {"entry", "down", "loop"}
         /\ rpc' = "entry" => batch' # <<>>
<1>1. /\ Len(batch) \in Nat /\ Tail(batch) \in Seq(1 .. rdelivered)
      /\ Len(Tail(batch)) = Len(batch) - 1
  BY HeadTailProperties, LenProperties DEF RTypeOK
<1>2. Len(batch) > 1 => Len(Tail(batch)) # 0
  BY <1>1
<1>3. Len(batch) > 1 => Tail(batch) # <<>>
  BY <1>2, EmptySeq
<1> QED
  BY <1>1, <1>3 DEF EntryDone

\* An XADD to the DLQ adds an entry at its end.
LEMMA Added ==
  ASSUME RTypeOK, DlqGrows
  PROVE  /\ dlq' \in Seq(Entries) /\ Len(dlq) \in Nat /\ Len(dlq') \in Nat
         /\ Len(dlq) <= Len(dlq')
         /\ \A i \in 1 .. Len(dlq) : dlq'[i] = dlq[i]
         /\ \A i \in 1 .. Len(dlq') : i \in 1 .. Len(dlq) \/ i = Len(dlq) + 1
<1>1. dlq \in Seq(Entries) /\ Len(dlq) \in Nat
  BY LenProperties DEF RTypeOK, Entries
<1>2. CASE dlq' = dlq
  BY <1>1, <1>2
<1>3. ASSUME NEW e \in Entries, dlq' = Append(dlq, e)
      PROVE  /\ dlq' \in Seq(Entries) /\ Len(dlq') = Len(dlq) + 1
             /\ \A i \in 1 .. Len(dlq) : dlq'[i] = dlq[i]
  BY <1>1, <1>3, AppendProperties
<1> QED
  BY <1>1, <1>2, <1>3 DEF DlqGrows

\* The last of the entries is the added one.
LEMMA AddedLast ==
  ASSUME RTypeOK, NEW e \in Entries, dlq' = Append(dlq, e)
  PROVE  Len(dlq') = Len(dlq) + 1 /\ dlq'[Len(dlq) + 1] = e
BY AppendProperties DEF RTypeOK, Entries

\* The size of a reply.
LEMMA UnreadTyped ==
  ASSUME RTypeOK
  PROVE  Unread \in Nat /\ rdelivered + Unread \in 0 .. Len(dlq)
<1>1. Len(dlq) \in Nat /\ rdelivered \in 0 .. Len(dlq)
  BY LenProperties DEF RTypeOK
<1> QED
  BY <1>1, ReplayerCounts DEF Unread, Smaller

-----------------------------------------------------------------------------
\* What the group has not acknowledged stays, whatever is added.
LEMMA KeepsEvery ==
  ASSUME RTypeOK, ReplayKeepsEvery, DlqGrows, LeavesKept,
         db \subseteq db', dead \subseteq dead', rgroup' = rgroup, rdelivered' = rdelivered
  PROVE  ReplayKeepsEvery'
<1> SUFFICES ASSUME NEW i \in 1 .. Len(dlq'), i > rgroup
             PROVE  \/ dlq'[i].orig \in db' \union dead'
                    \/ \E j \in 1 .. Len(dlq') :
                         dlq'[j].orig = dlq'[i].orig /\ (j > rdelivered' \/ j \in rpel')
  BY DEF ReplayKeepsEvery, LiveCopy
<1>0. rdelivered \in 0 .. Len(dlq)
  BY DEF RTypeOK
<1>1. CASE i \notin 1 .. Len(dlq)
  <2>1. i > rdelivered
    BY <1>0, <1>1, Added
  <2> QED
    BY <2>1
<1>2. CASE i \in 1 .. Len(dlq)
  <2>1. dlq'[i].orig = dlq[i].orig
    BY <1>2, Added
  <2>2. CASE dlq[i].orig \in db \union dead
    BY <2>1, <2>2
  <2>3. CASE LiveCopy(dlq[i].orig)
    <3>1. PICK j \in 1 .. Len(dlq) :
            dlq[j].orig = dlq[i].orig /\ (j > rdelivered \/ j \in rpel)
      BY <2>3 DEF LiveCopy
    <3>2. j \in 1 .. Len(dlq') /\ dlq'[j].orig = dlq'[i].orig
      BY <2>1, <3>1, Added
    <3>3. CASE j > rdelivered \/ j \in rpel'
      BY <3>2, <3>3
    <3>4. CASE j \in rpel /\ j \notin rpel'
      <4>1. \/ dlq[j].orig \in db' \union dead'
            \/ \E k \in 1 .. Len(dlq') : k > rdelivered /\ dlq'[k].orig = dlq[j].orig
        BY <3>4 DEF LeavesKept
      <4> QED
        BY <4>1, <3>1, <2>1
    <3> QED
      BY <3>1, <3>3, <3>4
  <2> QED
    BY <1>2, <2>2, <2>3 DEF ReplayKeepsEvery
<1> QED
  BY <1>1, <1>2

\* A delivery moves entries from the undelivered to the pending ones.
LEMMA DeliverKeepsEvery ==
  ASSUME RTypeOK, ReplayKeepsEvery, RDeliver(Unread), UNCHANGED <<db, dlq, dead, rgroup>>
  PROVE  /\ ReplayKeepsEvery' /\ rdelivered' \in 0 .. Len(dlq) /\ rpel' \subseteq 1 .. rdelivered'
<1>1. Len(dlq) \in Nat /\ rdelivered \in 0 .. Len(dlq) /\ rpel \subseteq 1 .. rdelivered
  BY LenProperties DEF RTypeOK
<1>2. rdelivered' = rdelivered + Unread /\ Unread \in Nat /\ rdelivered' \in 0 .. Len(dlq)
  BY UnreadTyped DEF RDeliver
<1>3. rpel' \subseteq 1 .. rdelivered'
  BY <1>1, <1>2 DEF RDeliver
<1>4. ASSUME NEW e, LiveCopy(e) PROVE LiveCopy(e)'
  <2>1. PICK j \in 1 .. Len(dlq) : dlq[j].orig = e /\ (j > rdelivered \/ j \in rpel)
    BY <1>4 DEF LiveCopy
  <2>2. j > rdelivered' \/ j \in rpel'
    BY <1>1, <1>2, <2>1 DEF RDeliver
  <2> QED
    BY <2>1, <2>2 DEF LiveCopy
<1> QED
  BY <1>2, <1>3, <1>4 DEF ReplayKeepsEvery

\* A fault, a rejected statement or neither stays within the bounds.
LEMMA CountsTyped ==
  ASSUME RTypeOK, RFault \/ RReject \/ UNCHANGED rbounds
  PROVE  /\ rejects' \in 0 .. MaxRejects /\ rfaults' \in 0 .. MaxRFaults
         /\ rcrashes' \in 0 .. MaxRCrashes
BY ReplayerCounts DEF RTypeOK, RFault, RReject, rbounds

\* The entries of the DLQ keep the budget when the added one does.
LEMMA BudgetKept ==
  ASSUME RTypeOK, RetryBounded, NEW e \in Entries, dlq' = Append(dlq, e),
         e.retry = 0 \/ e.retry < RRetryMax
  PROVE  RetryBounded'
<1>1. DlqGrows
  BY DEF DlqGrows
<1> SUFFICES ASSUME NEW i \in 1 .. Len(dlq')
             PROVE  dlq'[i].retry = 0 \/ dlq'[i].retry < RRetryMax
  BY DEF RetryBounded
<1>2. CASE i \in 1 .. Len(dlq)
  BY <1>1, <1>2, Added DEF RetryBounded
<1>3. CASE i = Len(dlq) + 1
  BY <1>3, AddedLast
<1> QED
  BY <1>1, <1>2, <1>3, Added

\* A worker's commits and dead letters leave the replayer's invariant alone.
LEMMA OutsideKeeps == ASSUME RInv, Outside PROVE RInv'
<1> USE DEF RInv, RTyped, RSafe
<1>1. DlqGrows
  BY DEF Outside, DlqGrows, Entries
<1>2. RTypeOK'
  <2>1. /\ dlq' \in Seq(Entries) /\ rdelivered' \in 0 .. Len(dlq')
        /\ rgroup' \in {NoGroup} \union (0 .. Len(dlq'))
    BY <1>1, Added DEF RTypeOK, Outside, rgroupVars
  <2>2. batch' \in Seq(1 .. rdelivered') /\ rpel' \subseteq 1 .. rdelivered'
    BY DEF RTypeOK, Outside, rgroupVars
  <2> QED
    BY <2>1, <2>2 DEF RTypeOK, Outside, rgroupVars, rbounds, Entries
<1>3. InHand'
  BY DEF InHand, Outside
<1>4. LeavesKept
  BY DEF LeavesKept, Outside, rgroupVars
<1>5. ReplayKeepsEvery'
  BY <1>1, <1>4, KeepsEvery DEF Outside, rgroupVars
<1>6. RetryBounded'
  <2>1. ASSUME NEW e \in Events, dlq' = Append(dlq, [orig |-> e, retry |-> 0])
        PROVE  RetryBounded'
    BY <2>1, BudgetKept DEF Entries
  <2> QED
    BY <2>1 DEF Outside, RetryBounded
<1>7. batch # <<>> => Head(batch) \in 1 .. Len(dlq) /\ dlq'[Head(batch)] = dlq[Head(batch)]
  BY <1>1, CurTyped, Added
<1>8. RetryAllowed'
  BY <1>7 DEF RetryAllowed, InHand, Cur, Outside
<1>9. AckSafe'
  <2> SUFFICES ASSUME rpc = "ack" PROVE AckSafe'
    BY DEF AckSafe, Outside
  <2>1. batch' = batch /\ dlq'[Head(batch)] = dlq[Head(batch)]
    BY <1>7 DEF InHand, Outside
  <2>2. CASE Cur.orig \in db \union dead
    BY <2>1, <2>2 DEF AckSafe, Cur, Outside
  <2>3. ASSUME NEW i \in 1 .. Len(dlq), i > rdelivered, dlq[i].orig = Cur.orig
        PROVE  AckSafe'
    <3>1. i \in 1 .. Len(dlq') /\ dlq'[i] = dlq[i]
      BY <1>1, Added
    <3> QED
      BY <2>1, <2>3, <3>1 DEF AckSafe, Cur, Outside, rgroupVars
  <2> QED
    BY <2>2, <2>3 DEF AckSafe
<1> QED
  BY <1>2, <1>3, <1>5, <1>6, <1>8, <1>9

-----------------------------------------------------------------------------
(* One lemma per action. *)

\* Initially there is nothing to lose.
LEMMA InitInv == RInit => RInv
<1> SUFFICES ASSUME RInit PROVE RInv
  OBVIOUS
<1>1. RTypeOK
  <2>1. dlq \in Seq(Entries) /\ batch \in Seq(1 .. rdelivered)
    BY EmptySeq DEF RInit
  <2>2. rpc \in RPhases
    BY DEF RInit, RPhases
  <2>3. Len(dlq) = 0
    BY EmptySeq DEF RInit
  <2>4. /\ rgroup \in {NoGroup} \union (0 .. Len(dlq)) /\ rdelivered \in 0 .. Len(dlq)
        /\ rejects \in 0 .. MaxRejects /\ rfaults \in 0 .. MaxRFaults
        /\ rcrashes \in 0 .. MaxRCrashes
    BY <2>3, ReplayerCounts DEF RInit
  <2> QED
    BY <2>1, <2>2, <2>4 DEF RInit, RTypeOK, Entries
<1>2. InHand /\ RetryAllowed /\ AckSafe
  BY DEF RInit, InHand, RetryAllowed, AckSafe
<1>3. Len(dlq) = 0
  BY EmptySeq DEF RInit
<1> QED
  BY <1>1, <1>2, <1>3 DEF RInv, RTyped, RSafe, ReplayKeepsEvery, RetryBounded

\* XGROUP CREATE at "$" passes over what is in the DLQ; what it passes over is
\* not the group's.
LEMMA StartInv == ASSUME RInv, RStart PROVE RInv'
<1> USE DEF RInv, RTyped, RSafe
<1>0. Len(dlq) \in Nat /\ rdelivered \in 0 .. Len(dlq)
  BY LenProperties DEF RTypeOK
<1>1. \/ rgroup = NoGroup /\ rgroup' = Len(dlq) /\ rdelivered' = Len(dlq)
      \/ UNCHANGED <<rgroup, rdelivered>>
  BY DEF RStart
<1>2. RTypeOK'
  <2>1. rdelivered <= rdelivered' /\ rdelivered' \in 0 .. Len(dlq)
    BY <1>0, <1>1
  <2>2. 1 .. rdelivered \subseteq 1 .. rdelivered'
    BY <1>0, <2>1
  <2>3. batch' \in Seq(1 .. rdelivered')
    BY <2>2, SeqMonotonic DEF RTypeOK, RStart
  <2>4. RFault \/ UNCHANGED rbounds
    BY DEF RStart
  <2> QED
    BY <1>0, <1>1, <2>1, <2>2, <2>3, <2>4, CountsTyped DEF RTypeOK, RStart, RPhases
<1>3. InHand' /\ RetryAllowed' /\ AckSafe' /\ RetryBounded'
  BY DEF RStart, InHand, RetryAllowed, AckSafe, RetryBounded
<1>4. ReplayKeepsEvery'
  <2>1. CASE rgroup' = Len(dlq)
    BY <1>0, <2>1 DEF ReplayKeepsEvery, RStart
  <2>2. CASE UNCHANGED <<rgroup, rdelivered>>
    BY <2>2, KeepsEvery DEF RStart, DlqGrows, LeavesKept
  <2> QED
    BY <1>1, <2>1, <2>2
<1> QED
  BY <1>2, <1>3, <1>4

\* A crash forgets the batch; its entries stay pending.
LEMMA CrashInv == ASSUME RInv, RCrash PROVE RInv'
<1> USE DEF RInv, RTyped, RSafe
<1>1. RTypeOK'
  <2>1. batch' \in Seq(1 .. rdelivered')
    BY EmptySeq DEF RCrash
  <2>2. rcrashes' \in 0 .. MaxRCrashes
    BY ReplayerCounts DEF RTypeOK, RCrash
  <2> QED
    BY <2>1, <2>2 DEF RTypeOK, RCrash, rgroupVars, RPhases
<1>2. InHand' /\ RetryAllowed' /\ AckSafe' /\ RetryBounded'
  BY DEF RCrash, InHand, RetryAllowed, AckSafe, RetryBounded
<1>3. ReplayKeepsEvery'
  BY KeepsEvery DEF RCrash, DlqGrows, LeavesKept, rgroupVars
<1> QED
  BY <1>1, <1>2, <1>3

\* The types, for a step that delivers nothing.
LEMMA StepTyped ==
  ASSUME RTypeOK, DlqGrows, rgroup' = rgroup, rdelivered' = rdelivered, rpel' \subseteq rpel,
         db' \subseteq Events, dead' \subseteq Events, rpc' \in RPhases,
         rconn' \in BOOLEAN, short' \in BOOLEAN, batch' \in Seq(1 .. rdelivered),
         RFault \/ RReject \/ UNCHANGED rbounds
  PROVE  RTypeOK'
<1>1. /\ dlq' \in Seq(Entries) /\ rdelivered' \in 0 .. Len(dlq')
      /\ rgroup' \in {NoGroup} \union (0 .. Len(dlq'))
  BY Added DEF RTypeOK
<1>2. batch' \in Seq(1 .. rdelivered') /\ rpel' \subseteq 1 .. rdelivered'
  BY DEF RTypeOK
<1> QED
  BY <1>1, <1>2, CountsTyped DEF RTypeOK, Entries

\* EnsureDbConnection changes nothing that is stored.
LEMMA ConnectInv == ASSUME RInv, RConnect PROVE RInv'
<1> USE DEF RInv, RTyped, RSafe
<1>1. DlqGrows /\ LeavesKept
  BY DEF RConnect, DlqGrows, LeavesKept, rgroupVars
<1>2. RTypeOK'
  <2>1. rpc' \in RPhases /\ rconn' \in BOOLEAN
    BY DEF RConnect, RPhases, RTypeOK
  <2>2. RFault \/ RReject \/ UNCHANGED rbounds
    BY DEF RConnect
  <2> QED
    BY <1>1, <2>1, <2>2, StepTyped DEF RTypeOK, RConnect, rgroupVars
<1>3. InHand' /\ RetryAllowed' /\ AckSafe' /\ RetryBounded'
  BY DEF RConnect, InHand, RetryAllowed, AckSafe, RetryBounded
<1>4. ReplayKeepsEvery'
  BY <1>1, KeepsEvery DEF RConnect, rgroupVars
<1> QED
  BY <1>2, <1>3, <1>4

\* XREADGROUP hands over what becomes pending.
LEMMA ReadInv == ASSUME RInv, RRead PROVE RInv'
<1> USE DEF RInv, RTyped, RSafe
<1>1. /\ ReplayKeepsEvery' /\ rdelivered' \in 0 .. Len(dlq) /\ rpel' \subseteq 1 .. rdelivered'
  BY DeliverKeepsEvery DEF RRead
<1>2. Unread \in Nat /\ rdelivered \in Nat /\ rdelivered' = rdelivered + Unread
  BY UnreadTyped DEF RRead, RDeliver, RTypeOK
<1>3. batch' \in Seq(1 .. rdelivered') /\ (Unread > 0 => batch' # <<>>)
  <2>1. \A i \in 1 .. Unread : rdelivered + i \in 1 .. rdelivered'
    BY <1>2
  <2>2. batch' \in Seq(1 .. rdelivered') /\ Len(batch') = Unread
    BY <1>2, <2>1 DEF RRead
  <2> QED
    BY <1>2, <2>2, EmptySeq
<1>4. RTypeOK'
  <2>1. rpc' \in RPhases /\ short' \in BOOLEAN
    BY DEF RRead, RPhases
  <2> QED
    BY <1>1, <1>3, <2>1 DEF RTypeOK, RRead, rbounds
<1>5. InHand' /\ RetryAllowed' /\ AckSafe' /\ RetryBounded'
  BY <1>3 DEF RRead, InHand, RetryAllowed, AckSafe, RetryBounded
<1> QED
  BY <1>1, <1>4, <1>5

\* A reply that is lost leaves what it delivered pending.
LEMMA ReadFailsInv == ASSUME RInv, RReadFails PROVE RInv'
<1> USE DEF RInv, RTyped, RSafe
<1>1. RFault \/ RReject \/ UNCHANGED rbounds
  BY DEF RReadFails
<1>2. rpc' \in RPhases /\ rpc' \in {"down", "loop"}
  BY DEF RReadFails, RPhases
<1>3. InHand' /\ RetryAllowed' /\ AckSafe' /\ RetryBounded'
  BY <1>2 DEF RReadFails, InHand, RetryAllowed, AckSafe, RetryBounded
<1>4. CASE RDeliver(Unread)
  <2>1. /\ ReplayKeepsEvery' /\ rdelivered' \in 0 .. Len(dlq) /\ rpel' \subseteq 1 .. rdelivered'
    BY <1>4, DeliverKeepsEvery DEF RReadFails
  <2>2. 1 .. rdelivered \subseteq 1 .. rdelivered'
    BY <1>4, UnreadTyped DEF RDeliver, RTypeOK
  <2>3. batch' \in Seq(1 .. rdelivered')
    BY <2>2, SeqMonotonic DEF RTypeOK, RReadFails
  <2>4. RTypeOK'
    BY <1>1, <1>2, <2>1, <2>3, CountsTyped DEF RTypeOK, RReadFails
  <2> QED
    BY <1>3, <2>1, <2>4
<1>5. CASE UNCHANGED <<rdelivered, rpel>>
  <2>1. DlqGrows /\ LeavesKept
    BY <1>5 DEF RReadFails, DlqGrows, LeavesKept
  <2>2. RTypeOK'
    BY <1>1, <1>2, <1>5, <2>1, StepTyped DEF RTypeOK, RReadFails
  <2>3. ReplayKeepsEvery'
    BY <1>5, <2>1, KeepsEvery DEF RReadFails
  <2> QED
    BY <1>3, <2>2, <2>3
<1> QED
  BY <1>4, <1>5 DEF RReadFails

-----------------------------------------------------------------------------
(* ProcessEntry. *)

\* What is committed is safe to acknowledge.
LEMMA InsertOkInv == ASSUME RInv, InsertOk PROVE RInv'
<1> USE DEF RInv, RTyped, RSafe
<1>1. DlqGrows /\ LeavesKept /\ db \subseteq db'
  BY DEF InsertOk, DlqGrows, LeavesKept, rgroupVars
<1>2. RTypeOK'
  <2>1. db' \subseteq Events
    BY CurTyped DEF InsertOk, InHand, RTypeOK
  <2> QED
    BY <1>1, <2>1, StepTyped DEF RTypeOK, InsertOk, rgroupVars, RPhases
<1>3. InHand' /\ RetryAllowed' /\ RetryBounded'
  BY DEF InsertOk, InHand, RetryAllowed, RetryBounded
<1>4. AckSafe'
  BY DEF InsertOk, AckSafe, Cur
<1>5. ReplayKeepsEvery'
  BY <1>1, KeepsEvery DEF InsertOk, rgroupVars
<1> QED
  BY <1>2, <1>3, <1>4, <1>5

\* The end of an entry that is not acknowledged: it stays pending.
LEMMA LeftPending ==
  ASSUME RInv, batch # <<>>, EntryDone, RFault, rconn' \in BOOLEAN,
         UNCHANGED <<db, dlq, dead, rgroupVars, short>>
  PROVE  RInv'
<1> USE DEF RInv, RTyped, RSafe
<1>1. DlqGrows /\ LeavesKept
  BY DEF DlqGrows, LeavesKept, rgroupVars
<1>2. /\ batch' \in Seq(1 .. rdelivered) /\ rpc' \in {"entry", "down", "loop"}
      /\ rpc' = "entry" => batch' # <<>>
  BY EntryDoneTyped
<1>3. RTypeOK'
  BY <1>1, <1>2, StepTyped DEF RTypeOK, rgroupVars, RPhases
<1>4. InHand' /\ RetryAllowed' /\ AckSafe' /\ RetryBounded'
  BY <1>2 DEF InHand, RetryAllowed, AckSafe, RetryBounded
<1>5. ReplayKeepsEvery'
  BY <1>1, KeepsEvery DEF rgroupVars
<1> QED
  BY <1>3, <1>4, <1>5

\* A broken connection leaves the entry pending.
LEMMA InsertBrokenInv == ASSUME RInv, InsertBroken PROVE RInv'
BY LeftPending DEF InsertBroken, RInv, RTyped, InHand

\* HandleFailure keeps the entry and finds what RetryLater may do.
LEMMA InsertFailsInv == ASSUME RInv, InsertFails PROVE RInv'
<1> USE DEF RInv, RTyped, RSafe
<1>1. DlqGrows /\ LeavesKept /\ db \subseteq db' /\ rpc' \in {"dead", "retry"}
  BY DEF InsertFails, HandleFailure, DlqGrows, LeavesKept, rgroupVars
<1>2. RTypeOK'
  <2>1. db' \subseteq Events /\ rconn' \in BOOLEAN
    BY CurTyped DEF InsertFails, InHand, RTypeOK
  <2>2. RFault \/ RReject \/ UNCHANGED rbounds
    BY DEF InsertFails
  <2>3. rpc' \in RPhases
    BY <1>1 DEF RPhases
  <2> QED
    BY <1>1, <2>1, <2>2, <2>3, StepTyped DEF RTypeOK, InsertFails, rgroupVars
<1>3. InHand' /\ AckSafe' /\ RetryBounded'
  BY <1>1 DEF InsertFails, InHand, AckSafe, RetryBounded
<1>4. RetryAllowed'
  <2>1. Cur' = Cur /\ Cur.retry \in Nat
    BY CurTyped DEF InsertFails, InHand, Cur
  <2>2. rpc' = "retry" => ~(Cur.retry + 1 >= RRetryMax)
    BY DEF InsertFails, HandleFailure
  <2> QED
    BY <2>1, <2>2, ReplayerCounts DEF RetryAllowed
<1>5. ReplayKeepsEvery'
  BY <1>1, KeepsEvery DEF InsertFails, rgroupVars
<1> QED
  BY <1>2, <1>3, <1>4, <1>5

\* The dead stream has the event before the ACK.
LEMMA MoveInv == ASSUME RInv, MoveToDeadStream PROVE RInv'
<1> USE DEF RInv, RTyped, RSafe
<1>0. batch # <<>>
  BY DEF MoveToDeadStream, InHand
<1>1. CASE dead' = dead \union {Cur.orig} /\ rpc' = "ack" /\ UNCHANGED <<batch, rbounds>>
  <2>1. DlqGrows /\ LeavesKept /\ dead \subseteq dead'
    BY <1>1 DEF MoveToDeadStream, DlqGrows, LeavesKept, rgroupVars
  <2>2. RTypeOK'
    <3>1. dead' \subseteq Events /\ rpc' \in RPhases
      BY <1>0, <1>1, CurTyped DEF RTypeOK, RPhases
    <3> QED
      BY <1>1, <2>1, <3>1, StepTyped DEF RTypeOK, MoveToDeadStream, rgroupVars
  <2>3. InHand' /\ RetryAllowed' /\ RetryBounded'
    BY <1>0, <1>1 DEF MoveToDeadStream, InHand, RetryAllowed, RetryBounded
  <2>4. AckSafe'
    BY <1>1 DEF MoveToDeadStream, AckSafe, Cur
  <2>5. ReplayKeepsEvery'
    BY <2>1, KeepsEvery DEF MoveToDeadStream, rgroupVars
  <2> QED
    BY <2>2, <2>3, <2>4, <2>5
<1>2. CASE UNCHANGED dead /\ RFault /\ EntryDone
  BY <1>0, <1>2, LeftPending DEF MoveToDeadStream, RTypeOK
<1> QED
  BY <1>1, <1>2 DEF MoveToDeadStream

\* The event is in the DLQ again, behind what is delivered, before the ACK.
LEMMA RetryInv == ASSUME RInv, RetryLater PROVE RInv'
<1> USE DEF RInv, RTyped, RSafe
<1>0. batch # <<>>
  BY DEF RetryLater, InHand
<1>1. CASE /\ dlq' = Append(dlq, [orig |-> Cur.orig, retry |-> Cur.retry + 1])
           /\ rpc' = "ack" /\ UNCHANGED <<batch, rbounds>>
  <2> DEFINE again == [orig |-> Cur.orig, retry |-> Cur.retry + 1]
  <2>0. again \in Entries /\ again.orig = Cur.orig /\ again.retry < RRetryMax
    BY <1>0, CurTyped DEF Entries, RetryLater, RetryAllowed
  <2> HIDE DEF again
  <2>1. dlq' = Append(dlq, again)
    BY <1>1 DEF again
  <2>2. DlqGrows /\ LeavesKept
    BY <2>0, <2>1 DEF RetryLater, DlqGrows, LeavesKept, rgroupVars
  <2>3. RTypeOK'
    BY <1>1, <2>2, StepTyped DEF RTypeOK, RetryLater, rgroupVars, RPhases
  <2>4. InHand' /\ RetryAllowed'
    BY <1>0, <1>1 DEF InHand, RetryAllowed
  <2>5. RetryBounded'
    BY <2>0, <2>1, BudgetKept
  <2>6. AckSafe'
    <3>1. /\ Len(dlq') = Len(dlq) + 1 /\ dlq'[Len(dlq) + 1] = again
          /\ Len(dlq) \in Nat /\ rdelivered \in 0 .. Len(dlq)
      BY <2>0, <2>1, AddedLast, LenProperties DEF RTypeOK
    <3>2. Cur' = Cur
      BY <1>0, <1>1, <2>2, CurTyped, Added DEF Cur
    <3>3. Len(dlq) + 1 \in 1 .. Len(dlq') /\ Len(dlq) + 1 > rdelivered
      BY <3>1
    <3> QED
      BY <2>0, <3>1, <3>2, <3>3 DEF AckSafe, RetryLater, rgroupVars
  <2>7. ReplayKeepsEvery'
    BY <2>2, KeepsEvery DEF RetryLater, rgroupVars
  <2> QED
    BY <2>3, <2>4, <2>5, <2>6, <2>7
<1>2. CASE UNCHANGED dlq /\ RFault /\ EntryDone
  BY <1>0, <1>2, LeftPending DEF RetryLater, RTypeOK
<1> QED
  BY <1>1, <1>2 DEF RetryLater

\* Only what AckSafe has found leaves the pending list.
LEMMA AckInv == ASSUME RInv, AckEntry PROVE RInv'
<1> USE DEF RInv, RTyped, RSafe
<1>0. batch # <<>>
  BY DEF AckEntry, InHand
<1>1. DlqGrows /\ rpel' \subseteq rpel /\ (RFault \/ RReject \/ UNCHANGED rbounds)
  BY DEF AckEntry, DlqGrows
<1>2. LeavesKept
  BY DEF AckEntry, AckSafe, LeavesKept, Cur
<1>3. /\ batch' \in Seq(1 .. rdelivered) /\ rpc' \in {"entry", "down", "loop"}
      /\ rpc' = "entry" => batch' # <<>>
  BY <1>0, EntryDoneTyped DEF AckEntry
<1>4. RTypeOK'
  BY <1>1, <1>3, StepTyped DEF RTypeOK, AckEntry, RPhases
<1>5. InHand' /\ RetryAllowed' /\ AckSafe' /\ RetryBounded'
  BY <1>3 DEF AckEntry, InHand, RetryAllowed, AckSafe, RetryBounded
<1>6. ReplayKeepsEvery'
  BY <1>1, <1>2, KeepsEvery DEF AckEntry
<1> QED
  BY <1>4, <1>5, <1>6

-----------------------------------------------------------------------------
\* The replayer only adds to the database and to the DLQ.
LEMMA ReplayerAdds ==
  ASSUME RInv, RStart \/ RCrash \/ ReplayerStep
  PROVE  db \subseteq db' /\ DlqGrows
<1>1. db \subseteq db'
  BY DEF RStart, RCrash, ReplayerStep, RConnect, RRead, RReadFails, InsertOk, InsertBroken,
         InsertFails, MoveToDeadStream, RetryLater, AckEntry
<1>2. CASE RetryLater
  <2>1. [orig |-> Cur.orig, retry |-> Cur.retry + 1] \in Entries
    BY <1>2, CurTyped DEF RetryLater, RInv, RTyped, InHand, Entries
  <2> QED
    BY <1>2, <2>1 DEF RetryLater, DlqGrows
<1>3. CASE ~RetryLater
  BY <1>3 DEF RStart, RCrash, ReplayerStep, RConnect, RRead, RReadFails, InsertOk, InsertBroken,
         InsertFails, MoveToDeadStream, AckEntry, DlqGrows
<1> QED
  BY <1>1, <1>2, <1>3

\* Every step of the replayer keeps the invariant.
LEMMA ReplayerKeeps == ASSUME RInv, RStart \/ RCrash \/ ReplayerStep PROVE RInv'
BY StartInv, CrashInv, ConnectInv, ReadInv, ReadFailsInv, InsertOkInv, InsertBrokenInv,
   InsertFailsInv, MoveInv, RetryInv, AckInv DEF ReplayerStep

\* Every step, an arrival or a stuttering step included, keeps it.
LEMMA StepInv == RInv /\ [RNext]_rvars => RInv'
<1> SUFFICES ASSUME RInv, [RNext]_rvars PROVE RInv'
  OBVIOUS
<1>1. ASSUME NEW e \in Events, Arrive(e) PROVE RInv'
  BY <1>1, OutsideKeeps DEF Arrive, Outside, RInv, RTyped, RTypeOK
<1>2. CASE UNCHANGED rvars
  BY <1>2, OutsideKeeps DEF rvars, Outside, RInv, RTyped, RTypeOK
<1> QED
  BY <1>1, <1>2, ReplayerKeeps DEF RNext

\* The inductive invariant holds of every behaviour of the replayer.
THEOREM ReplayerInvariant == RSpec => []RInv
BY InitInv, StepInv, PTL DEF RSpec

\* The group never delivers past the end of the DLQ, and only delivered
\* positions are pending or in the batch (Run, Loop, ProcessEntry).
THEOREM ReplayerTypeOK == RSpec => []RTypeOK
<1>1. RInv => RTypeOK
  BY DEF RInv, RTyped
<1> QED
  BY <1>1, ReplayerInvariant, PTL

\* An event of the DLQ that the group is to read is in the database, in the
\* dead stream or still to be dealt with, whatever fails between the XADD and
\* the XACK of ProcessEntry.
THEOREM ReplayLosesNothing == RSpec => []ReplayKeepsEvery
<1>1. RInv => ReplayKeepsEvery
  BY DEF RInv, RSafe
<1> QED
  BY <1>1, ReplayerInvariant, PTL

\* No entry is put back with a retry_count that has reached WB_RETRY_MAX.
THEOREM BudgetHolds == RSpec => []RetryBounded
<1>1. RInv => RetryBounded
  BY DEF RInv, RSafe
<1> QED
  BY <1>1, ReplayerInvariant, PTL
=============================================================================
