--------------------------- MODULE JobQueueProofs ---------------------------
(***************************************************************************)
(* Proofs about JobQueue, for any pushers, workers and queue size.         *)
(***************************************************************************)
EXTENDS JobQueue, TLAPS

(* What a thread does where: a worker holds a job between Pop and the end  *)
(* of the job, and nobody sleeps once the queue was told to stop and the   *)
(* sleepers were woken.                                                    *)
HandOK == \A w \in Workers : hand[w] # 0 <=> pc[w] \in {"notify", "run"}

StopOK ==
    /\ main \in {"notify_all", "join", "joined"} => stopping
    /\ main \in {"join", "joined"} => waiting = {}

(* The queue holds distinct jobs, the most recent ones in order.           *)
Numbered ==
    /\ \A k \in 1 .. Len(jobs) : jobs[k] \in 1 .. pushed
    /\ \A k, l \in 1 .. Len(jobs) : k # l => jobs[k] # jobs[l]

IInv == TypeOK /\ QueueBounded /\ JobInOnePlace /\ HandOK /\ StopOK /\ Numbered

Elems(s) == {s[k] : k \in 1 .. Len(s)}

(* The elements of a queue after a push (jobs_.push).                      *)
LEMMA AppendElems ==
    ASSUME NEW s \in Seq(Nat), NEW x \in Nat
    PROVE  Elems(Append(s, x)) = Elems(s) \cup {x}
<1>1. Append(s, x) \in Seq(Nat) /\ Len(Append(s, x)) = Len(s) + 1
  OBVIOUS
<1>2. \A k \in 1 .. Len(s) : Append(s, x)[k] = s[k]
  OBVIOUS
<1>3. Append(s, x)[Len(s) + 1] = x
  OBVIOUS
<1>. QED  BY <1>1, <1>2, <1>3 DEF Elems

(* The elements of a queue before a pop: its head and the rest.            *)
LEMMA TailElems ==
    ASSUME NEW s \in Seq(Nat), s # <<>>
    PROVE  /\ Elems(s) = {Head(s)} \cup Elems(Tail(s))
           /\ Head(s) = s[1] /\ Head(s) \in Nat
           /\ Tail(s) \in Seq(Nat) /\ Len(Tail(s)) = Len(s) - 1
           /\ \A k \in 1 .. Len(Tail(s)) : Tail(s)[k] = s[k + 1]
<1>1. Len(s) \in Nat /\ Len(s) > 0
  OBVIOUS
<1>2. Tail(s) \in Seq(Nat) /\ Len(Tail(s)) = Len(s) - 1
  OBVIOUS
<1>3. \A k \in 1 .. Len(Tail(s)) : Tail(s)[k] = s[k + 1]
  OBVIOUS
<1>4. Head(s) = s[1] /\ Head(s) \in Nat
  OBVIOUS
<1>5. Elems(s) \subseteq {Head(s)} \cup Elems(Tail(s))
  <2> SUFFICES ASSUME NEW k \in 1 .. Len(s), k # 1
               PROVE  s[k] \in Elems(Tail(s))
    BY <1>4 DEF Elems
  <2>1. k - 1 \in 1 .. Len(Tail(s)) /\ Tail(s)[k - 1] = s[k]
    BY <1>1, <1>2, <1>3
  <2>. QED  BY <2>1 DEF Elems
<1>6. {Head(s)} \cup Elems(Tail(s)) \subseteq Elems(s)
  <2>1. 1 \in 1 .. Len(s)
    BY <1>1
  <2>2. \A k \in 1 .. Len(Tail(s)) : k + 1 \in 1 .. Len(s)
    BY <1>1, <1>2
  <2>. QED  BY <2>1, <2>2, <1>3, <1>4 DEF Elems
<1>. QED  BY <1>2, <1>3, <1>4, <1>5, <1>6

LEMMA InitIInv == Init => IInv
<1> SUFFICES ASSUME Init PROVE IInv
  OBVIOUS
<1> USE QueueAssumption DEF Init
<1>1. jobs = <<>> /\ Len(jobs) = 0 /\ jobs \in Seq(Nat)
  OBVIOUS
<1>2. TypeOK
  BY <1>1 DEF TypeOK, Threads
<1>3. Queued = {} /\ Held = {}
  BY <1>1 DEF Queued, Held
<1>4. JobInOnePlace
  BY <1>3 DEF JobInOnePlace
<1>5. HandOK /\ StopOK /\ Numbered /\ QueueBounded
  BY <1>1 DEF HandOK, StopOK, Numbered, QueueBounded, Threads
<1>. QED  BY <1>2, <1>4, <1>5 DEF IInv

(* A push puts one new job in the queue and nowhere else.                  *)
LEMMA AcceptIInv ==
    ASSUME IInv, NEW p \in Pushers, ~Full, Accept(p),
           UNCHANGED <<stopping, stopped, hand, main, ran>>
    PROVE  IInv'
<1> USE QueueAssumption
<1>1. jobs \in Seq(Nat) /\ pushed \in Nat /\ Len(jobs) \in Nat
  BY DEF IInv, TypeOK
<1>2. jobs' \in Seq(Nat) /\ pushed' = pushed + 1 /\ Len(jobs') = Len(jobs) + 1
  BY <1>1 DEF Accept
<1>3. TypeOK'
  BY <1>2, <1>1 DEF IInv, TypeOK, Accept, Threads
<1>4. QueueBounded'
  BY <1>1, <1>2 DEF Full, QueueBounded
<1>5. Queued' = Queued \cup {pushed + 1}
  <2>1. Queued = Elems(jobs) /\ Queued' = Elems(jobs')
    BY DEF Queued, Elems
  <2>2. pushed + 1 \in Nat /\ jobs' = Append(jobs, pushed + 1)
    BY <1>1 DEF Accept
  <2>. QED  BY <1>1, <2>1, <2>2, AppendElems
<1>6. Held' = Held
  BY DEF Held
<1>7. 1 .. pushed' = (1 .. pushed) \cup {pushed + 1} /\ pushed + 1 \notin 1 .. pushed
  BY <1>1, <1>2
<1>8. JobInOnePlace'
  BY <1>5, <1>6, <1>7 DEF IInv, JobInOnePlace
<1>9. HandOK'
  BY DEF IInv, HandOK, TypeOK, Accept, Threads
<1>10. StopOK'
  BY DEF IInv, StopOK, Accept
<1>11. Numbered'
  <2>1. \A k \in 1 .. Len(jobs) : jobs'[k] = jobs[k]
    BY <1>1 DEF Accept
  <2>2. jobs'[Len(jobs) + 1] = pushed + 1
    BY <1>1 DEF Accept
  <2>3. \A k \in 1 .. Len(jobs') : k \in 1 .. Len(jobs) \/ k = Len(jobs) + 1
    BY <1>1, <1>2
  <2>4. \A k \in 1 .. Len(jobs) : jobs[k] \in 1 .. pushed
    BY DEF IInv, Numbered
  <2>5. \A k \in 1 .. Len(jobs') : jobs'[k] \in 1 .. pushed'
    BY <1>7, <2>1, <2>2, <2>3, <2>4
  <2>6. \A k, l \in 1 .. Len(jobs') : k # l => jobs'[k] # jobs'[l]
    BY <1>7, <2>1, <2>2, <2>3, <2>4 DEF IInv, Numbered
  <2>. QED  BY <2>5, <2>6 DEF Numbered
<1>. QED  BY <1>3, <1>4, <1>8, <1>9, <1>10, <1>11 DEF IInv

(* Worker w takes the job at the head of the queue.                        *)
LEMMA PopIInv ==
    ASSUME IInv, NEW w \in Workers, Pop(w)
    PROVE  IInv'
<1> USE QueueAssumption
<1>1. CASE jobs = <<>>
  <2>1. TypeOK'
    BY <1>1 DEF IInv, TypeOK, Pop, Threads
  <2>2. Queued' = Queued /\ Held' = Held
    BY <1>1 DEF Pop, Queued, Held
  <2>3. JobInOnePlace' /\ QueueBounded' /\ Numbered'
    BY <1>1, <2>2 DEF IInv, JobInOnePlace, QueueBounded, Numbered, Pop
  <2>4. HandOK'
    BY <1>1 DEF IInv, TypeOK, HandOK, Pop, Threads
  <2>5. StopOK'
    BY <1>1 DEF IInv, StopOK, Pop
  <2>. QED  BY <2>1, <2>3, <2>4, <2>5 DEF IInv
<1>2. CASE jobs # <<>>
  <2>1. /\ jobs \in Seq(Nat) /\ jobs' = Tail(jobs)
        /\ hand' = [hand EXCEPT ![w] = Head(jobs)]
        /\ pc' = [pc EXCEPT ![w] = "notify"]
        /\ UNCHANGED <<waiting, stopping, stopped, main, pushed, ran>>
        /\ pc[w] = "pop"
    BY <1>2 DEF IInv, TypeOK, Pop
  <2>2. /\ Queued = {Head(jobs)} \cup Queued'
        /\ Head(jobs) = jobs[1] /\ Head(jobs) \in Nat
        /\ jobs' \in Seq(Nat) /\ Len(jobs') = Len(jobs) - 1
        /\ \A k \in 1 .. Len(jobs') : jobs'[k] = jobs[k + 1]
    BY <2>1, <1>2, TailElems DEF Queued, Elems
  <2>3. Len(jobs) \in Nat /\ Len(jobs) > 0 /\ pushed \in Nat
    BY <2>1, <1>2 DEF IInv, TypeOK
  <2>4. Head(jobs) # 0 /\ Head(jobs) \in 1 .. pushed
    BY <2>2, <2>3 DEF IInv, Numbered
  <2>5. Head(jobs) \notin Queued'
    <3> SUFFICES ASSUME NEW k \in 1 .. Len(jobs'), jobs'[k] = jobs[1] PROVE FALSE
      BY <2>2 DEF Queued
    <3>1. k + 1 \in 1 .. Len(jobs) /\ k + 1 # 1 /\ 1 \in 1 .. Len(jobs) /\ jobs[k + 1] = jobs[1]
      BY <2>2, <2>3
    <3>. QED  BY <3>1 DEF IInv, Numbered
  <2>6. hand[w] = 0 /\ hand \in [Workers -> Nat]
    BY <2>1 DEF IInv, HandOK, TypeOK
  <2>7. Held' = Held \cup {Head(jobs)}
    BY <2>1, <2>4, <2>6 DEF Held
  <2>8. TypeOK'
    BY <2>1, <2>2 DEF IInv, TypeOK, Threads
  <2>9. QueueBounded'
    BY <2>2, <2>3 DEF IInv, QueueBounded
  <2>10. Head(jobs) \notin Held /\ Head(jobs) \notin ran
    BY <2>2 DEF IInv, JobInOnePlace
  <2>11. \A v \in Workers : hand[v] # Head(jobs)
    BY <2>10, <2>4 DEF Held
  <2>12. \A u, v \in Workers : u # v /\ hand'[u] # 0 => hand'[u] # hand'[v]
    BY <2>1, <2>4, <2>6, <2>11 DEF IInv, JobInOnePlace
  <2>13. /\ 1 .. pushed' = Queued' \cup Held' \cup ran'
         /\ Queued' \cap (Held' \cup ran') = {} /\ Held' \cap ran' = {}
    BY <2>1, <2>2, <2>5, <2>7, <2>10 DEF IInv, JobInOnePlace
  <2>14. JobInOnePlace'
    BY <2>12, <2>13 DEF JobInOnePlace
  <2>15. HandOK'
    BY <2>1, <2>4 DEF IInv, HandOK, TypeOK, Threads
  <2>16. StopOK'
    BY <2>1 DEF IInv, StopOK
  <2>17. Numbered'
    <3>1. \A k \in 1 .. Len(jobs') : k + 1 \in 1 .. Len(jobs)
      BY <2>2, <2>3
    <3>. QED  BY <3>1, <2>1, <2>2, <2>3 DEF IInv, Numbered
  <2>. QED  BY <2>8, <2>9, <2>14, <2>15, <2>16, <2>17 DEF IInv
<1>. QED  BY <1>1, <1>2

(* The job has run: it leaves the hand of the worker.                      *)
LEMMA RunIInv ==
    ASSUME IInv, NEW w \in Workers, Run(w)
    PROVE  IInv'
<1>1. hand[w] # 0 /\ hand \in [Workers -> Nat] /\ pc \in [Threads -> {"idle", "push", "notify", "loop", "pop", "run", "exited"}]
  BY DEF IInv, HandOK, TypeOK, Run
<1>2. Held = Held' \cup {hand[w]} /\ hand[w] \notin Held'
  BY <1>1 DEF IInv, JobInOnePlace, Held, Run
<1>3. Queued' = Queued
  BY DEF Run, Queued
<1>4. TypeOK'
  BY <1>1 DEF IInv, TypeOK, Run, Threads
<1>5. JobInOnePlace'
  BY <1>1, <1>2, <1>3 DEF IInv, JobInOnePlace, Run
<1>6. HandOK'
  BY <1>1 DEF IInv, HandOK, Run, Threads
<1>7. StopOK' /\ Numbered' /\ QueueBounded'
  BY DEF IInv, StopOK, Numbered, QueueBounded, Run
<1>. QED  BY <1>4, <1>5, <1>6, <1>7 DEF IInv

(* The steps that move no job.                                             *)
LEMMA OtherIInv ==
    ASSUME IInv, UNCHANGED <<jobs, hand, pushed, ran>>,
           TypeOK', HandOK', StopOK'
    PROVE  IInv'
<1>1. Queued' = Queued /\ Held' = Held
  BY DEF Queued, Held
<1>. QED  BY <1>1 DEF IInv, JobInOnePlace, QueueBounded, Numbered

LEMMA NextIInv == IInv /\ [Next]_vars => IInv'
<1> SUFFICES ASSUME IInv, [Next]_vars PROVE IInv'
  OBVIOUS
<1> USE QueueAssumption
<1>1. CASE UNCHANGED vars
  <2>1. TypeOK' /\ HandOK' /\ StopOK'
    BY <1>1 DEF IInv, TypeOK, HandOK, StopOK, vars
  <2>. QED  BY <1>1, <2>1, OtherIInv DEF vars
<1>2. CASE StopFlag \/ StopQueue \/ NotifyAll \/ Join
  <2>1. TypeOK' /\ HandOK' /\ StopOK'
    BY <1>2 DEF IInv, TypeOK, HandOK, StopOK, StopFlag, StopQueue, NotifyAll, Join
  <2>2. UNCHANGED <<jobs, hand, pushed, ran>>
    BY <1>2 DEF StopFlag, StopQueue, NotifyAll, Join
  <2>. QED  BY <2>1, <2>2, OtherIInv
<1>3. ASSUME NEW p \in Pushers, PushStart(p) \/ PushNotify(p) PROVE IInv'
  <2>1. TypeOK' /\ HandOK' /\ StopOK'
    BY <1>3 DEF IInv, TypeOK, HandOK, StopOK, PushStart, PushNotify, NotifyOne, Threads
  <2>2. UNCHANGED <<jobs, hand, pushed, ran>>
    BY <1>3 DEF PushStart, PushNotify
  <2>. QED  BY <2>1, <2>2, OtherIInv
<1>4. ASSUME NEW p \in Pushers, Push(p) PROVE IInv'
  <2>1. CASE ~stopping /\ ~Full
    BY <1>4, <2>1, AcceptIInv DEF Push
  <2>2. CASE stopping \/ Full
    <3>1. TypeOK' /\ HandOK' /\ StopOK'
      BY <1>4, <2>2 DEF IInv, TypeOK, HandOK, StopOK, Push, Threads
    <3>2. UNCHANGED <<jobs, hand, pushed, ran>>
      BY <1>4, <2>2 DEF Push
    <3>. QED  BY <3>1, <3>2, OtherIInv
  <2>. QED  BY <2>1, <2>2
<1>5. ASSUME NEW p \in Pushers, TryPush(p) PROVE IInv'
  BY <1>5, AcceptIInv DEF TryPush
<1>6. ASSUME NEW w \in Workers, Loop(w) \/ PopNotify(w) PROVE IInv'
  <2>1. TypeOK' /\ StopOK'
    BY <1>6 DEF IInv, TypeOK, StopOK, Loop, PopNotify, NotifyOne, Threads
  <2>2. HandOK'
    BY <1>6 DEF IInv, TypeOK, HandOK, Loop, PopNotify, Threads
  <2>3. UNCHANGED <<jobs, hand, pushed, ran>>
    BY <1>6 DEF Loop, PopNotify
  <2>. QED  BY <2>1, <2>2, <2>3, OtherIInv
<1>. QED
  BY <1>1, <1>2, <1>3, <1>4, <1>5, <1>6, PopIInv, RunIInv
     DEF Next, StopStep, PusherStep, WorkerStep

LEMMA SpecIInv == Spec => []IInv
BY InitIInv, NextIInv, PTL DEF Spec

(* No accepted job is lost or run twice, for any number of pushers and     *)
(* workers and any size of the queue.                                      *)
THEOREM JobsKept == Spec => []JobInOnePlace
<1>1. IInv => JobInOnePlace
  BY DEF IInv
<1>. QED  BY <1>1, SpecIInv, PTL

(* The queue stays within max_size_.                                       *)
THEOREM BoundKept == Spec => []QueueBounded
<1>1. IInv => QueueBounded
  BY DEF IInv
<1>. QED  BY <1>1, SpecIInv, PTL

(* After JobQueue::Stop nobody is asleep on the queue.                     *)
THEOREM NobodySleeps == Spec => []NoSleeperAfterStop
<1>1. IInv => NoSleeperAfterStop
  BY DEF IInv, StopOK, NoSleeperAfterStop
<1>. QED  BY <1>1, SpecIInv, PTL
=============================================================================
