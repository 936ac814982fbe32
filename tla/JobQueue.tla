------------------------------ MODULE JobQueue ------------------------------
(***************************************************************************)
(* The job queue of the server and the threads around it (core/src/        *)
(* concurrent/job_queue.cpp, thread_manager.cpp): io threads push jobs,    *)
(* the workers of ThreadManager pop and run them, and ThreadManager::Stop  *)
(* ends the workers.  Blocked pushers and idle workers sleep on the same   *)
(* condition variable, and every notify_one is called after the mutex is   *)
(* released: it is a step of its own.                                      *)
(***************************************************************************)
EXTENDS Naturals, Sequences, FiniteSets

CONSTANTS
    Pushers,    \* io threads that push (ChatService handlers, on_session_close)
    Workers,    \* threads of ThreadManager
    Max,        \* max_size_, zero for an unbounded queue
    MaxJobs     \* pushes of a behaviour (bound)

ASSUME QueueAssumption ==
    /\ Max \in Nat /\ MaxJobs \in Nat
    /\ Pushers \cap Workers = {}

VARIABLES
    jobs,       \* jobs_: sequence of job numbers
    stopping,   \* stopping_
    stopped,    \* stopped_ of ThreadManager
    waiting,    \* threads asleep on cv_
    pc,         \* per thread
    hand,       \* hand[w]: the job worker w has popped and not yet run, else 0
    main,       \* the thread that calls ThreadManager::Stop
    pushed,     \* history: jobs accepted so far
    ran         \* history: jobs run

vars == <<jobs, stopping, stopped, waiting, pc, hand, main, pushed, ran>>

Threads == Pushers \cup Workers

Init ==
    /\ jobs = <<>>
    /\ stopping = FALSE /\ stopped = FALSE
    /\ waiting = {}
    /\ pc = [t \in Threads |-> IF t \in Workers THEN "loop" ELSE "idle"]
    /\ hand = [w \in Workers |-> 0]
    /\ main = "running"
    /\ pushed = 0 /\ ran = {}

Awake(t) == t \notin waiting

Full == Max > 0 /\ Len(jobs) >= Max

Accept(p) ==
    /\ jobs' = Append(jobs, pushed + 1)
    /\ pushed' = pushed + 1
    /\ pc' = [pc EXCEPT ![p] = "notify"]
    /\ UNCHANGED waiting

-----------------------------------------------------------------------------
(* Push: refused without a word when stopping, asleep while full.          *)
PushStart(p) ==
    /\ pc[p] = "idle" /\ pushed < MaxJobs
    /\ pc' = [pc EXCEPT ![p] = "push"]
    /\ UNCHANGED <<jobs, stopping, stopped, waiting, hand, main, pushed, ran>>

Push(p) ==
    /\ pc[p] = "push" /\ Awake(p)
    /\ \/ /\ stopping
          /\ pc' = [pc EXCEPT ![p] = "idle"]
          /\ UNCHANGED <<jobs, pushed, waiting>>
       \/ /\ ~stopping /\ Full
          /\ waiting' = waiting \cup {p}
          /\ UNCHANGED <<jobs, pushed, pc>>
       \/ ~stopping /\ ~Full /\ Accept(p)
    /\ UNCHANGED <<stopping, stopped, hand, main, ran>>

(* TryPush: refused at once when full or stopping, which changes nothing.  *)
TryPush(p) ==
    /\ pc[p] = "idle" /\ pushed < MaxJobs
    /\ ~stopping /\ ~Full
    /\ Accept(p)
    /\ UNCHANGED <<stopping, stopped, hand, main, ran>>

(* cv_.notify_one: one sleeper wakes up, a pusher or a worker.             *)
NotifyNobody == UNCHANGED waiting

NotifyOne ==
    \/ waiting = {} /\ UNCHANGED waiting
    \/ \E t \in waiting : waiting' = waiting \ {t}

PushNotify(p) ==
    /\ pc[p] = "notify"
    /\ NotifyOne
    /\ pc' = [pc EXCEPT ![p] = "idle"]
    /\ UNCHANGED <<jobs, stopping, stopped, hand, main, pushed, ran>>

-----------------------------------------------------------------------------
(* WorkerLoop: the flag, then Pop, then the job.                           *)
Loop(w) ==
    /\ pc[w] = "loop"
    /\ pc' = [pc EXCEPT ![w] = IF stopped THEN "exited" ELSE "pop"]
    /\ UNCHANGED <<jobs, stopping, stopped, waiting, hand, main, pushed, ran>>

PopSleepsOn(w) ==
    /\ pc[w] = "pop" /\ Awake(w)
    /\ \/ /\ jobs = <<>>
          /\ waiting' = waiting \cup {w}
          /\ UNCHANGED <<jobs, pc, hand>>
       \/ /\ jobs # <<>>
          /\ hand' = [hand EXCEPT ![w] = Head(jobs)]
          /\ jobs' = Tail(jobs)
          /\ pc' = [pc EXCEPT ![w] = "notify"]
          /\ UNCHANGED waiting
    /\ UNCHANGED <<stopping, stopped, main, pushed, ran>>

Pop(w) ==
    /\ pc[w] = "pop" /\ Awake(w)
    /\ \/ /\ jobs = <<>> /\ ~stopping
          /\ waiting' = waiting \cup {w}
          /\ UNCHANGED <<jobs, pc, hand>>
       \/ /\ jobs = <<>> /\ stopping
          /\ pc' = [pc EXCEPT ![w] = "exited"]
          /\ UNCHANGED <<jobs, waiting, hand>>
       \/ /\ jobs # <<>>
          /\ hand' = [hand EXCEPT ![w] = Head(jobs)]
          /\ jobs' = Tail(jobs)
          /\ pc' = [pc EXCEPT ![w] = "notify"]
          /\ UNCHANGED waiting
    /\ UNCHANGED <<stopping, stopped, main, pushed, ran>>

(* A bounded queue wakes a blocked pusher, or somebody else.               *)
PopNotify(w) ==
    /\ pc[w] = "notify"
    /\ IF Max > 0 THEN NotifyOne ELSE UNCHANGED waiting
    /\ pc' = [pc EXCEPT ![w] = "run"]
    /\ UNCHANGED <<jobs, stopping, stopped, hand, main, pushed, ran>>

Run(w) ==
    /\ pc[w] = "run"
    /\ ran' = ran \cup {hand[w]}
    /\ hand' = [hand EXCEPT ![w] = 0]
    /\ pc' = [pc EXCEPT ![w] = "loop"]
    /\ UNCHANGED <<jobs, stopping, stopped, waiting, main, pushed>>

-----------------------------------------------------------------------------
(* ThreadManager::Stop: the flag of the workers, JobQueue::Stop (the flag  *)
(* of the queue, then notify_all), then the join.                          *)
StopFlag ==
    /\ main = "running"
    /\ stopped' = TRUE
    /\ main' = "queue_stop"
    /\ UNCHANGED <<jobs, stopping, waiting, pc, hand, pushed, ran>>

StopQueue ==
    /\ main = "queue_stop"
    /\ stopping' = TRUE
    /\ main' = "notify_all"
    /\ UNCHANGED <<jobs, stopped, waiting, pc, hand, pushed, ran>>

NotifyAll ==
    /\ main = "notify_all"
    /\ waiting' = {}
    /\ main' = "join"
    /\ UNCHANGED <<jobs, stopping, stopped, pc, hand, pushed, ran>>

Join ==
    /\ main = "join"
    /\ \A w \in Workers : pc[w] = "exited"
    /\ main' = "joined"
    /\ UNCHANGED <<jobs, stopping, stopped, waiting, pc, hand, pushed, ran>>

-----------------------------------------------------------------------------
StopStep == StopQueue \/ NotifyAll \/ Join
PusherStep(p) == Push(p) \/ PushNotify(p)
WorkerStep(w) == Loop(w) \/ Pop(w) \/ PopNotify(w) \/ Run(w)

Next ==
    \/ StopFlag \/ StopStep
    \/ \E p \in Pushers : PushStart(p) \/ TryPush(p) \/ PusherStep(p)
    \/ \E w \in Workers : WorkerStep(w)

Spec == Init /\ [][Next]_vars

(* The operating system runs every thread that is awake.  Nobody has to    *)
(* push and nobody has to stop the server; a sleeper is woken only by a    *)
(* notification.                                                           *)
FairSpec ==
    /\ Spec
    /\ WF_vars(StopStep)
    /\ \A p \in Pushers : WF_vars(PusherStep(p))
    /\ \A w \in Workers : WF_vars(WorkerStep(w))

-----------------------------------------------------------------------------
Queued == {jobs[k] : k \in 1 .. Len(jobs)}
Held == {hand[w] : w \in Workers} \ {0}

(* The variables have their types.                                         *)
TypeOK ==
    /\ jobs \in Seq(Nat)
    /\ stopping \in BOOLEAN /\ stopped \in BOOLEAN
    /\ waiting \subseteq Threads
    /\ pc \in [Threads -> {"idle", "push", "notify", "loop", "pop", "run", "exited"}]
    /\ hand \in [Workers -> Nat]
    /\ main \in {"running", "queue_stop", "notify_all", "join", "joined"}
    /\ pushed \in Nat
    /\ ran \subseteq Nat

(* A bounded queue never holds more than max_size_ jobs, whichever threads *)
(* push and whenever they wake up.                                         *)
QueueBounded == Max > 0 => Len(jobs) <= Max

(* Every accepted job is queued, in the hand of a worker, or was run, and  *)
(* only one of them: no job is lost or run twice.                          *)
JobInOnePlace ==
    /\ 1 .. pushed = Queued \cup Held \cup ran
    /\ Queued \cap (Held \cup ran) = {} /\ Held \cap ran = {}
    /\ \A v, w \in Workers : v # w /\ hand[v] # 0 => hand[v] # hand[w]

(* Once JobQueue::Stop has returned nobody is asleep on the queue, neither *)
(* a worker nor a pusher, and nobody goes to sleep again: the join ends.   *)
NoSleeperAfterStop == main \in {"join", "joined"} => waiting = {}

(* Every job that was accepted is run in the end, unless the workers are   *)
(* being stopped.                                                          *)
QueuedJobsRun == <>[](stopped \/ ran = 1 .. pushed)

(* A blocked Push ends: a notification meant for it is not lost to a       *)
(* worker (contract of Push in job_queue.hpp).                             *)
BlockedPushEnds == \A p \in Pushers : []<>(pc[p] # "push")
=============================================================================
