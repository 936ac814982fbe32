----------------------------- MODULE Lifecycle -----------------------------
(***************************************************************************)
(* The life of one server_app process: run_server boots it step by step,   *)
(* AppHost computes its readiness, the scheduler's tick publishes it in    *)
(* the Redis instance registry, and the termination signal runs the        *)
(* shutdown steps, last added first, on one of the io threads.             *)
(*                                                                         *)
(* Four kinds of thread interleave: the main thread (main, mainRead), the  *)
(* io threads (the signal handler, the scheduler's tick, the accept and    *)
(* close handlers), the worker threads (health checks and the clean-up     *)
(* of a closed session) and the world (dependencies that go up and down,   *)
(* clients, Redis expiring a key, a crash).  At most IoThreads handlers    *)
(* run at a time.                                                          *)
(***************************************************************************)
EXTENDS Integers, Sequences, SequencesExt, FiniteSets

CONSTANTS
    Sessions,   \* the connections clients may open
    Configs,    \* scenarios: the dependencies configured (DB_URI, REDIS_URI), the
                \* clients that come, how often a dependency goes up or down
    IoThreads   \* how many threads run the io_context

Deps == {"db", "redis"}
Listing == {"none", "notready", "ready"}

VARIABLES
    conf,     \* the scenario
    main,     \* where the main thread is in run_server
    mainRead, \* what it read of ready() before its upsert
    stopping, \* AppHost::stop_requested_
    startup,  \* AppHost::startup_ready_
    ok,       \* the entries of AppHost's DependencyRegistry
    up,       \* the dependencies that answer, a fact of the world
    flips,    \* how often that changed
    listed,   \* this instance's key in the Redis registry
    mine,     \* registry_registered
    tick,     \* the heartbeat task: idle, or what it read of ready()
    sched,    \* the scheduler: "off", "on", "beats" once it has a heartbeat, "down"
    probe,    \* the periodic health check of a dependency
    acceptor, \* "off", "on", "stopped"
    arrived,  \* an accept has completed and its handler is queued
    sess,     \* the life of each session
    cleaned,  \* the sessions whose on_session_close job has run
    io,       \* the io_context: "off", "on", "stopped"
    workers,  \* the worker threads: "off", "on", "stopping", "stopped"
    steps,    \* the shutdown steps still to run, in the order they were added
    drain     \* how the drain ended

boot  == <<conf, main, mainRead, startup>>
reg   == <<listed, mine, tick>>
net   == <<acceptor, arrived, sess, cleaned>>
world == <<up, flips>>
down  == <<stopping, steps, drain>>
vars  == <<boot, reg, net, world, down, ok, sched, probe, io, workers>>

\* In the order they are added.  The steps that touch nothing modelled here
\* (the pool, the timer, Lua, the metrics server, pub/sub) are left out.
ShutdownSteps ==
    <<"stop workers", "stop io_context", "drain active sessions", "stop acceptor",
      "shutdown scheduler", "deregister instance">>

\* The dependencies declared: the database always, Redis when configured.
Declared == {"db"} \cup conf.deps

\* DependencyRegistry::compute_ok.
DepsOk == \A d \in Declared : ok[d]

\* AppHost::ready; the dependencies alone, for comparison.
ReadyDeps == DepsOk
Ready == startup /\ DepsOk

ListingOf(ready) == IF ready THEN "ready" ELSE "notready"

Alive == main \notin {"failed", "stopped", "crashed"}

Count == Cardinality({s \in Sessions : sess[s] = "open"})

\* The io threads that are inside a handler.
SignalRuns == stopping /\ steps # <<>>
Busy == (IF SignalRuns THEN 1 ELSE 0) + (IF tick # "idle" THEN 1 ELSE 0)
        + Cardinality({s \in Sessions : sess[s] = "uncounted"})
IoFree == Alive /\ io = "on" /\ Busy < IoThreads

Init ==
    /\ conf \in Configs
    /\ main = "config" /\ mainRead = "none"
    /\ stopping = FALSE /\ startup = FALSE
    /\ ok = [d \in Deps |-> FALSE]
    /\ up \in [Deps -> BOOLEAN] /\ flips = 0
    /\ listed = "none" /\ mine = FALSE /\ tick = "idle"
    /\ sched = "off" /\ probe = [d \in Deps |-> "off"]
    /\ acceptor = "off" /\ arrived = FALSE
    /\ sess = [s \in Sessions |-> "none"] /\ cleaned = {}
    /\ io = "off" /\ workers = "off"
    /\ steps = <<>> /\ drain = "no"

----------------------------------------------------------------------------
\* The main thread: run_server.

\* Configuration, the core components and the scheduler's first tick.
BootCore ==
    /\ main = "config"
    /\ main' = "db" /\ sched' = "on"
    /\ UNCHANGED <<conf, mainRead, startup, reg, net, world, down, ok, probe, io, workers>>

\* The database pool: a failed health check ends the process, no DB_URI
\* leaves the dependency unmet.
BootDb ==
    /\ main = "db"
    /\ IF "db" \in conf.deps
       THEN /\ main' = IF up["db"] THEN "redis" ELSE "failed"
            /\ ok' = [ok EXCEPT !["db"] = up["db"]]
            /\ probe' = [probe EXCEPT !["db"] = IF up["db"] THEN "idle" ELSE @]
       ELSE main' = "redis" /\ UNCHANGED <<ok, probe>>
    /\ UNCHANGED <<conf, mainRead, startup, reg, net, world, down, sched, io, workers>>

\* The Redis client and its first health check, which may fail.
BootRedis ==
    /\ main = "redis"
    /\ main' = "register"
    /\ ok' = [ok EXCEPT !["redis"] = "redis" \in conf.deps /\ up["redis"]]
    /\ probe' = [probe EXCEPT !["redis"] = IF "redis" \in conf.deps THEN "idle" ELSE @]
    /\ UNCHANGED <<conf, mainRead, startup, reg, net, world, down, sched, io, workers>>

\* The first upsert: only when it succeeds is the heartbeat scheduled.
BootRegister ==
    /\ main = "register"
    /\ main' = "listen"
    /\ mine' = ("redis" \in conf.deps /\ up["redis"])
    /\ listed' = IF mine' THEN ListingOf(Ready) ELSE listed
    /\ sched' = IF mine' THEN "beats" ELSE sched
    /\ UNCHANGED <<conf, mainRead, startup, tick, net, world, down, ok, probe, io, workers>>

\* The chat service, its routes and the listener.
BootListen ==
    /\ main = "listen"
    /\ main' = "threads" /\ acceptor' = "on"
    /\ UNCHANGED <<conf, mainRead, startup, reg, arrived, sess, cleaned, world, down, ok,
                   sched, probe, io, workers>>

\* The worker threads and the io threads.
BootThreads ==
    /\ main = "threads"
    /\ main' = "ready" /\ workers' = "on" /\ io' = "on"
    /\ UNCHANGED <<conf, mainRead, startup, reg, net, world, down, ok, sched, probe>>

\* set_ready(true), and ready() read for the ready-state upsert.
BootReady ==
    /\ main = "ready"
    /\ main' = "announce" /\ startup' = TRUE
    /\ mainRead' = IF mine THEN ListingOf(DepsOk) ELSE "none"
    /\ UNCHANGED <<conf, reg, net, world, down, ok, sched, probe, io, workers>>

\* The upsert of what was read; then the shutdown steps are added and the
\* termination signals are installed.
BootAnnounce ==
    /\ main = "announce"
    /\ main' = "wait" /\ mainRead' = "none"
    /\ listed' = IF mainRead # "none" /\ up["redis"] THEN mainRead ELSE listed
    /\ steps' = ShutdownSteps
    /\ UNCHANGED <<conf, startup, mine, tick, net, world, stopping, drain, ok, sched, probe,
                   io, workers>>

\* The io threads have returned: the state is published as stopped, the
\* instance removed if it still counts as registered, the rest torn down.
JoinIo ==
    /\ main = "wait" /\ io = "stopped" /\ Busy = 0
    /\ main' = "stopped" /\ startup' = FALSE /\ sched' = "down"
    /\ listed' = IF mine /\ up["redis"] THEN "none" ELSE listed
    /\ UNCHANGED <<conf, mainRead, mine, tick, net, world, down, ok, probe, io, workers>>

----------------------------------------------------------------------------
\* The scheduler's tick, on an io thread.

\* A periodic task runs, and is scheduled again, until the shutdown.
SchedulerUp == sched \in {"on", "beats"}
Polls == IoFree /\ SchedulerUp

\* The heartbeat task reads ready(), the session count and the clock, and
\* does not ask whether the instance was deregistered ...
HeartbeatReads ==
    /\ Polls /\ sched = "beats" /\ tick = "idle"
    /\ tick' = ListingOf(Ready)
    /\ UNCHANGED <<boot, listed, mine, net, world, down, ok, sched, probe, io, workers>>

\* ... and upserts the record it made of them, whatever happened since.
HeartbeatUpserts ==
    /\ Alive /\ tick # "idle"
    /\ listed' = IF up["redis"] THEN tick ELSE listed
    /\ tick' = "idle"
    /\ UNCHANGED <<boot, mine, net, world, down, ok, sched, probe, io, workers>>

\* The minute's health check is pushed to the job queue.
ProbeQueued(d) ==
    /\ Polls /\ probe[d] = "idle"
    /\ probe' = [probe EXCEPT ![d] = "queued"]
    /\ UNCHANGED <<boot, reg, net, world, down, ok, sched, io, workers>>

\* A worker runs it: the answer first ...
ProbeRuns(d) ==
    /\ Alive /\ workers = "on" /\ probe[d] = "queued"
    /\ probe' = [probe EXCEPT ![d] = IF up[d] THEN "good" ELSE "bad"]
    /\ UNCHANGED <<boot, reg, net, world, down, ok, sched, io, workers>>

\* ... then set_dependency_ok, under the registry's lock.
ProbeSets(d) ==
    /\ Alive /\ probe[d] \in {"good", "bad"}
    /\ ok' = [ok EXCEPT ![d] = probe[d] = "good"]
    /\ probe' = [probe EXCEPT ![d] = "idle"]
    /\ UNCHANGED <<boot, reg, net, world, down, sched, io, workers>>

----------------------------------------------------------------------------
\* Connections.

\* async_accept completes; its handler is queued and no stop takes it back.
Arrives ==
    /\ Alive /\ io = "on" /\ acceptor = "on" /\ ~arrived
    /\ \E s \in conf.clients : sess[s] = "none"
    /\ arrived' = TRUE
    /\ UNCHANGED <<boot, reg, acceptor, sess, cleaned, world, down, ok, sched, probe, io, workers>>

\* The accept handler makes a session, stopped acceptor or not, and accepts
\* on while the acceptor runs.
Accepts(s) ==
    /\ IoFree /\ arrived /\ sess[s] = "none" /\ s \in conf.clients
    /\ sess' = [sess EXCEPT ![s] = "open"] /\ arrived' = FALSE
    /\ UNCHANGED <<boot, reg, acceptor, cleaned, world, down, ok, sched, probe, io, workers>>

\* Session::stop: the count goes down first ...
Closes(s) ==
    /\ IoFree /\ sess[s] = "open"
    /\ sess' = [sess EXCEPT ![s] = "uncounted"]
    /\ UNCHANGED <<boot, reg, acceptor, arrived, cleaned, world, down, ok, sched, probe, io,
                   workers>>

\* ... then on_close_ pushes the clean-up of the session; a stopped queue
\* drops it.
OnSessionClose(s) ==
    /\ Alive /\ sess[s] = "uncounted"
    /\ sess' = [sess EXCEPT ![s] = IF workers = "on" THEN "queued" ELSE "dropped"]
    /\ UNCHANGED <<boot, reg, acceptor, arrived, cleaned, world, down, ok, sched, probe, io,
                   workers>>

\* A worker runs the clean-up: rooms, presence and the audit record.
CleansUp(s) ==
    /\ Alive /\ workers = "on" /\ sess[s] = "queued"
    /\ sess' = [sess EXCEPT ![s] = "closed"] /\ cleaned' = cleaned \cup {s}
    /\ UNCHANGED <<boot, reg, acceptor, arrived, world, down, ok, sched, probe, io, workers>>

----------------------------------------------------------------------------
\* The termination signal and the shutdown steps, on one io thread.

Signal ==
    /\ main = "wait" /\ IoFree /\ ~stopping
    /\ stopping' = TRUE /\ startup' = FALSE
    /\ UNCHANGED <<conf, main, mainRead, reg, net, world, steps, drain, ok, sched, probe, io,
                   workers>>

\* run_shutdown_steps takes them in the reverse of the order they were added.
NextStep == Last(steps)

StepIs(name) == Alive /\ SignalRuns /\ NextStep = name
StepDone == steps' = Remove(steps, NextStep)

Deregister ==
    /\ StepIs("deregister instance") /\ StepDone
    /\ listed' = IF mine /\ up["redis"] THEN "none" ELSE listed
    /\ mine' = FALSE
    /\ UNCHANGED <<boot, tick, net, world, stopping, drain, ok, sched, probe, io, workers>>

ShutdownScheduler ==
    /\ StepIs("shutdown scheduler") /\ StepDone
    /\ sched' = "down"
    /\ UNCHANGED <<boot, reg, net, world, stopping, drain, ok, probe, io, workers>>

StopAcceptor ==
    /\ StepIs("stop acceptor") /\ StepDone
    /\ acceptor' = "stopped"
    /\ UNCHANGED <<boot, reg, arrived, sess, cleaned, world, stopping, drain, ok, sched, probe,
                   io, workers>>

\* The drain polls the count until it is zero or the time is up; until it is
\* zero, for comparison.
DrainWaits(how) == how = "completed" /\ Count = 0
DrainEnds(how) == how = "completed" <=> Count = 0

DrainSessions ==
    /\ StepIs("drain active sessions") /\ StepDone
    /\ \E how \in {"completed", "timeout"} : DrainEnds(how) /\ drain' = how
    /\ UNCHANGED <<boot, reg, net, world, stopping, ok, sched, probe, io, workers>>

StopIo ==
    /\ StepIs("stop io_context") /\ StepDone
    /\ io' = "stopped"
    /\ UNCHANGED <<boot, reg, net, world, stopping, drain, ok, sched, probe, workers>>

\* ThreadManager::Stop: the queue stops, then every worker is joined, the
\* jobs still queued are not run.
StopWorkers ==
    /\ StepIs("stop workers")
    /\ \/ /\ workers = "on" /\ workers' = "stopping" /\ steps' = steps
       \/ /\ workers = "stopping" /\ \A d \in Deps : probe[d] \notin {"good", "bad"}
          /\ workers' = "stopped" /\ StepDone
    /\ UNCHANGED <<boot, reg, net, world, stopping, drain, ok, sched, probe, io>>

----------------------------------------------------------------------------
\* The world.

DependencyFlips(d) ==
    /\ Alive /\ flips < conf.flips
    /\ up' = [up EXCEPT ![d] = ~@] /\ flips' = flips + 1
    /\ UNCHANGED <<boot, reg, net, down, ok, sched, probe, io, workers>>

KeyExpires ==
    /\ listed # "none" /\ listed' = "none"
    /\ UNCHANGED <<boot, mine, tick, net, world, down, ok, sched, probe, io, workers>>

\* The process is killed; before the signals are installed a SIGTERM is
\* such a kill.
Crash ==
    /\ Alive /\ main' = "crashed"
    /\ UNCHANGED <<conf, mainRead, startup, reg, net, world, down, ok, sched, probe, io, workers>>

----------------------------------------------------------------------------
Boots == BootCore \/ BootDb \/ BootRedis \/ BootRegister \/ BootListen \/ BootThreads
         \/ BootReady \/ BootAnnounce \/ JoinIo
Heartbeat == HeartbeatReads \/ HeartbeatUpserts
Probes(d) == ProbeQueued(d) \/ ProbeRuns(d) \/ ProbeSets(d)
ShutsDown == Deregister \/ ShutdownScheduler \/ StopAcceptor
             \/ DrainSessions \/ StopIo \/ StopWorkers

Next ==
    \/ Boots \/ Heartbeat \/ ShutsDown \/ Signal \/ Arrives \/ KeyExpires \/ Crash
    \/ \E d \in Deps : Probes(d) \/ DependencyFlips(d)
    \/ \E s \in Sessions : Accepts(s) \/ Closes(s) \/ OnSessionClose(s) \/ CleansUp(s)

Spec == Init /\ [][Next]_vars

\* What is under way on the io threads and the workers comes to its end, the
\* calls to Redis and to the database included.
Ends ==
    \/ HeartbeatUpserts \/ (\E d \in Deps : ProbeSets(d))
    \/ \E s \in Sessions : OnSessionClose(s)

----------------------------------------------------------------------------
\* What the process promises.

TypeOK ==
    /\ main \in {"config", "db", "redis", "register", "listen", "threads", "ready",
                 "announce", "wait", "stopped", "failed", "crashed"}
    /\ mainRead \in Listing /\ listed \in Listing /\ tick \in {"idle", "notready", "ready"}
    /\ stopping \in BOOLEAN /\ startup \in BOOLEAN /\ mine \in BOOLEAN /\ arrived \in BOOLEAN
    /\ ok \in [Deps -> BOOLEAN] /\ up \in [Deps -> BOOLEAN] /\ flips \in 0..conf.flips
    /\ probe \in [Deps -> {"off", "idle", "queued", "good", "bad"}]
    /\ sess \in [Sessions -> {"none", "open", "uncounted", "queued", "dropped", "closed"}]
    /\ Busy <= IoThreads

\* A live instance that the registry lists as ready, and that was not asked
\* to stop, has a listener, io threads and workers behind it: the record is
\* first written before any of them exists.
ReadyIsServing ==
    listed = "ready" /\ Alive /\ ~stopping =>
        acceptor = "on" /\ io = "on" /\ workers = "on"

\* A process that is asked to stop comes to an end, although its sessions may
\* never close and the drain holds one of the threads that serve them.
StopCompletes == stopping ~> ~Alive

\* A process that stopped in good order, Redis answering all along, has
\* removed its key.
GoneWhenStopped == main = "stopped" /\ flips = 0 => listed = "none"

\* A process that stopped in good order has run the clean-up of every
\* session that closed: the close pushed it to the job queue.
ClosedIsCleaned ==
    main = "stopped" => \A s \in Sessions : sess[s] \notin {"queued", "dropped"}
============================================================================
