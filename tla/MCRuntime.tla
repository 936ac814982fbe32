----------------------------- MODULE MCRuntime -----------------------------
(***************************************************************************)
(* What runs in a process, each part on its own: of server_app the job     *)
(* queue and its worker threads, the life of the process, the packet       *)
(* sessions, the Lua hooks and the native plugin chain; and the clients of *)
(* the load generator.  part names the one that runs; the job queue keeps  *)
(* its initial state and the variables of the others a blank meanwhile.    *)
(***************************************************************************)
EXTENDS JobQueue, Integers

CONSTANTS s1, s2, IoThreads, MaxOps, MaxNoise, Threshold, Addresses, MaxHosts

VARIABLES
    part,
    \* Lifecycle
    lConf, lMain, mainRead, lStopping, startup, ok, up, flips, listed, mine, tick, sched, probe,
    acceptor, arrived, sess, cleaned, io, workers, steps, drain,
    \* NetSession
    nConf, nCount, free, st, nStrand, made, reading, rblock, queue, writing, first, closes,
    sends,
    \* LoadGen
    plan, gMain, work, sock, connected, closing, auth, asked, events, req, ops, over, noise,
    gCount, gFailed, foreign,
    \* LuaHooks
    sConf, files, sLocked, active, tracked, loaded, epoch, seenEpoch, fails, disabled, sStrand,
    busy, mu, sPc, sHook, snap, sFailed, outcome, sCalls, sEdits, reloaded,
    \* PluginChain
    pConf, file, pLocked, readable, pEdits, byKey, ordered, hosts, cache, ppc, pfiles, plist,
    pPc, pHook, chain, mod, owed, pCalls

lifeVars == <<lConf, lMain, mainRead, lStopping, startup, ok, up, flips, listed, mine, tick,
              sched, probe, acceptor, arrived, sess, cleaned, io, workers, steps, drain>>
netVars == <<nConf, nCount, free, st, nStrand, made, reading, rblock, queue, writing, first,
             closes, sends>>
loadVars == <<plan, gMain, work, sock, connected, closing, auth, asked, events, req, ops, over,
              noise, gCount, gFailed, foreign>>
luaVars == <<sConf, files, sLocked, active, tracked, loaded, epoch, seenEpoch, fails, disabled,
             sStrand, busy, mu, sPc, sHook, snap, sFailed, outcome, sCalls, sEdits, reloaded>>
chainVars == <<pConf, file, pLocked, readable, pEdits, byKey, ordered, hosts, cache, ppc,
               pfiles, plist, pPc, pHook, chain, mod, owed, pCalls>>
rtVars == <<part, vars, lifeVars, netVars, loadVars, luaVars, chainVars>>

Scenario(deps, clients, n) == [deps |-> deps, clients |-> clients, flips |-> n]

\* Two clients and steady dependencies, one client and a dependency that
\* comes or goes, outages of both, and the configurations that name only one.
LifeConfigs ==
    {Scenario({"db", "redis"}, {s1, s2}, 0), Scenario({"db", "redis"}, {s1}, 1),
     Scenario({"db", "redis"}, {}, 2), Scenario({"db"}, {s1}, 1), Scenario({"redis"}, {}, 2)}

\* A limit of one connection, a pool and a queue that are too small.
NetConfigs ==
    {[limit |-> 1, blocks |-> 4, queue |-> 2, sends |-> 2],
     [limit |-> 2, blocks |-> 3, queue |-> 2, sends |-> 1],
     [limit |-> 2, blocks |-> 4, queue |-> 1, sends |-> 1]}

Session(transport, mode, join) == [transport |-> transport, mode |-> mode, join |-> join]

\* Two sessions of a chat run, one of each datagram transport, and pings.
LoadPlans ==
    {<<Session("tcp", "chat", TRUE), Session("tcp", "login_only", FALSE)>>,
     <<Session("udp", "login_only", FALSE), Session("rudp", "login_only", FALSE)>>,
     <<Session("tcp", "ping", FALSE)>>}

Script(start, places, removes, n, qualities, locks, hooks, queries, denies, k) ==
    [start |-> start, places |-> places, removes |-> removes, edits |-> n, qualities |-> qualities,
     locks |-> locks, hooks |-> hooks, queries |-> queries, denies |-> denies, calls |-> k]

\* Edits under the lock; hooks that fail; a script that asks the host from
\* the hooks that hold nothing; both directories edited.
LuaScenarios ==
    {Script({"primary"}, {"primary"}, FALSE, 3, {"ok"}, TRUE, {"on_login"}, FALSE, TRUE, 2),
     Script({"primary"}, {"primary"}, FALSE, 1, {"breaks", "invalid"}, FALSE, {"on_login"}, FALSE, FALSE, 2),
     Script({"primary"}, {"primary"}, FALSE, 1, {"breaks"}, FALSE, {"on_join", "on_leave"}, FALSE, FALSE, 2),
     Script({"primary"}, {}, FALSE, 0, {}, FALSE, {"on_session_event", "on_admin_command"}, TRUE, FALSE, 2),
     Script({"primary", "fallback"}, {"primary", "fallback"}, TRUE, 2, {"ok"}, FALSE, {"on_login"}, FALSE, FALSE, 1)}

Plugins == [explicit |-> FALSE, primary |-> <<"a", "b">>, fallback |-> <<"f">>, start |-> {"a", "f"},
            edited |-> {"a", "b"}, edits |-> 2, abi |-> "v2", abis |-> {"v2"}, removes |-> TRUE,
            locks |-> FALSE, hides |-> {}, flaky |-> FALSE, hooks |-> {}, calls |-> 0]

\* Directories edited under overlapping polls; a directory that cannot be
\* scanned; explicit paths, locks and broken files; calls during reloads.
ChainScenarios ==
    {Plugins,
     [Plugins EXCEPT !.fallback = <<>>, !.hides = {"primary"}, !.edited = {"b"}],
     [Plugins EXCEPT !.hides = {"primary", "fallback"}, !.edited = {}],
     [Plugins EXCEPT !.explicit = TRUE, !.locks = TRUE, !.abis = {"v2", "bad"}, !.edited = {"a"},
                     !.primary = <<"a">>, !.edits = 3],
     [Plugins EXCEPT !.start = {"a", "b"}, !.edited = {"a"}, !.abis = {"v1", "bad"}, !.flaky = TRUE,
                     !.hooks = {"on_chat_send", "on_login"}, !.calls = 1, !.removes = FALSE, !.edits = 1],
     [Plugins EXCEPT !.start = {"a"}, !.edited = {"a"}, !.edits = 1, !.calls = 1,
                     !.hooks = {"on_join", "on_leave", "on_session_event", "on_admin_command"}]}

Life == INSTANCE Lifecycle
            WITH Sessions <- {s1, s2}, Configs <- LifeConfigs, conf <- lConf, main <- lMain,
                 stopping <- lStopping
Net == INSTANCE NetSession
            WITH Sessions <- {s1, s2}, Configs <- NetConfigs, conf <- nConf, count <- nCount,
                 strand <- nStrand
Load == INSTANCE LoadGen
            WITH Plans <- LoadPlans, main <- gMain, count <- gCount, failed <- gFailed
Lua == INSTANCE LuaHooks
            WITH Callers <- {"w1", "w2"}, Scenarios <- LuaScenarios, conf <- sConf,
                 locked <- sLocked, strand <- sStrand, pc <- sPc, hook <- sHook, failed <- sFailed,
                 calls <- sCalls, edits <- sEdits
Chain == INSTANCE PluginChain
            WITH Callers <- {"w1"}, Pollers <- {"p1", "p2"}, Files <- {"a", "b", "f"},
                 Scenarios <- ChainScenarios, conf <- pConf, locked <- pLocked, edits <- pEdits,
                 pc <- pPc, hook <- pHook, calls <- pCalls

\* load_scenario lets the plans through.
ASSUME SessionsAssumption == \A p \in LoadPlans : Load!Loaded(p)

NoLife ==
    /\ lConf = "off" /\ lMain = "off" /\ mainRead = "off" /\ lStopping = "off"
    /\ startup = "off" /\ ok = "off" /\ up = "off" /\ flips = "off" /\ listed = "off"
    /\ mine = "off" /\ tick = "off" /\ sched = "off" /\ probe = "off" /\ acceptor = "off"
    /\ arrived = "off" /\ sess = "off" /\ cleaned = "off" /\ io = "off" /\ workers = "off"
    /\ steps = "off" /\ drain = "off"
NoNet ==
    /\ nConf = "off" /\ nCount = "off" /\ free = "off" /\ st = "off" /\ nStrand = "off"
    /\ made = "off" /\ reading = "off" /\ rblock = "off" /\ queue = "off" /\ writing = "off"
    /\ first = "off" /\ closes = "off" /\ sends = "off"
NoLoad ==
    /\ plan = "off" /\ gMain = "off" /\ work = "off" /\ sock = "off" /\ connected = "off"
    /\ closing = "off" /\ auth = "off" /\ asked = "off" /\ events = "off" /\ req = "off"
    /\ ops = "off" /\ over = "off" /\ noise = "off" /\ gCount = "off" /\ gFailed = "off"
    /\ foreign = "off"
NoLua ==
    /\ sConf = "off" /\ files = "off" /\ sLocked = "off" /\ active = "off"
    /\ tracked = "off" /\ loaded = "off" /\ epoch = "off" /\ seenEpoch = "off"
    /\ fails = "off" /\ disabled = "off" /\ sStrand = "off" /\ busy = "off" /\ mu = "off"
    /\ sPc = "off" /\ sHook = "off" /\ snap = "off" /\ sFailed = "off" /\ outcome = "off"
    /\ sCalls = "off" /\ sEdits = "off" /\ reloaded = "off"
NoChain ==
    /\ pConf = "off" /\ file = "off" /\ pLocked = "off" /\ readable = "off"
    /\ pEdits = "off" /\ byKey = "off" /\ ordered = "off" /\ hosts = "off" /\ cache = "off"
    /\ ppc = "off" /\ pfiles = "off" /\ plist = "off" /\ pPc = "off" /\ pHook = "off"
    /\ chain = "off" /\ mod = "off" /\ owed = "off" /\ pCalls = "off"

RtInit ==
    /\ Init
    /\ \/ part = "queue" /\ NoLife /\ NoNet /\ NoLoad /\ NoLua /\ NoChain
       \/ part = "life" /\ Life!Init /\ NoNet /\ NoLoad /\ NoLua /\ NoChain
       \/ part = "net" /\ Net!Init /\ NoLife /\ NoLoad /\ NoLua /\ NoChain
       \/ part = "load" /\ Load!Init /\ NoLife /\ NoNet /\ NoLua /\ NoChain
       \/ part = "lua" /\ Lua!Init /\ NoLife /\ NoNet /\ NoLoad /\ NoChain
       \/ part = "chain" /\ Chain!Init /\ NoLife /\ NoNet /\ NoLoad /\ NoLua

QueueStep(A) ==
    part = "queue" /\ A /\ UNCHANGED <<part, lifeVars, netVars, loadVars, luaVars, chainVars>>
LifeStep(A) ==
    part = "life" /\ A /\ UNCHANGED <<part, vars, netVars, loadVars, luaVars, chainVars>>
NetStep(A) ==
    part = "net" /\ A /\ UNCHANGED <<part, vars, lifeVars, loadVars, luaVars, chainVars>>
LoadStep(A) ==
    part = "load" /\ A /\ UNCHANGED <<part, vars, lifeVars, netVars, luaVars, chainVars>>
LuaStep(A) ==
    part = "lua" /\ A /\ UNCHANGED <<part, vars, lifeVars, netVars, loadVars, chainVars>>
ChainStep(A) ==
    part = "chain" /\ A /\ UNCHANGED <<part, vars, lifeVars, netVars, loadVars, luaVars>>

RtNext ==
    \/ QueueStep(Next) \/ LifeStep(Life!Next) \/ NetStep(Net!Next) \/ LoadStep(Load!Next)
    \/ LuaStep(Lua!Next) \/ ChainStep(Chain!Next)

\* The fairness of the job queue and of the process, whose liveness is checked:
\* every thread goes on.  Clients need not close their sessions.
QueueFair ==
    /\ WF_vars(part = "queue" /\ StopStep)
    /\ \A p \in Pushers : WF_vars(part = "queue" /\ PusherStep(p))
    /\ \A w \in Workers : WF_vars(part = "queue" /\ WorkerStep(w))
LifeFair ==
    /\ WF_lifeVars(part = "life" /\ (Life!ShutsDown \/ Life!JoinIo))
    /\ WF_lifeVars(part = "life" /\ Life!Ends)

RtSpec == RtInit /\ [][RtNext]_rtVars /\ QueueFair /\ LifeFair

----------------------------------------------------------------------------
\* The properties of the other parts, each of the part that runs.

\* Lifecycle: an instance listed as ready serves.
ReadyIsServing == part = "life" => Life!ReadyIsServing

\* Lifecycle: a process that is asked to stop comes to an end.
StopCompletes == (part = "life" /\ lStopping) ~> (part = "life" /\ ~Life!Alive)

\* NetSession: no block of the pool is lost or returned twice.
PoolConserved == part = "net" => Net!PoolConserved

\* NetSession: a queued packet of an open session is being written.
SendQueueMoves == part = "net" => Net!SendQueueMoves

\* LoadGen: a thread takes only the answer to its own request.
AnswersMatch == part = "load" => Load!AnswersMatch

\* LuaHooks: no handler gets past scripts that deny.
DenyHolds == part = "lua" => Lua!DenyHolds

\* PluginChain: a handler that goes on asked every plugin.
EveryPluginAsked == part = "chain" => Chain!EveryPluginAsked

\* PluginChain: no version of a plugin file is passed over.
NoVersionMissed == part = "chain" => Chain!NoVersionMissed

============================================================================
