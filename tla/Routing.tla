------------------------------ MODULE Routing ------------------------------
(***************************************************************************)
(* How the gateways route clients to servers: every gateway keeps a cache  *)
(* of the instance registry, reloaded at most once per interval, and a     *)
(* SessionDirectory, a local cache over bindings kept in Redis.  An        *)
(* attempt of a client at a gateway selects a server, connects, and only   *)
(* then binds the client to it; every call to Redis is a step of its own,  *)
(* so that attempts at two gateways, the servers and Redis interleave.     *)
(***************************************************************************)
EXTENDS Integers, FiniteSets

CONSTANTS
    Servers, Clients, Gateways,
    NoServer,   \* no server
    Menus       \* scenarios: the attempts <<gateway, client>> that are made, the
                \* servers that come and go, how often they and Redis change

VARIABLES
    menu,     \* the scenario
    listed,   \* the registry in Redis: each server's record
    serving,  \* the servers that accept connections
    redis,    \* Redis answers
    changes, outages,
    cache,    \* RedisInstanceStateBackend::cache_ of each gateway
    due,      \* reload_min_interval_ has passed since the last attempt
    loading,  \* reload_in_progress_
    binding,  \* the directory's keys in Redis
    local,    \* SessionDirectory::cache_ of each gateway
    at,       \* where each attempt is
    seen,     \* the instances it got from list_instances
    target    \* the server it found or selected

world == <<menu, listed, serving, redis, changes, outages>>
list  == <<cache, due, loading>>
dir   == <<binding, local>>
vars  == <<world, list, dir, at, seen, target>>

Attempts == Gateways \X Clients
Records == {"none", "notready", "ready"}
Gone == [b \in Servers |-> "none"]
MaybeServer == Servers \cup {NoServer}

Gw(a) == a[1]
Cl(a) == a[2]
Local(a) == local[Gw(a)][Cl(a)]
LocalSet(a, b) == local' = [local EXCEPT ![Gw(a)][Cl(a)] = b]
To(a, place) == at' = [at EXCEPT ![a] = place]
Sees(a, records) == seen' = [seen EXCEPT ![a] = records]
Aim(a, b) == target' = [target EXCEPT ![a] = b]

Init ==
    /\ menu \in Menus
    /\ listed = [b \in Servers |-> "ready"] /\ serving = Servers
    /\ redis = TRUE /\ changes = 0 /\ outages = 0
    /\ cache = [g \in Gateways |-> Gone]
    /\ due = [g \in Gateways |-> TRUE] /\ loading = [g \in Gateways |-> FALSE]
    /\ binding = [c \in Clients |-> NoServer]
    /\ local = [g \in Gateways |-> [c \in Clients |-> NoServer]]
    /\ at = [a \in Attempts |-> "idle"]
    /\ seen = [a \in Attempts |-> Gone]
    /\ target = [a \in Attempts |-> NoServer]

----------------------------------------------------------------------------
\* RedisInstanceStateBackend::list_instances.

\* One caller at a time reloads, once per interval.
Reloads(g) == due[g] /\ ~loading[g]

\* An attempt starts.
ListInstances(a) ==
    /\ a \in menu.attempts /\ at[a] = "idle"
    /\ due' = [due EXCEPT ![Gw(a)] = FALSE]
    /\ IF Reloads(Gw(a))
       THEN To(a, "scan") /\ loading' = [loading EXCEPT ![Gw(a)] = TRUE]
       ELSE To(a, "copy") /\ UNCHANGED loading
    /\ UNCHANGED <<world, cache, dir, seen, target>>

\* The reload clears its flag; only when Redis answered, for comparison.
LoadedUnlessDown(g) == loading' = [loading EXCEPT ![g] = ~redis]
Loaded(g) == loading' = [loading EXCEPT ![g] = FALSE]

\* The keys; without an answer the cache stays as it was.
ScanKeys(a) ==
    /\ at[a] = "scan"
    /\ IF redis
       THEN /\ To(a, "load") /\ Sees(a, listed)
            /\ UNCHANGED loading
       ELSE /\ To(a, "copy") /\ Loaded(Gw(a)) /\ UNCHANGED seen
    /\ UNCHANGED <<world, cache, due, dir, target>>

\* The records of those keys; one that is gone by now is skipped.  When the
\* MGET fails each is asked for by itself, and the ones that Redis does not
\* answer are skipped too.  Then the cache is replaced.
LoadRecords(a) ==
    /\ at[a] = "load"
    /\ \E got \in IF redis THEN {Servers} ELSE SUBSET Servers :
          cache' = [cache EXCEPT ![Gw(a)] =
             [b \in Servers |-> IF b \in got /\ seen[a][b] # "none" THEN listed[b] ELSE "none"]]
    /\ To(a, "copy") /\ Loaded(Gw(a)) /\ Sees(a, Gone)
    /\ UNCHANGED <<world, due, dir, target>>

----------------------------------------------------------------------------
\* GatewayApp::select_best_server.

\* The cache is copied; an empty list ends the attempt; a binding the
\* gateway remembers is taken without asking Redis.
CopyInstances(a) ==
    /\ at[a] = "copy"
    /\ Sees(a, cache[Gw(a)])
    /\ IF cache[Gw(a)] = Gone
       THEN To(a, "idle") /\ UNCHANGED target
       ELSE To(a, IF Local(a) = NoServer THEN "find" ELSE "found") /\ Aim(a, Local(a))
    /\ UNCHANGED <<world, list, dir>>

\* SessionDirectory::find_backend asks Redis and remembers the answer.
FindBackend(a) ==
    /\ at[a] = "find"
    /\ LET b == IF redis THEN binding[Cl(a)] ELSE NoServer
       IN  IF b = NoServer THEN To(a, "choose") /\ UNCHANGED <<local, target>>
                           ELSE To(a, "found") /\ LocalSet(a, b) /\ Aim(a, b)
    /\ UNCHANGED <<world, list, binding, seen>>

\* A bound server is used when it is listed as ready; otherwise the binding
\* is released, here in the gateway's own cache ...
UseBinding(a) ==
    /\ at[a] = "found"
    /\ IF seen[a][target[a]] = "ready"
       THEN To(a, "connect") /\ Sees(a, Gone) /\ UNCHANGED local
       ELSE /\ To(a, "release") /\ UNCHANGED seen
            /\ IF Local(a) = target[a] THEN LocalSet(a, NoServer) ELSE UNCHANGED local
    /\ UNCHANGED <<world, list, binding, target>>

\* ... and in Redis if it still is the binding there; deleting whatever is
\* there, for comparison.
DelAlways(c, b) == [binding EXCEPT ![c] = NoServer]
DelIfEquals(c, b) == [binding EXCEPT ![c] = IF @ = b THEN NoServer ELSE @]

ReleaseBackend(a) ==
    /\ at[a] = "release"
    /\ binding' = IF redis THEN DelIfEquals(Cl(a), target[a]) ELSE binding
    /\ To(a, "choose") /\ Aim(a, NoServer)
    /\ UNCHANGED <<world, list, local, seen>>

\* A server listed as ready, whichever has the fewest sessions.
ChooseServer(a) ==
    /\ at[a] = "choose"
    /\ \/ \E b \in Servers : seen[a][b] = "ready" /\ Aim(a, b) /\ To(a, "connect")
       \/ (\A b \in Servers : seen[a][b] # "ready") /\ To(a, "idle") /\ UNCHANGED target
    /\ Sees(a, Gone)
    /\ UNCHANGED <<world, list, dir>>

----------------------------------------------------------------------------
\* The connection, and the binding once it is made.

Connects(a) ==
    /\ at[a] = "connect"
    /\ IF target[a] \in serving
       THEN To(a, "ensure") /\ UNCHANGED target
       ELSE To(a, "idle") /\ Aim(a, NoServer)
    /\ UNCHANGED <<world, list, dir, seen>>

\* SessionDirectory::ensure_backend: a binding the gateway remembers stays,
\* right or wrong (its time to live is renewed if it is this server) ...
EnsureLocal(a) ==
    /\ at[a] = "ensure"
    /\ To(a, IF Local(a) # NoServer THEN "connected" ELSE "ask")
    /\ UNCHANGED <<world, list, dir, seen, target>>

\* ... else Redis is asked for one ...
EnsureAsks(a) ==
    /\ at[a] = "ask"
    /\ IF redis /\ binding[Cl(a)] # NoServer
       THEN To(a, "connected") /\ LocalSet(a, binding[Cl(a)])
       ELSE To(a, "setnx") /\ UNCHANGED local
    /\ UNCHANGED <<world, list, binding, seen, target>>

\* ... else this server is bound, if nobody bound one in between.
SetIfNotExists(a) == redis /\ binding[Cl(a)] = NoServer

EnsureBinds(a) ==
    /\ at[a] = "setnx"
    /\ IF SetIfNotExists(a)
       THEN /\ binding' = [binding EXCEPT ![Cl(a)] = target[a]]
            /\ LocalSet(a, target[a]) /\ To(a, "connected")
       ELSE To(a, "reread") /\ UNCHANGED dir
    /\ UNCHANGED <<world, list, seen, target>>

\* ... and whoever bound one is asked; without an answer the gateway
\* remembers its own choice.
EnsureRereads(a) ==
    /\ at[a] = "reread"
    /\ LocalSet(a, IF redis /\ binding[Cl(a)] # NoServer THEN binding[Cl(a)] ELSE target[a])
    /\ To(a, "connected")
    /\ UNCHANGED <<world, list, binding, seen, target>>

\* The connection ends, and the client may come again.
Disconnects(a) ==
    /\ at[a] = "connected" /\ To(a, "idle") /\ Aim(a, NoServer)
    /\ UNCHANGED <<world, list, dir, seen>>

----------------------------------------------------------------------------
\* Time and the world.

IntervalPasses(g) ==
    /\ ~due[g] /\ due' = [due EXCEPT ![g] = TRUE]
    /\ UNCHANGED <<world, cache, loading, dir, at, seen, target>>

LocalExpires(g, c) ==
    /\ local[g][c] # NoServer /\ local' = [local EXCEPT ![g][c] = NoServer]
    /\ UNCHANGED <<world, list, binding, at, seen, target>>

BindingExpires(c) ==
    /\ binding[c] # NoServer /\ binding' = [binding EXCEPT ![c] = NoServer]
    /\ UNCHANGED <<world, list, local, at, seen, target>>

\* A server's record changes or lapses, or the server stops or starts
\* listening; the two need not agree.
ServerChanges(b) ==
    /\ b \in menu.movers /\ changes < menu.changes /\ changes' = changes + 1
    /\ \/ \E r \in Records \ {listed[b]} : listed' = [listed EXCEPT ![b] = r] /\ UNCHANGED serving
       \/ serving' = (IF b \in serving THEN serving \ {b} ELSE serving \cup {b}) /\ UNCHANGED listed
    /\ UNCHANGED <<menu, redis, outages, list, dir, at, seen, target>>

RedisFails ==
    /\ redis /\ outages < menu.outages
    /\ redis' = FALSE /\ outages' = outages + 1
    /\ UNCHANGED <<menu, listed, serving, changes, list, dir, at, seen, target>>

RedisRecovers ==
    /\ ~redis /\ redis' = TRUE
    /\ UNCHANGED <<menu, listed, serving, changes, outages, list, dir, at, seen, target>>

----------------------------------------------------------------------------
Goes(a) ==
    \/ ListInstances(a) \/ ScanKeys(a) \/ LoadRecords(a) \/ CopyInstances(a)
    \/ FindBackend(a) \/ UseBinding(a) \/ ReleaseBackend(a) \/ ChooseServer(a)
    \/ Connects(a) \/ EnsureLocal(a) \/ EnsureAsks(a) \/ EnsureBinds(a) \/ EnsureRereads(a)

Next ==
    \/ \E a \in Attempts : Goes(a) \/ Disconnects(a)
    \/ \E g \in Gateways : IntervalPasses(g) \/ \E c \in Clients : LocalExpires(g, c)
    \/ \E c \in Clients : BindingExpires(c)
    \/ \E b \in Servers : ServerChanges(b)
    \/ RedisFails \/ RedisRecovers

Spec == Init /\ [][Next]_vars

\* A client that is not connected tries again, an attempt goes on, the
\* reload interval passes, and Redis comes back.
FairSpec ==
    /\ Spec
    /\ \A a \in Attempts : WF_vars(Goes(a))
    /\ \A g \in Gateways : WF_vars(IntervalPasses(g))
    /\ WF_vars(RedisRecovers)

----------------------------------------------------------------------------
TypeOK ==
    /\ cache \in [Gateways -> [Servers -> Records]]
    /\ binding \in [Clients -> MaybeServer]
    /\ local \in [Gateways -> [Clients -> MaybeServer]]
    /\ target \in [Attempts -> MaybeServer]
    /\ \A g \in Gateways : Cardinality({a \in Attempts : Gw(a) = g /\ at[a] \in {"scan", "load"}}) <= 1

\* Nobody takes a binding away from another: a binding in Redis is never
\* replaced by another server in one step, and it is removed only when it
\* lapses or by an attempt that found this very server not ready.
BindingKept ==
    \A c \in Clients :
        binding[c] # NoServer /\ binding'[c] # binding[c] =>
            /\ binding'[c] = NoServer
            /\ \/ UNCHANGED at
               \/ \E a \in Attempts : Cl(a) = c /\ at[a] = "release" /\ target[a] = binding[c]
BindingsRespected == [][BindingKept]_vars

\* A client that keeps trying is served again and again, provided that in
\* the end some server is listed as ready and what is listed as ready
\* serves: stale lists, stale bindings and outages of Redis do not shut it
\* out.
ListTrue ==
    /\ \E b \in Servers : listed[b] = "ready"
    /\ \A b \in Servers : listed[b] = "ready" => b \in serving
KeepsBeingServed ==
    <>[]ListTrue => \A a \in Attempts : a \in menu.attempts => []<>(at[a] = "connected")
============================================================================
