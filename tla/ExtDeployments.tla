--------------------------- MODULE ExtDeployments ---------------------------
(***************************************************************************)
(* The extension control plane of admin_app (tools/admin_app/main.cpp):    *)
(* HTTP handlers submit and schedule deployments of artifacts, the poll    *)
(* thread refreshes the caches, finds the due commands and rolls them out  *)
(* wave by wave, and every change is saved to a JSON file by a chain of    *)
(* file operations.  The process may crash between any two of its steps    *)
(* and is restarted from the file.                                         *)
(*                                                                         *)
(* ext_mutex_ is the variable "lock".  A save runs under it, one file      *)
(* operation at a time, because a crash may fall between two of them.      *)
(***************************************************************************)
EXTENDS Integers, Sequences, FiniteSets, SequencesExt

CONSTANTS
    Commands,       \* command_id values, the idempotency keys
    Artifacts,      \* artifact_id values
    Manifest,       \* artifact -> the fields of its manifest
    Servers,        \* instance ids; naturals, so that they sort
    Selectors,      \* the sets of servers a selector may match
    WavePlans,      \* the rollout_strategy.waves a request may carry
    Rollbacks,      \* request -> the values of rollback_on_failure it may carry
    ForceFailWave,  \* ADMIN_EXT_FORCE_FAIL_WAVE_INDEX, 0 when unset
    MaxSkew,        \* ADMIN_EXT_MAX_CLOCK_SKEW_MS, in clock ticks
    MaxTime,        \* bound on the clock
    MaxFaults,      \* bound on crashes, on failing publishes, polls and file
                    \* operations, and on changes of the surroundings
    None

VARIABLES
    up,        \* admin_app runs
    mem,       \* ext_deployments_
    file,      \* the deployment store on disk, None when absent
    bak,       \* the ".bak" copy
    tmp,       \* the temporary file
    lock,      \* the holder of ext_mutex_: None, "http" or "poll"
    save,      \* the step save_ext_deployments_locked has reached
    failed,    \* the last save reported a failure
    saved,     \* the map that was saved last, as far as its writer knows
    hurt,      \* that map was hurt: by a short write, a crash between the two
               \* renames, or a backup that could not be put back
    alive,     \* the instances in the registry
    cache,     \* instances_cache_
    backend,   \* registry_backend_ was made: Redis answered at start-up
    redisOk,   \* redis_available_
    shelf,     \* the artifacts in the plugin and script directories
    inventory, \* ext_inventory_cache_
    pc,        \* where the poll thread is
    due,       \* due_commands still to execute, in any order
    seen,      \* "now" of the current pass of process_ext_deployment_queue
    run,       \* locals of execute_ext_deployment
    clock,     \* now_ms()
    sent,      \* for each command, the servers it was published to, in order
    undone,    \* the commands a rollback was published for
    faults,    \* faults so far
    crashes    \* crashes so far

store == <<mem, file, bak, tmp, lock, save, failed, saved, hurt>>
caches == <<cache, backend, redisOk, inventory>>
world == <<alive, shelf, clock>>
poller == <<pc, due, seen, run>>
wire == <<sent, undone>>
vars == <<up, store, caches, world, poller, wire, faults, crashes>>

Statuses == {"pending", "executing", "completed", "failed"}

Empty == [c \in Commands |-> None]

Idle == [cmd |-> None, targets |-> <<>>, wave |-> 1, applied |-> 0]

\* init_backends: without Redis at start-up there is never a backend.
InitBackends == backend \in BOOLEAN /\ redisOk = backend

Init ==
    /\ up = TRUE
    /\ mem = Empty /\ file = None /\ bak = None /\ tmp = None
    /\ lock = None /\ save = "done" /\ failed = FALSE /\ saved = Empty /\ hurt = FALSE
    /\ alive = Servers /\ cache = {} /\ InitBackends
    /\ shelf = Artifacts /\ inventory = Artifacts
    /\ pc = "instances" /\ due = {} /\ seen = 0 /\ run = Idle
    /\ clock = 0
    /\ sent = [c \in Commands |-> <<>>] /\ undone = {}
    /\ faults = 0 /\ crashes = 0

Fails == faults < MaxFaults /\ faults' = faults + 1

-----------------------------------------------------------------------------
(* Manifests and requests.                                                 *)

Stages == {"pre_validate", "mutate", "authorize", "side_effect", "observe"}
HookScopes == {"on_chat_send", "on_login", "on_join", "on_leave",
               "on_session_event", "on_admin_command"}
Kinds == {"native_plugin", "lua_script"}
Profiles == {"chat", "world", "all"}

Rank(decision) ==
    CASE decision \in {"block", "deny"} -> 0
      [] decision = "handled" -> 1
      [] decision = "modify" -> 2
      [] OTHER -> 3

\* The decisions an artifact may return: known ones, strongest first, and
\* nothing but "pass" in the "observe" stage.
DecisionsOk(m) ==
    /\ ToSet(m.decisions) \subseteq {"block", "deny", "handled", "modify", "pass", "allow"}
    /\ \A i \in 1..Len(m.decisions) - 1 : Rank(m.decisions[i]) <= Rank(m.decisions[i + 1])
    /\ m.stage = "observe" => ToSet(m.decisions) \subseteq {"pass"}

\* parse_ext_manifest_file finds no issue.
ManifestOk(m) ==
    /\ m.kind \in Kinds /\ m.kind = m.fileKind
    /\ m.named /\ m.prioritised /\ m.present
    /\ m.stage \in Stages /\ m.group # ""
    /\ m.hooks # {} /\ m.hooks \subseteq HookScopes
    /\ m.profiles \subseteq Profiles
    /\ DecisionsOk(m)

\* A canary without waves gets the default ones.
Waves(plan) == IF plan = <<>> THEN <<5, 25, 100>> ELSE plan

\* Strictly increasing percentages that end at 100.
WavesOk(plan) ==
    /\ \A i \in 1..Len(plan) : plan[i] \in 1..100
    /\ \A i \in 1..Len(plan) - 1 : plan[i] < plan[i + 1]
    /\ Last(plan) = 100

-----------------------------------------------------------------------------
(* Prechecks.                                                              *)

\* Two artifacts that may not be deployed side by side.
Conflicts(a, b) ==
    /\ a # b
    /\ Manifest[a].stage = Manifest[b].stage
    /\ Manifest[a].group = Manifest[b].group
    /\ Manifest[a].hooks \cap Manifest[b].hooks # {}

Live(d) == d # None /\ d.status \notin {"failed", "cancelled"}

Deployable(a) == a \in inventory /\ ManifestOk(Manifest[a])

\* Mutant: only deployments that are still to be rolled out count.
ConflictFreeUnfinished(a) ==
    \A c \in Commands :
        Live(mem[c]) /\ mem[c].status # "completed" => ~Conflicts(mem[c].artifact, a)

ConflictFree(a) == \A c \in Commands : Live(mem[c]) => ~Conflicts(mem[c].artifact, a)

\* resolve_ext_targets: the cached instances the selector matches.
Targets(selector) == cache \cap selector

PrecheckOk(a, selector) == Deployable(a) /\ ConflictFree(a) /\ Targets(selector) # {}

\* What a request for command c is answered: handle_ext_precheck stops here.
PrecheckAnswer(c, a, selector) ==
    IF mem[c] # None THEN "IDEMPOTENT_REJECTED"
    ELSE IF PrecheckOk(a, selector) THEN "precheck_passed" ELSE "PRECHECK_FAILED"

-----------------------------------------------------------------------------
(* The deployment store.                                                   *)

\* A change of ext_deployments_ by p, and the save that follows it.
Commit(p, records) ==
    /\ mem' = records
    /\ lock' = p
    /\ save' = "open"
    /\ UNCHANGED <<file, bak, tmp, failed, saved, hurt>>

\* The temporary file is written and closed, and the stream is not looked at
\* again: after a short write it holds text that is read back as no deployments.
SaveTmp ==
    /\ up /\ save = "open"
    /\ (tmp' = mem /\ UNCHANGED faults) \/ (tmp' = Empty /\ Fails)
    /\ save' = IF file = None THEN "publish" ELSE "backup"
    /\ UNCHANGED <<up, mem, file, bak, lock, failed, saved, hurt, caches, world, poller, wire,
                   crashes>>

SaveTmpFails ==
    /\ up /\ save = "open" /\ Fails
    /\ save' = "done" /\ lock' = None /\ failed' = TRUE
    /\ UNCHANGED <<up, mem, file, bak, tmp, saved, hurt, caches, world, poller, wire, crashes>>

\* An old backup is removed, the store becomes the backup.
SaveBackup ==
    /\ up /\ save = "backup"
    /\ bak' = file /\ file' = None
    /\ save' = "publish"
    /\ UNCHANGED <<up, mem, tmp, lock, failed, saved, hurt, caches, world, poller, wire, faults,
                   crashes>>

\* The rename to the backup fails: a warning, and the store is overwritten.
SaveBackupFails ==
    /\ up /\ save = "backup" /\ Fails
    /\ bak' = None
    /\ save' = "publish"
    /\ UNCHANGED <<up, mem, file, tmp, lock, failed, saved, hurt, caches, world, poller, wire,
                   crashes>>

\* The temporary file becomes the store.
SavePublish ==
    /\ up /\ save = "publish"
    /\ file' = tmp /\ tmp' = None
    /\ save' = "clean"
    /\ saved' = mem /\ hurt' = (tmp # mem)
    /\ UNCHANGED <<up, mem, bak, lock, failed, caches, world, poller, wire, faults, crashes>>

\* The backup is removed.
SaveClean ==
    /\ up /\ save = "clean"
    /\ bak' = None
    /\ save' = "done" /\ lock' = None /\ failed' = FALSE
    /\ UNCHANGED <<up, mem, file, tmp, saved, hurt, caches, world, poller, wire, faults, crashes>>

\* Mutant: a failed publish leaves the store where the backup is.
SavePublishUnrestored ==
    /\ up /\ save = "publish" /\ Fails
    /\ save' = "done" /\ lock' = None /\ failed' = TRUE
    /\ UNCHANGED <<up, mem, file, bak, tmp, saved, hurt, caches, world, poller, wire, crashes>>

\* The rename fails: the backup, if there is one, is renamed to the store,
\* which may fail as well.
SavePublishFails ==
    /\ up /\ save = "publish" /\ Fails
    /\ \/ bak = None /\ UNCHANGED <<file, bak, hurt>>
       \/ bak # None /\ file' = bak /\ bak' = None /\ UNCHANGED hurt
       \/ bak # None /\ hurt' = TRUE /\ UNCHANGED <<file, bak>>
    /\ save' = "done" /\ lock' = None /\ failed' = TRUE
    /\ UNCHANGED <<up, mem, tmp, saved, caches, world, poller, wire, crashes>>

\* load_ext_deployments_store reads the store and never the backup.
Loaded == IF file = None THEN Empty ELSE file

-----------------------------------------------------------------------------
(* The HTTP handlers.  A refused request changes counters only; a precheck *)
(* that passes fills ext_precheck_cache_, which nothing reads.             *)

\* handle_ext_deployment_submit: immediate deployments run at "now",
\* schedules at the given time, which may be past.
Submit(c, a, selector, runAt, waves, rollback) ==
    /\ up /\ lock = None
    /\ WavesOk(Waves(waves))
    /\ PrecheckAnswer(c, a, selector) = "precheck_passed"
    /\ Commit("http", [mem EXCEPT ![c] =
         [artifact |-> a, status |-> "pending", selector |-> selector,
          runAt |-> runAt, waves |-> Waves(waves), rollback |-> rollback,
          targets |-> Cardinality(Targets(selector)), applied |-> 0]])
    /\ UNCHANGED <<up, caches, world, poller, wire, faults, crashes>>

HttpSubmit ==
    \E c \in Commands, a \in Artifacts, s \in Selectors, w \in WavePlans, r \in Rollbacks.submit :
        Submit(c, a, s, clock, w, r)

HttpSchedule ==
    \E c \in Commands, a \in Artifacts, s \in Selectors, w \in WavePlans,
       r \in Rollbacks.schedule, t \in 0..MaxTime :
        t # clock /\ Submit(c, a, s, t, w, r)

-----------------------------------------------------------------------------
(* The poll thread.                                                        *)

PollInstances ==
    /\ up /\ pc = "instances"
    /\ IF backend THEN cache' = alive /\ redisOk' = TRUE ELSE UNCHANGED <<cache, redisOk>>
    /\ pc' = "inventory"
    /\ UNCHANGED <<up, store, backend, inventory, world, due, seen, run, wire, faults, crashes>>

\* The registry cannot be read: the old cache stays, publishing is off.
PollInstancesFails ==
    /\ up /\ pc = "instances" /\ backend /\ Fails
    /\ redisOk' = FALSE
    /\ pc' = "inventory"
    /\ UNCHANGED <<up, store, cache, backend, inventory, world, due, seen, run, wire, crashes>>

PollInventory ==
    /\ up /\ pc = "inventory" /\ lock = None
    /\ inventory' = shelf
    /\ pc' = "queue"
    /\ UNCHANGED <<up, store, cache, backend, redisOk, world, due, seen, run, wire, faults, crashes>>

IsDue(c) == mem[c] # None /\ mem[c].status = "pending" /\ mem[c].runAt <= clock

\* process_ext_deployment_queue takes the time once for the whole pass.
PollQueue ==
    /\ up /\ pc = "queue" /\ lock = None
    /\ due' = {c \in Commands : IsDue(c)}
    /\ seen' = clock
    /\ pc' = "next"
    /\ UNCHANGED <<up, store, caches, world, run, wire, faults, crashes>>

\* The pass is over and the thread sleeps for poll_interval_ms_.
PassDone ==
    /\ up /\ pc = "next" /\ due = {} /\ lock # "poll"
    /\ pc' = "instances" /\ seen' = 0
    /\ UNCHANGED <<up, store, caches, world, due, run, wire, faults, crashes>>

TooLate(c) == seen > mem[c].runAt + MaxSkew

\* execute_ext_deployment, first critical section: too late, or executing.
Begin(c) ==
    /\ up /\ pc = "next" /\ c \in due /\ lock = None
    /\ due' = due \ {c}
    /\ IF TooLate(c)
       THEN /\ Commit("poll", [mem EXCEPT ![c].status = "failed"])
            /\ UNCHANGED <<pc, run>>
       ELSE /\ Commit("poll", [mem EXCEPT ![c].status = "executing"])
            /\ pc' = "targets"
            /\ run' = [Idle EXCEPT !.cmd = c]
    /\ UNCHANGED <<up, caches, world, seen, wire, faults, crashes>>

\* The targets are resolved again, outside the lock, in instance order.
Resolve ==
    /\ up /\ pc = "targets" /\ lock # "poll"
    /\ LET found == Targets(mem[run.cmd].selector) IN
       /\ run' = [run EXCEPT !.targets = SetToSortSeq(found, <)]
       /\ pc' = IF found = {} THEN "noTargets" ELSE "waves"
    /\ UNCHANGED <<up, store, caches, world, due, seen, wire, faults, crashes>>

FailWith(c) == [mem EXCEPT ![c].status = "failed"]

NoTargets ==
    /\ up /\ pc = "noTargets" /\ lock = None
    /\ Commit("poll", FailWith(run.cmd))
    /\ run' = Idle /\ pc' = "next"
    /\ UNCHANGED <<up, caches, world, due, seen, wire, faults, crashes>>

\* How many targets are covered once a wave is out: ceil(total * percent / 100),
\* never fewer than before and never more than there are.
WaveEnd ==
    LET total == Len(run.targets)
        reach == (total * mem[run.cmd].waves[run.wave] + 99) \div 100
        low == IF reach < run.applied THEN run.applied ELSE reach
    IN  IF low < total THEN low ELSE total

MoreWaves == run.wave <= Len(mem[run.cmd].waves)

WaveTargets == SubSeq(run.targets, run.applied + 1, WaveEnd)

SkipWave ==
    /\ up /\ pc = "waves" /\ MoreWaves /\ WaveEnd <= run.applied
    /\ run' = [run EXCEPT !.wave = @ + 1]
    /\ UNCHANGED <<up, store, caches, world, pc, due, seen, wire, faults, crashes>>

PublishWave ==
    /\ up /\ pc = "waves" /\ MoreWaves /\ WaveEnd > run.applied
    /\ run.wave # ForceFailWave /\ redisOk
    /\ sent' = [sent EXCEPT ![run.cmd] = @ \o WaveTargets]
    /\ run' = [run EXCEPT !.wave = @ + 1, !.applied = WaveEnd]
    /\ UNCHANGED <<up, store, caches, world, pc, due, seen, undone, faults, crashes>>

\* A forced failure, no Redis, or a publish that fails: the loop stops.
WaveFails ==
    /\ up /\ pc = "waves" /\ MoreWaves /\ WaveEnd > run.applied
    /\ \/ (run.wave = ForceFailWave \/ ~redisOk) /\ UNCHANGED faults
       \/ Fails
    /\ pc' = "broken"
    /\ UNCHANGED <<up, store, caches, world, due, seen, run, wire, crashes>>

\* Mutant: a failure after the first wave is not recorded.
OutcomeFirstWave(status) ==
    [mem EXCEPT ![run.cmd].status = IF run.applied > 0 /\ status = "failed" THEN @ ELSE status,
                ![run.cmd].targets = Len(run.targets),
                ![run.cmd].applied = run.applied]

Outcome(status) ==
    [mem EXCEPT ![run.cmd].status = status,
                ![run.cmd].targets = Len(run.targets),
                ![run.cmd].applied = run.applied]

Complete ==
    /\ up /\ pc = "waves" /\ ~MoreWaves /\ lock = None
    /\ Commit("poll", Outcome("completed"))
    /\ run' = Idle /\ pc' = "next"
    /\ UNCHANGED <<up, caches, world, due, seen, wire, faults, crashes>>

\* The failure is recorded, and what was applied is rolled back if asked for;
\* a rollback that cannot be published is only not counted.
Abort ==
    /\ up /\ pc = "broken" /\ lock = None
    /\ Commit("poll", Outcome("failed"))
    /\ \/ /\ mem[run.cmd].rollback /\ run.applied > 0 /\ redisOk
          /\ undone' = undone \cup {run.cmd} /\ UNCHANGED faults
       \/ /\ ~mem[run.cmd].rollback \/ run.applied = 0 \/ ~redisOk
          /\ UNCHANGED <<undone, faults>>
       \/ /\ mem[run.cmd].rollback /\ run.applied > 0
          /\ Fails /\ UNCHANGED undone
    /\ run' = Idle /\ pc' = "next"
    /\ UNCHANGED <<up, caches, world, due, seen, sent, crashes>>

-----------------------------------------------------------------------------
(* The surroundings.                                                       *)

Tick ==
    /\ clock < MaxTime
    /\ clock' = clock + 1
    /\ UNCHANGED <<up, store, caches, alive, shelf, poller, wire, faults, crashes>>

\* An instance registers or its lease expires.
InstanceChanges(s) ==
    /\ Fails
    /\ alive' = IF s \in alive THEN alive \ {s} ELSE alive \cup {s}
    /\ UNCHANGED <<up, store, caches, shelf, clock, poller, wire, crashes>>

\* A manifest is taken out of the directories.
ArtifactRemoved(a) ==
    /\ a \in shelf /\ Fails
    /\ shelf' = shelf \ {a}
    /\ UNCHANGED <<up, store, caches, alive, clock, poller, wire, crashes>>

Crash ==
    /\ up /\ Fails
    /\ up' = FALSE /\ crashes' = crashes + 1
    /\ mem' = Empty /\ lock' = None /\ save' = "done" /\ failed' = FALSE
    /\ hurt' = (hurt \/ (save = "publish" /\ file = None /\ bak # None))
    /\ cache' = {} /\ backend' = FALSE /\ redisOk' = FALSE /\ inventory' = {}
    /\ pc' = "instances" /\ due' = {} /\ seen' = 0 /\ run' = Idle
    /\ UNCHANGED <<file, bak, tmp, saved, world, wire>>

\* run(): the backends are made, the inventory is scanned and the store is
\* loaded before the poll thread and the HTTP server start.
Restart ==
    /\ ~up
    /\ up' = TRUE
    /\ backend' \in BOOLEAN /\ redisOk' = backend'
    /\ inventory' = shelf
    /\ mem' = Loaded
    /\ UNCHANGED <<file, bak, tmp, lock, save, failed, saved, hurt, cache,
                   world, poller, wire, faults, crashes>>

Saving == SaveTmp \/ SaveBackup \/ SavePublish \/ SaveClean

Polling ==
    \/ PollInstances \/ PollInventory \/ PollQueue \/ PassDone
    \/ \E c \in Commands : Begin(c)
    \/ Resolve \/ NoTargets \/ SkipWave \/ PublishWave \/ WaveFails
    \/ Complete \/ Abort

Next ==
    \/ HttpSubmit \/ HttpSchedule
    \/ Saving \/ SaveTmpFails \/ SaveBackupFails \/ SavePublishFails
    \/ Polling \/ PollInstancesFails
    \/ Tick \/ Crash \/ Restart
    \/ \E s \in Servers : InstanceChanges(s)
    \/ \E a \in Artifacts : ArtifactRemoved(a)

Spec == Init /\ [][Next]_vars

\* The poll thread runs for ever and a save that has begun goes on; a crashed
\* process is restarted by its supervisor, and time passes.
Fairness ==
    /\ WF_vars(Saving) /\ WF_vars(Polling) /\ WF_vars(Restart) /\ WF_vars(Tick)

FairSpec == Spec /\ Fairness

-----------------------------------------------------------------------------
(* Properties.                                                             *)

Deployments ==
    [artifact : Artifacts, status : Statuses, selector : SUBSET Servers,
     runAt : 0..MaxTime, waves : {Waves(w) : w \in WavePlans}, rollback : BOOLEAN,
     targets : 0..Cardinality(Servers), applied : 0..Cardinality(Servers)]

\* Every variable has its type: the deployment map, the three files of the
\* store and the locals of execute_ext_deployment.
TypeOK ==
    /\ up \in BOOLEAN /\ failed \in BOOLEAN /\ hurt \in BOOLEAN
    /\ backend \in BOOLEAN /\ redisOk \in BOOLEAN /\ (redisOk => backend)
    /\ \A c \in Commands : {mem[c], saved[c]} \subseteq Deployments \cup {None}
    /\ \A f \in {file, bak, tmp} :
          f = None \/ \A c \in Commands : f[c] \in Deployments \cup {None}
    /\ lock \in {None, "http", "poll"}
    /\ save \in {"done", "open", "backup", "publish", "clean"}
    /\ save # "done" <=> lock # None
    /\ alive \subseteq Servers /\ cache \subseteq Servers
    /\ shelf \subseteq Artifacts /\ inventory \subseteq Artifacts
    /\ pc \in {"instances", "inventory", "queue", "next", "targets", "noTargets", "waves", "broken"}
    /\ due \subseteq Commands /\ seen \in 0..MaxTime /\ clock \in 0..MaxTime
    /\ run.cmd \in Commands \cup {None}
    /\ run.applied \in 0..Len(run.targets)
    /\ \A c \in Commands : ToSet(sent[c]) \subseteq Servers
    /\ undone \subseteq Commands
    /\ faults \in 0..MaxFaults /\ crashes \in 0..MaxFaults

\* No two deployments that are pending, executing or completed hold the same
\* stage, group and a common hook with different artifacts: run_ext_precheck
\* runs under the lock that also inserts the deployment.
ExclusiveGroups ==
    \A c, d \in Commands :
        Live(mem[c]) /\ Live(mem[d]) => ~Conflicts(mem[c].artifact, mem[d].artifact)

\* Whenever the lock is free the store on disk is the map that was saved last,
\* and that is the map in memory unless the last save reported a failure: a crash
\* at any step of a save, and any file operation that fails, keeps the old map or
\* the new one.  The three accidents of "hurt" are the exceptions.
StoreFollows ==
    up /\ lock = None =>
        /\ ~hurt => Loaded = saved
        /\ ~hurt /\ ~failed => mem = saved

\* The same without the exceptions, which the code does not keep.
StoreSurvives == up /\ lock = None => Loaded = saved

\* A submitted command is completed or failed in the end, however the saves,
\* the registry and the publishes fail: the poll thread tries it once it is
\* due.  Only a crash can leave it "executing" for ever.
Settled(c) ==
    \/ mem[c] = None
    \/ mem[c].status \in {"completed", "failed"}
    \/ mem[c].status = "executing" /\ crashes > 0
CommandSettles == \A c \in Commands : []<>Settled(c)

\* A command is rolled out once: "the same command_id is not run again".
CommandRunsOnce ==
    \A c \in Commands : \A i, j \in 1..Len(sent[c]) : i # j => sent[c][i] # sent[c][j]
=============================================================================
