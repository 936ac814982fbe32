----------------------------- MODULE LuaHooks -----------------------------
(***************************************************************************)
(* The Lua side of server_app's extensions.  A scheduler task watches the  *)
(* scripts directory (the primary one, or the fallback while the primary   *)
(* has no script) and posts reloads to the Lua strand; the chat handlers   *)
(* run on workers, call the native plugin chain and then post their hook   *)
(* to the same strand and wait for it, the join and leave handlers while   *)
(* they hold ChatService::State::mu.  A directory holds one script; its    *)
(* mtime is its version and 0 means there is none.  The runtime remembers  *)
(* the script's path and reads the file anew at every call.                *)
(***************************************************************************)
EXTENDS Integers, Sequences, FiniteSets

CONSTANTS
    Callers,    \* the workers that run chat handlers
    Threshold,  \* LUA_AUTO_DISABLE_THRESHOLD
    Scenarios   \* what is tried: the edits, the hooks called, what scripts do

VARIABLES
    conf,       \* the scenario
    files,      \* the script of each directory: its version and its quality
    locked,     \* the lock file exists
    active,     \* active_scripts_dir
    tracked,    \* the version the watcher last saw there, 0 for none
    loaded,     \* loaded_scripts_: the directory of the script's path
    epoch,      \* reload_epoch_
    seenEpoch,  \* lua_reload_epoch_
    fails,      \* lua_hook_consecutive_failures_
    disabled,   \* lua_hook_disabled_
    strand,     \* what waits for the Lua strand
    busy,       \* what runs on it, holding LuaRuntime::mu_
    mu,         \* who holds ChatService::State::mu
    pc,         \* where each caller is
    hook,       \* the hook it calls
    snap,       \* the epoch it read
    failed,     \* its call failed
    outcome,    \* whether its handler was stopped by a hook or goes on
    calls,      \* counts the calls of each caller
    edits,      \* counts what the operator did
    reloaded    \* history: the directory and the version of the last reload

scripts == <<files, locked, edits>>
watcher == <<active, tracked>>
runtime == <<loaded, epoch, reloaded>>
gate    == <<seenEpoch, fails, disabled>>
caller  == <<pc, hook, snap, failed, outcome, calls>>
vars == <<conf, scripts, watcher, runtime, gate, strand, busy, mu, caller>>

Dirs == {"primary", "fallback"}
Hooks == {"on_login", "on_join", "on_leave", "on_session_event", "on_admin_command"}
NoScript == [ver |-> 0, quality |-> "ok"]

\* list_lua_scripts: a directory has a script.
Listed(d) == files[d].ver # 0

\* scan_files: what the watcher sees there.
Scanned(d) == files[d].ver

\* validate_script_with_lua: the script is there and compiles.
Valid(d) == Listed(d) /\ files[d].quality # "invalid"

\* resolve_effective_scripts_dir: the primary directory unless only the
\* fallback has a script.
Effective ==
    IF ~Listed("primary") /\ Listed("fallback") THEN "fallback" ELSE "primary"

\* The process has booted: the watcher has seen the script and the first
\* reload is done.
Init ==
    /\ conf \in Scenarios
    /\ files = [d \in Dirs |-> IF d \in conf.start THEN [ver |-> 1, quality |-> "ok"] ELSE NoScript]
    /\ locked = FALSE /\ edits = 0
    /\ active = Effective /\ tracked = Scanned(Effective)
    /\ loaded = (IF Valid(Effective) THEN Effective ELSE "none")
    /\ epoch = 1 /\ seenEpoch = 0
    /\ reloaded = <<Effective, files[Effective].ver>>
    /\ fails = [h \in Hooks |-> 0] /\ disabled = {}
    /\ strand = <<>> /\ busy = "none" /\ mu = "free"
    /\ pc = [c \in Callers |-> "idle"] /\ hook = [c \in Callers |-> "none"]
    /\ snap = [c \in Callers |-> 0] /\ failed = [c \in Callers |-> FALSE]
    /\ outcome = [c \in Callers |-> "none"] /\ calls = [c \in Callers |-> 0]

----------------------------------------------------------------------------
\* The operator.

\* A script is written: good, failing when it runs, or not valid Lua.
Edit(d, quality) ==
    /\ edits < conf.edits /\ d \in conf.places /\ quality \in conf.qualities
    /\ edits' = edits + 1
    /\ files' = [files EXCEPT ![d] = [ver |-> edits + 2, quality |-> quality]]
    /\ UNCHANGED <<conf, locked, watcher, runtime, gate, strand, busy, mu, caller>>

Remove(d) ==
    /\ edits < conf.edits /\ d \in conf.places /\ files[d].ver # 0 /\ conf.removes
    /\ edits' = edits + 1
    /\ files' = [files EXCEPT ![d] = NoScript]
    /\ UNCHANGED <<conf, locked, watcher, runtime, gate, strand, busy, mu, caller>>

\* The lock file holds reloads back while scripts are replaced.
Lock ==
    /\ ~locked /\ edits < conf.edits /\ conf.locks
    /\ locked' = TRUE /\ edits' = edits + 1
    /\ UNCHANGED <<conf, files, watcher, runtime, gate, strand, busy, mu, caller>>

Unlock ==
    /\ locked /\ locked' = FALSE
    /\ UNCHANGED <<conf, files, edits, watcher, runtime, gate, strand, busy, mu, caller>>

----------------------------------------------------------------------------
\* The scheduler's poll: ensure_lua_watcher, then ScriptWatcher::poll.

\* ensure_lua_watcher: a watcher for another directory is polled at once
\* with no callback, which marks its script as seen.
Primed(d) ==
    CASE d = active -> tracked
      [] d # active /\ locked -> 0
      [] OTHER -> Scanned(d)

\* ScriptWatcher::poll: under the lock nothing is scanned; otherwise a
\* version other than the tracked one is a change.
Changed(d) == ~locked /\ Primed(d) # Scanned(d)

PollScripts ==
    LET d == Effective IN
    /\ active' = d
    /\ tracked' = IF locked THEN Primed(d) ELSE Scanned(d)
    /\ strand' = IF Changed(d) THEN Append(strand, "reload") ELSE strand
    /\ UNCHANGED <<conf, scripts, runtime, gate, busy, mu, caller>>

----------------------------------------------------------------------------
\* The Lua strand: one task at a time, on an io thread or on a worker that
\* waits for its hook.

StrandTakes ==
    /\ busy = "none" /\ strand # <<>>
    /\ busy' = Head(strand) /\ strand' = Tail(strand)
    /\ UNCHANGED <<conf, scripts, watcher, runtime, gate, mu, caller>>

\* reload_scripts: a script that is not valid Lua is left out.
ReloadScripts(d) ==
    /\ loaded' = IF Valid(d) THEN d ELSE "none"
    /\ epoch' = epoch + 1
    /\ reloaded' = <<d, files[d].ver>>

\* The task schedule_lua_reload posted lists the active directory's scripts.
Reload ==
    /\ busy = "reload" /\ busy' = "none"
    /\ ReloadScripts(active)
    /\ UNCHANGED <<conf, scripts, watcher, gate, strand, mu, caller>>

\* call_all reads the file of the path it remembers: a file that is gone or
\* does not run is a failed call, and one that is not the file that was
\* loaded, for comparison.
FailsUnlessReloaded == loaded # "none" /\ reloaded # <<loaded, files[loaded].ver>>
Fails ==
    /\ loaded # "none"
    /\ ~Listed(loaded) \/ files[loaded].quality # "ok"

\* A script that runs may ask the host for users or rooms, which takes mu.
Queries == loaded # "none" /\ ~Fails /\ conf.queries

CallAll(c) ==
    /\ busy = c /\ busy' = "none"
    /\ Queries => mu = "free"
    /\ failed' = [failed EXCEPT ![c] = Fails]
    /\ outcome' = [outcome EXCEPT ![c] =
                       IF loaded # "none" /\ ~Fails /\ conf.denies THEN "stopped" ELSE "goes on"]
    /\ pc' = [pc EXCEPT ![c] = "record"]
    /\ UNCHANGED <<conf, scripts, watcher, runtime, gate, strand, mu, hook, snap, calls>>

----------------------------------------------------------------------------
\* The handlers.

\* A handler comes to its hook, holding mu or not.  The native chain may
\* stop it; otherwise the Lua hook is invoked.
Begin(c, h, holds) ==
    /\ pc[c] = "idle" /\ h \in conf.hooks /\ calls[c] < conf.calls
    /\ holds => mu = "free"
    /\ calls' = [calls EXCEPT ![c] = @ + 1]
    /\ \E stopped \in BOOLEAN :
          IF stopped THEN outcome' = [outcome EXCEPT ![c] = "stopped"] /\ UNCHANGED <<mu, pc, hook>>
          ELSE /\ outcome' = [outcome EXCEPT ![c] = "none"]
               /\ mu' = IF holds THEN c ELSE mu
               /\ pc' = [pc EXCEPT ![c] = "snapshot"]
               /\ hook' = [hook EXCEPT ![c] = h]
    /\ UNCHANGED <<conf, scripts, watcher, runtime, gate, strand, busy, snap, failed>>

MaybeHandleLoginHook(c) == Begin(c, "on_login", FALSE)
MaybeHandleJoinHook(c) == Begin(c, "on_join", TRUE)
MaybeHandleLeaveHook(c) == Begin(c, "on_leave", TRUE)
NotifySessionEvent(c) == Begin(c, "on_session_event", FALSE)
MaybeHandleAdminHook(c) == Begin(c, "on_admin_command", FALSE)

\* The handler goes on; join and leave let go of mu.
Returned(c) ==
    /\ pc' = [pc EXCEPT ![c] = "idle"] /\ hook' = [hook EXCEPT ![c] = "none"]
    /\ snap' = [snap EXCEPT ![c] = 0] /\ failed' = [failed EXCEPT ![c] = FALSE]
    /\ mu' = IF mu = c THEN "free" ELSE mu

\* invoke_lua_cold_hook: the epoch is read under the runtime's lock ...
Snapshot(c) ==
    /\ pc[c] = "snapshot" /\ busy = "none"
    /\ snap' = [snap EXCEPT ![c] = epoch] /\ pc' = [pc EXCEPT ![c] = "check"]
    /\ UNCHANGED <<conf, scripts, watcher, runtime, gate, strand, busy, mu, hook, failed, outcome, calls>>

\* ... and compared under another: an epoch other than the last one seen
\* forgets the failures.  A disabled hook is skipped, another one is posted.
Check(c) ==
    LET reset == snap[c] # seenEpoch
        off   == ~reset /\ hook[c] \in disabled
    IN
    /\ pc[c] = "check"
    /\ seenEpoch' = snap[c]
    /\ fails' = IF reset THEN [h \in Hooks |-> 0] ELSE fails
    /\ disabled' = IF reset THEN {} ELSE disabled
    /\ IF off THEN /\ Returned(c) /\ outcome' = [outcome EXCEPT ![c] = "goes on"]
                   /\ UNCHANGED strand
       ELSE /\ strand' = Append(strand, c)
            /\ pc' = [pc EXCEPT ![c] = "wait"]
            /\ UNCHANGED <<mu, hook, snap, failed, outcome>>
    /\ UNCHANGED <<conf, scripts, watcher, runtime, busy, calls>>

\* The failures in a row reach the threshold.
TooMany(n) == Threshold > 0 /\ n >= Threshold

\* The result is recorded: a failure counts, a success starts over.
Record(c) ==
    LET n == IF failed[c] THEN fails[hook[c]] + 1 ELSE 0 IN
    /\ pc[c] = "record"
    /\ fails' = [fails EXCEPT ![hook[c]] = n]
    /\ disabled' = IF failed[c] /\ TooMany(n) THEN disabled \union {hook[c]} ELSE disabled
    /\ Returned(c)
    /\ UNCHANGED <<conf, scripts, watcher, runtime, seenEpoch, strand, busy, outcome, calls>>

----------------------------------------------------------------------------
Operator ==
    \/ \E d \in Dirs : Remove(d) \/ \E q \in {"ok", "breaks", "invalid"} : Edit(d, q)
    \/ Lock \/ Unlock

Handler(c) ==
    \/ MaybeHandleLoginHook(c) \/ MaybeHandleJoinHook(c) \/ MaybeHandleLeaveHook(c)
    \/ NotifySessionEvent(c) \/ MaybeHandleAdminHook(c)
    \/ Snapshot(c) \/ Check(c) \/ Record(c)

Next ==
    \/ Operator \/ PollScripts \/ StrandTakes \/ Reload
    \/ \E c \in Callers : CallAll(c) \/ Handler(c)

Spec == Init /\ [][Next]_vars

\* The scheduler polls, the strand runs what it can, workers go on, and the
\* operator takes the lock file away.
Fairness ==
    /\ WF_vars(PollScripts) /\ WF_vars(StrandTakes) /\ WF_vars(Reload) /\ WF_vars(Unlock)
    /\ \A c \in Callers :
          WF_vars(CallAll(c)) /\ WF_vars(Snapshot(c)) /\ WF_vars(Check(c)) /\ WF_vars(Record(c))

FairSpec == Spec /\ Fairness

----------------------------------------------------------------------------
TypeOK ==
    /\ active \in Dirs /\ loaded \in Dirs \union {"none"}
    /\ mu \in Callers \union {"free"} /\ busy \in Callers \union {"none", "reload"}
    /\ seenEpoch \in 0..epoch /\ disabled \subseteq Hooks
    /\ \A c \in Callers :
          /\ pc[c] \in {"idle", "snapshot", "check", "wait", "record"}
          /\ mu = c => hook[c] \in {"on_join", "on_leave"}
          /\ pc[c] = "idle" => hook[c] = "none"

\* Where every script the operator puts in place denies and runs, no handler
\* gets past its hook, whatever reloads, the lock file and other calls do.
DenyHolds == (conf.denies /\ conf.qualities \subseteq {"ok"} /\ ~conf.removes) =>
                 \A c \in Callers : outcome[c] # "goes on"

\* What the last reload read is what the effective directory holds.
Current == reloaded = <<Effective, files[Effective].ver>>

\* plugin-script-operations.md: an empty primary directory switches to the
\* fallback, and a script there switches back.
SwitchTakesEffect == <>[]Current

\* The host functions the scripts are given can be called from every hook.
EveryHookReturns == \A c \in Callers : []<>(pc[c] = "idle")
============================================================================
