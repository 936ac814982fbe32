---------------------------- MODULE PluginChain ----------------------------
(***************************************************************************)
(* The native chat hooks: PluginChainHost keeps one PluginHost per plugin  *)
(* file, in order, and swaps a plugin's shared library while handlers call *)
(* it.  Polls are jobs and may overlap; a handler takes the chain as it is *)
(* and asks host after host, each for the library it has at that moment.   *)
(* A library is held by its host and by the calls inside it, and its       *)
(* address is free again when nobody holds it.  A file's mtime is its      *)
(* version, 0 when there is none.                                          *)
(***************************************************************************)
EXTENDS Integers, Sequences, FiniteSets, SequencesExt

CONSTANTS
    Pollers,    \* the workers that may run a poll
    Callers,    \* the workers that may run a hook
    Files,      \* every plugin file a scenario may name
    Addresses,  \* where the api table of a library of the first ABI may be
    MaxHosts,   \* bounds the hosts alive at a time
    Scenarios   \* the configuration and what is done to the files

VARIABLES
    conf,       \* the scenario
    file,       \* each file: its version and the ABI it offers
    locked,     \* the files whose lock file exists
    readable,   \* the directories that can be scanned
    edits,      \* counts what the operator did
    byKey,      \* by_key_: the host of each file, 0 for none
    ordered,    \* ordered_: the chain
    hosts,      \* the hosts: current_, last_attempt_mtime_, and as history the mtime
                \* remembered for the last load that failed
    cache,      \* adapt_v1_api_to_v2's cache: the version adapted at an address
    ppc, pfiles, plist,    \* each poll: where it is, the files it wants, the hosts it goes over
    pc, hook, chain, mod,  \* each call: where it is, its hook, the hosts left, the library inside
    owed,       \* history: the hosts with a library it has not asked yet
    calls       \* counts the calls

dirs   == <<file, locked, readable, edits>>
table  == <<byKey, ordered, hosts, cache>>
poll   == <<ppc, pfiles, plist>>
call   == <<pc, hook, chain, mod, owed, calls>>
vars   == <<conf, dirs, table, poll, call>>

NoModule == [ver |-> 0, abi |-> "none", addr |-> "none", table |-> 0]
NoHost == [path |-> "none", cur |-> NoModule, last |-> 0, bad |-> 0]
Dirs == {"primary", "fallback"}
Ids == 1..MaxHosts

Init ==
    /\ conf \in Scenarios
    /\ file = [f \in Files |-> [ver |-> IF f \in conf.start THEN 1 ELSE 0, abi |-> conf.abi]]
    /\ locked = {} /\ readable = Dirs /\ edits = 0
    /\ byKey = [f \in Files |-> 0] /\ ordered = <<>>
    /\ hosts = [i \in Ids |-> NoHost] /\ cache = [a \in Addresses |-> 0]
    /\ ppc = [w \in Pollers |-> "idle"]
    /\ pfiles = [w \in Pollers |-> <<>>] /\ plist = [w \in Pollers |-> <<>>]
    /\ pc = [c \in Callers |-> "idle"] /\ hook = [c \in Callers |-> "none"]
    /\ chain = [c \in Callers |-> <<>>] /\ mod = [c \in Callers |-> NoModule]
    /\ owed = [c \in Callers |-> {}] /\ calls = 0

----------------------------------------------------------------------------
\* The operator replaces, removes and locks plugin files.

Install(f, abi) ==
    /\ edits < conf.edits /\ f \in conf.edited /\ abi \in conf.abis
    /\ edits' = edits + 1
    /\ file' = [file EXCEPT ![f] = [ver |-> edits + 2, abi |-> abi]]
    /\ UNCHANGED <<conf, locked, readable, table, poll, call>>

Delete(f) ==
    /\ edits < conf.edits /\ f \in conf.edited /\ conf.removes /\ file[f].ver # 0
    /\ edits' = edits + 1
    /\ file' = [file EXCEPT ![f].ver = 0]
    /\ UNCHANGED <<conf, locked, readable, table, poll, call>>

Lock(f) ==
    /\ edits < conf.edits /\ f \in conf.edited /\ conf.locks /\ f \notin locked
    /\ edits' = edits + 1 /\ locked' = locked \union {f}
    /\ UNCHANGED <<conf, file, readable, table, poll, call>>

Unlock(f) ==
    /\ f \in locked /\ locked' = locked \ {f}
    /\ UNCHANGED <<conf, file, readable, edits, table, poll, call>>

\* A directory cannot be scanned for a while.
Hide(d) ==
    /\ d \in readable /\ d \in conf.hides /\ edits < conf.edits
    /\ readable' = readable \ {d} /\ edits' = edits + 1
    /\ UNCHANGED <<conf, file, locked, table, poll, call>>

Reappear(d) ==
    /\ d \notin readable /\ readable' = readable \union {d}
    /\ UNCHANGED <<conf, file, locked, edits, table, poll, call>>

----------------------------------------------------------------------------
\* PluginChainHost::poll_reload.

\* scan_plugins_dir: the plugin files of a directory, by name.
Present(f) == file[f].ver # 0
Scanned(fs) == SelectSeq(fs, Present)

\* get_desired_paths: the configured paths, or the primary directory's
\* files, or those of the fallback when it has none or cannot be scanned.
PrimaryServes == "primary" \in readable /\ Scanned(conf.primary) # <<>>
Desired ==
    IF conf.explicit THEN conf.primary
    ELSE Scanned(IF PrimaryServes THEN conf.primary ELSE conf.fallback)

\* The directory it comes down to cannot be scanned.
ScanFails ==
    /\ ~conf.explicit /\ ~PrimaryServes
    /\ (IF conf.fallback = <<>> THEN "primary" ELSE "fallback") \notin readable

\* A poll that cannot scan only polls the hosts of the chain.
PollScan(w) ==
    /\ ppc[w] = "idle"
    /\ IF ScanFails
       THEN /\ ppc' = [ppc EXCEPT ![w] = "hosts"] /\ plist' = [plist EXCEPT ![w] = ordered]
            /\ UNCHANGED pfiles
       ELSE /\ ppc' = [ppc EXCEPT ![w] = "build"] /\ pfiles' = [pfiles EXCEPT ![w] = Desired]
            /\ UNCHANGED plist
    /\ UNCHANGED <<conf, dirs, table, call>>

\* Hosts somebody holds.
Held(keys) ==
    {keys[f] : f \in Files} \union Range(ordered)
    \union UNION {Range(chain[c]) : c \in Callers}
    \union UNION {Range(plist[v]) : v \in Pollers}

\* Under mu_: a file without a host gets one, and a host whose file is not
\* wanted is dropped.
PollBuild(w) ==
    LET wanted == Range(pfiles[w])
        new    == {f \in wanted : byKey[f] = 0}
        free   == Ids \ Held(byKey)
    IN
    /\ ppc[w] = "build"
    /\ \E id \in [new -> free] :
          /\ IsInjective(id)
          /\ \A f \in new : \A i \in free : i < id[f] => \E g \in new : id[g] = i
          /\ byKey' = [f \in Files |-> IF f \in new THEN id[f] ELSE IF f \in wanted THEN byKey[f] ELSE 0]
          /\ hosts' = [i \in Ids |-> IF \E f \in new : id[f] = i
                                     THEN [NoHost EXCEPT !.path = CHOOSE f \in new : id[f] = i]
                                     ELSE IF i \in free THEN NoHost ELSE hosts[i]]
    /\ plist' = [plist EXCEPT ![w] = [k \in DOMAIN pfiles[w] |-> byKey'[pfiles[w][k]]]]
    /\ pfiles' = [pfiles EXCEPT ![w] = <<>>]
    /\ ppc' = [ppc EXCEPT ![w] = "store"]
    /\ UNCHANGED <<conf, dirs, ordered, cache, call>>

\* The new chain is published after mu_ is let go.
PollStore(w) ==
    /\ ppc[w] = "store"
    /\ ordered' = plist[w]
    /\ ppc' = [ppc EXCEPT ![w] = "hosts"]
    /\ UNCHANGED <<conf, dirs, byKey, hosts, cache, pfiles, plist, call>>

----------------------------------------------------------------------------
\* PluginHost::poll_reload, under the host's reload_mu_.

\* Whether there is a file, not locked, that was not tried yet.
Tries(h) == file[h.path].ver # 0 /\ h.path \notin locked /\ file[h.path].ver # h.last

\* The libraries that are mapped.
Mapped == {hosts[i].cur : i \in Held(byKey) \ {0}} \union {mod[c] : c \in Callers}
FreeAddresses == Addresses \ {m.addr : m \in Mapped}

\* adapt_v1_api_to_v2: the table made for the first library at this address.
Adapted(addr, ver) == IF cache[addr] = 0 THEN ver ELSE cache[addr]

\* The copy has no entry point or no api the server takes, or cannot be made
\* or opened this time.
MayFail(f) == f.abi = "bad" \/ conf.flaky

\* The host keeps what it had, and does not try this version again.  One
\* that fails forgets what it had, for comparison.
FailedForgets(h) == [h EXCEPT !.bad = h.last, !.cur = NoModule]
Failed(h) == [h EXCEPT !.bad = h.last]

\* The copy is opened somewhere and replaces the library the host had.
Loaded(h, addr) ==
    LET f == file[h.path] IN
    [h EXCEPT !.cur = [ver |-> f.ver, abi |-> f.abi, addr |-> addr,
                       table |-> IF f.abi = "v1" THEN Adapted(addr, f.ver) ELSE f.ver]]

\* The poll w is at its next host and holds its reload_mu_.
AtHost(w) ==
    /\ ppc[w] = "hosts" /\ plist[w] # <<>>
    /\ \A v \in Pollers : ~(ppc[v] = "load" /\ Head(plist[v]) = Head(plist[w]))
NextHost(w) == plist' = [plist EXCEPT ![w] = Tail(@)]

\* The time of a file is remembered before it is loaded.  Under its lock file
\* as well, for comparison.
PollTimeLocked(w) ==
    LET i == Head(plist[w])  h == hosts[i] IN
    /\ AtHost(w)
    /\ hosts' = IF file[h.path].ver # 0 THEN [hosts EXCEPT ![i].last = file[h.path].ver] ELSE hosts
    /\ IF Tries(h) THEN ppc' = [ppc EXCEPT ![w] = "load"] /\ UNCHANGED plist
                   ELSE NextHost(w) /\ UNCHANGED ppc
    /\ UNCHANGED <<conf, dirs, byKey, ordered, cache, pfiles, call>>
PollTime(w) ==
    LET i == Head(plist[w])  h == hosts[i] IN
    /\ AtHost(w)
    /\ IF Tries(h) THEN /\ hosts' = [hosts EXCEPT ![i].last = file[h.path].ver]
                        /\ ppc' = [ppc EXCEPT ![w] = "load"] /\ UNCHANGED plist
                   ELSE NextHost(w) /\ UNCHANGED <<hosts, ppc>>
    /\ UNCHANGED <<conf, dirs, byKey, ordered, cache, pfiles, call>>

\* The file as it is by now is copied, opened and made current.
PollLoad(w) ==
    LET i == Head(plist[w])  h == hosts[i]  f == file[h.path] IN
    /\ ppc[w] = "load"
    /\ ppc' = [ppc EXCEPT ![w] = "hosts"] /\ NextHost(w)
    /\ \/ /\ f.ver = 0 \/ MayFail(f)
          /\ hosts' = [hosts EXCEPT ![i] = Failed(h)] /\ UNCHANGED cache
       \/ /\ f.ver # 0 /\ f.abi # "bad"
          /\ \E addr \in IF f.abi = "v1" THEN FreeAddresses ELSE {"any"} :
                /\ hosts' = [hosts EXCEPT ![i] = Loaded(h, addr)]
                /\ cache' = IF f.abi = "v1" THEN [cache EXCEPT ![addr] = Adapted(addr, f.ver)] ELSE cache
    /\ UNCHANGED <<conf, dirs, byKey, ordered, pfiles, call>>

PollEnds(w) ==
    /\ ppc[w] = "hosts" /\ plist[w] = <<>>
    /\ ppc' = [ppc EXCEPT ![w] = "idle"]
    /\ UNCHANGED <<conf, dirs, table, pfiles, plist, call>>

----------------------------------------------------------------------------
\* ChatHookPluginChain: a hook asks the hosts of the chain in turn.

Begin(c, name) ==
    /\ pc[c] = "idle" /\ calls < conf.calls /\ name \in conf.hooks
    /\ calls' = calls + 1
    /\ pc' = [pc EXCEPT ![c] = "next"] /\ hook' = [hook EXCEPT ![c] = name]
    /\ chain' = [chain EXCEPT ![c] = ordered]
    /\ owed' = [owed EXCEPT ![c] = {i \in Range(ordered) : hosts[i].cur # NoModule}]
    /\ UNCHANGED <<conf, dirs, table, poll, mod>>

OnChatSend(c) == Begin(c, "on_chat_send")
OnLogin(c) == Begin(c, "on_login")
OnJoin(c) == Begin(c, "on_join")
OnLeave(c) == Begin(c, "on_leave")
OnSessionEvent(c) == Begin(c, "on_session_event")
OnAdminCommand(c) == Begin(c, "on_admin_command")

\* A library of the first ABI has only on_chat_send.
Offers(m, name) == m # NoModule /\ (m.abi = "v2" \/ name = "on_chat_send")

\* The next host's library, as it is now, is entered or passed over.
Enter(c) ==
    LET i == Head(chain[c])
        m == hosts[i].cur
    IN
    /\ pc[c] = "next" /\ chain[c] # <<>>
    /\ chain' = [chain EXCEPT ![c] = Tail(@)]
    /\ owed' = [owed EXCEPT ![c] = IF m = NoModule THEN @ ELSE @ \ {i}]
    /\ IF Offers(m, hook[c])
       THEN mod' = [mod EXCEPT ![c] = m] /\ pc' = [pc EXCEPT ![c] = "inside"]
       ELSE UNCHANGED <<mod, pc>>
    /\ UNCHANGED <<conf, dirs, table, poll, hook, calls>>

\* It passes, allows, modifies or throws, and the next one is asked ...
Passes(c) ==
    /\ pc[c] = "inside"
    /\ mod' = [mod EXCEPT ![c] = NoModule] /\ pc' = [pc EXCEPT ![c] = "next"]
    /\ UNCHANGED <<conf, dirs, table, poll, hook, chain, owed, calls>>

\* ... or it handles, blocks or denies, and the default is stopped.
Stops(c) ==
    /\ pc[c] = "inside"
    /\ mod' = [mod EXCEPT ![c] = NoModule] /\ pc' = [pc EXCEPT ![c] = "idle"]
    /\ hook' = [hook EXCEPT ![c] = "none"] /\ chain' = [chain EXCEPT ![c] = <<>>]
    /\ owed' = [owed EXCEPT ![c] = {}]
    /\ UNCHANGED <<conf, dirs, table, poll, calls>>

\* The chain is through: the handler goes on with the default.
Through(c) ==
    /\ pc[c] = "next" /\ chain[c] = <<>>
    /\ pc' = [pc EXCEPT ![c] = "idle"] /\ hook' = [hook EXCEPT ![c] = "none"]
    /\ UNCHANGED <<conf, dirs, table, poll, chain, mod, owed, calls>>

----------------------------------------------------------------------------
Operator ==
    \/ \E f \in Files : Delete(f) \/ Lock(f) \/ Unlock(f) \/ \E abi \in {"v1", "v2", "bad"} : Install(f, abi)
    \/ \E d \in Dirs : Hide(d) \/ Reappear(d)

Poll(w) == PollScan(w) \/ PollBuild(w) \/ PollStore(w) \/ PollTime(w) \/ PollLoad(w) \/ PollEnds(w)

Hook(c) ==
    \/ OnChatSend(c) \/ OnLogin(c) \/ OnJoin(c) \/ OnLeave(c) \/ OnSessionEvent(c)
    \/ OnAdminCommand(c) \/ Enter(c) \/ Passes(c) \/ Stops(c) \/ Through(c)

Next == Operator \/ (\E w \in Pollers : Poll(w)) \/ (\E c \in Callers : Hook(c))

Spec == Init /\ [][Next]_vars

----------------------------------------------------------------------------
TypeOK ==
    /\ \A f \in Files : byKey[f] # 0 => hosts[byKey[f]].path = f
    /\ Range(ordered) \subseteq Ids
    /\ \A i, j \in DOMAIN ordered : i # j => hosts[ordered[i]].path # hosts[ordered[j]].path
    /\ \A c \in Callers : pc[c] = "inside" <=> mod[c] # NoModule

\* A handler that goes on with its default asked every plugin that had a
\* library when the call began, whatever was reloaded, failed or removed
\* meanwhile.
EveryPluginAsked == \A c \in Callers : pc[c] = "idle" => owed[c] = {}

\* A host that will not look at its file again has the file's library, or failed
\* to load it: whatever is replaced between the check of the time and the copy,
\* and whichever polls overlap, no version is passed over, as long as each
\* version has a modification time of its own.
NoVersionMissed ==
    \A i \in Range(ordered) :
        LET h == hosts[i]  f == file[h.path] IN
        /\ f.ver # 0 /\ h.last = f.ver
        /\ \A w \in Pollers : ~(ppc[w] = "load" /\ Head(plist[w]) = i)
        => f.ver \in {h.cur.ver, h.bad}

\* The hook table of a library is the library's own.
TableMatchesLibrary == \A m \in Mapped : m.table = m.ver
============================================================================
