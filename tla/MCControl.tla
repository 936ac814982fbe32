----------------------------- MODULE MCControl -----------------------------
(***************************************************************************)
(* The control plane, each part on its own: the deployments of extensions  *)
(* in admin_app, and the signed commands, moderation and settings of a     *)
(* chat server.  part names the one that runs; the variables of the other  *)
(* keep a blank.                                                           *)
(***************************************************************************)
EXTENDS Integers, Sequences, FiniteSets

CONSTANTS
    None,
    \* ExtDeployments
    Commands, a, b, bad, Servers, Selectors, ForceFailWave, MaxSkew, ExtTime, MaxFaults,
    \* AdminCommands
    s1, s2, user1, host1, Workers, Values, MinSetting, MaxRecent, MaxList, Ttl, FutureSkew, Ahead,
    MuteLen, BanLen, Window, Threshold, BanViolations, QueueMax, MaxTime, MaxOps

VARIABLES
    part, clock,
    \* ExtDeployments
    up, mem, file, bak, tmp, lock, save, failed, saved, hurt, alive, cache, backend, redisOk,
    shelf, inventory, pc, due, seen, run, sent, undone, faults, crashes,
    \* AdminCommands
    ops, menu, wire, nonces, taken, jobs, work, done, sess, muted, banned, bannedAt, lastAt,
    events, violations, recent, maxlen, late

extOnly == <<up, mem, file, bak, tmp, lock, save, failed, saved, hurt, alive, cache, backend, redisOk,
             shelf, inventory, pc, due, seen, run, sent, undone, faults, crashes>>
adminOnly == <<ops, menu, wire, nonces, taken, jobs, work, done, sess, muted, banned, bannedAt,
               lastAt, events, violations, recent, maxlen, late>>
vars == <<part, clock, extOnly, adminOnly>>

\* Two artifacts of one stage and group that share a hook, and one whose
\* manifest lets an observer block.
Plugin ==
    [kind |-> "native_plugin", fileKind |-> "native_plugin", named |-> TRUE,
     prioritised |-> TRUE, present |-> TRUE, stage |-> "mutate", group |-> "spam",
     hooks |-> {"on_join"}, profiles |-> {"all"}, decisions |-> <<"modify", "pass">>]
Clashing ==
    [x \in {a, b, bad} |-> IF x = bad THEN [Plugin EXCEPT !.stage = "observe"] ELSE Plugin]

\* Two waves, and waves in the wrong order.
Plans == {<<50, 100>>, <<100, 50>>}

\* Schedules ask for a rollback, immediate deployments do not.
Asked == [submit |-> {FALSE}, schedule |-> {TRUE}]

\* What is asked for in one behaviour: bans against logins, the spam filter
\* against the lists, the two settings, and the rest.
Requests ==
    {[kinds |-> {"client", "ban", "unban", "login"}, ops |-> 4, time |-> 2],
     [kinds |-> {"client", "chat", "unmute"}, ops |-> 4, time |-> 2],
     [kinds |-> {"signed", "recent_history_limit", "room_recent_maxlen"}, ops |-> 2, time |-> MaxTime],
     [kinds |-> {"signed", "client", "announce", "disconnect", "kick", "mute", "chat"},
      ops |-> 2, time |-> 2],
     [kinds |-> {"signed", "client", "ban", "login"}, ops |-> 3, time |-> 2]}

Ext == INSTANCE ExtDeployments
           WITH Artifacts <- {a, b, bad}, Manifest <- Clashing, WavePlans <- Plans,
                Rollbacks <- Asked, MaxTime <- ExtTime

\* One user with two connections from one address.
Admin == INSTANCE AdminCommands
             WITH Sessions <- {s1, s2}, Users <- {user1}, Origins <- {host1}, Early <- {s1},
                  Targets <- {user1}, NameOf <- [s \in {s1, s2} |-> user1],
                  OriginOf <- [s \in {s1, s2} |-> host1], Menus <- Requests

NoExt ==
    /\ up = "off" /\ mem = "off" /\ file = "off" /\ bak = "off" /\ tmp = "off" /\ lock = "off"
    /\ save = "off" /\ failed = "off" /\ saved = "off" /\ hurt = "off"
    /\ alive = "off" /\ cache = "off" /\ backend = "off"
    /\ redisOk = "off" /\ shelf = "off" /\ inventory = "off" /\ pc = "off" /\ due = "off"
    /\ seen = "off" /\ run = "off" /\ sent = "off" /\ undone = "off" /\ faults = "off"
    /\ crashes = "off"
NoAdmin ==
    /\ ops = "off" /\ menu = "off" /\ wire = "off" /\ nonces = "off" /\ taken = "off"
    /\ jobs = "off" /\ work = "off" /\ done = "off" /\ sess = "off" /\ muted = "off"
    /\ banned = "off" /\ bannedAt = "off" /\ lastAt = "off" /\ events = "off"
    /\ violations = "off" /\ recent = "off" /\ maxlen = "off" /\ late = "off"

Init ==
    \/ part = "ext" /\ Ext!Init /\ NoAdmin
    \/ part = "admin" /\ Admin!Init /\ NoExt

ExtStep(A) == part = "ext" /\ A /\ UNCHANGED <<part, adminOnly>>
AdminStep(A) == part = "admin" /\ A /\ UNCHANGED <<part, extOnly>>
Next == ExtStep(Ext!Next) \/ AdminStep(Admin!Next)

\* The fairness of ExtDeployments, whose liveness is checked.
FairSpec ==
    /\ Init /\ [][Next]_vars
    /\ WF_vars(ExtStep(Ext!Saving)) /\ WF_vars(ExtStep(Ext!Polling))
    /\ WF_vars(ExtStep(Ext!Restart)) /\ WF_vars(ExtStep(Ext!Tick))

----------------------------------------------------------------------------

\* ExtDeployments: no two live deployments hold one exclusive group.
ExclusiveGroups == part = "ext" => Ext!ExclusiveGroups

\* ExtDeployments: while the lock is free the store on disk is the map saved last.
StoreFollows == part = "ext" => Ext!StoreFollows

\* ExtDeployments: the store is the map saved last whatever happens.
StoreSurvives == part = "ext" => Ext!StoreSurvives

\* ExtDeployments: a submitted command is completed or failed in the end.
CommandSettles == \A c \in Commands : []<>(part = "ext" => Ext!Settled(c))

\* AdminCommands: a signed command is accepted once.
AppliedOnce == part = "admin" => Admin!AppliedOnce

\* AdminCommands: the sessions of a banned user are being stopped.
BannedAreLeaving == part = "admin" => Admin!BannedAreLeaving

\* AdminCommands: only an administrator lifts a penalty.
PenaltyStands == [][part = "admin" => Admin!PenaltyKept]_vars

============================================================================
