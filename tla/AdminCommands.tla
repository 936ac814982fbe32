---------------------------- MODULE AdminCommands ----------------------------
(***************************************************************************)
(* Administration of a chat server: admin_app publishes signed commands,   *)
(* the server verifies them against clock and nonce (Verifier), queues a   *)
(* job for each, and a pool of workers applies the jobs to the moderation  *)
(* and settings state of ChatService.  The same state is changed by the    *)
(* slash commands of administrators, by the spam filter and by logins.     *)
(*                                                                         *)
(* A step of a worker is one critical section on state_.mu; the settings   *)
(* are not covered by any lock.  An origin stands for the IP address and   *)
(* for the hardware id of a session, which the code treats alike.          *)
(***************************************************************************)
EXTENDS Integers, Sequences, FiniteSets, SequencesExt

CONSTANTS
    Sessions, Users, Origins, Workers, None,
    NameOf,         \* session -> the user it logs in as
    OriginOf,       \* session -> where it connects from
    Early,          \* the sessions that are logged in to begin with
    Targets,        \* the users administrators act on
    Menus,          \* kinds of request, how many and until when; a behaviour keeps to one
    Values,         \* values a settings command may carry
    MinSetting, MaxRecent, MaxList, \* the RuntimeSettingRules of the two history keys
    Ttl, FutureSkew, \* VerifyOptions
    Ahead,          \* how far admin_app's clock is ahead of the server's
    MuteLen, BanLen, Window,    \* spam_mute_sec_, spam_ban_sec_, spam_window_sec_
    Threshold,      \* spam_message_threshold_
    BanViolations,  \* spam_ban_violation_threshold_
    QueueMax,       \* capacity of the job queue
    MaxTime,        \* bound on the clock of every menu
    MaxOps          \* bound on requests of users and administrators

VARIABLES
    clock,      \* the server's clock
    ops,        \* requests so far
    menu,       \* the kinds of request of this behaviour
    wire,       \* commands published; each may arrive late, or again
    nonces,     \* seen_nonces_: command -> issued_at, None when unknown
    taken,      \* how often each command passed verification
    jobs,       \* the job queue
    work,       \* worker -> the job it runs and how far it got
    done,       \* commands whose job has run or was dropped
    sess,       \* session -> "out", "in" or "closed"
    muted, banned,  \* user -> expiry, None when there is no entry
    bannedAt,   \* origin -> expiry, None when there is no entry
    lastAt,     \* user_last_ip and user_last_hwid_hash
    events,     \* spam_events
    violations, \* spam_violations
    recent, maxlen, \* history_.recent_limit and history_.max_list_len
    late        \* sessions whose login was checked before a ban that hit them (history)

net == <<wire, nonces, taken>>
marks == <<muted, banned, bannedAt, lastAt>>
spam == <<events, violations>>
settings == <<recent, maxlen>>
vars == <<clock, ops, menu, net, jobs, work, done, sess, marks, spam, settings, late>>

Idle == [pc |-> "idle"]
Ids == 1..MaxOps

Init ==
    /\ clock = 0 /\ ops = 0 /\ menu \in Menus
    /\ wire = {} /\ nonces = [i \in Ids |-> None] /\ taken = [i \in Ids |-> 0]
    /\ jobs = <<>> /\ work = [w \in Workers |-> Idle] /\ done = {}
    /\ sess = [s \in Sessions |-> IF s \in Early THEN "in" ELSE "out"]
    /\ muted = [u \in Users |-> None] /\ banned = [u \in Users |-> None]
    /\ bannedAt = [o \in Origins |-> None]
    /\ lastAt = [u \in Users |->
         IF \E s \in Early : NameOf[s] = u
         THEN OriginOf[CHOOSE s \in Early : NameOf[s] = u] ELSE None]
    /\ events = [u \in Users |-> <<>>] /\ violations = [u \in Users |-> 0]
    /\ recent = MinSetting /\ maxlen = MinSetting + 1
    /\ late = {}

Asks(via, kind) == {via, kind} \subseteq menu.kinds /\ ops < menu.ops /\ ops' = ops + 1

\* job_queue_.TryPush: a full queue drops the job.
Push(job) == jobs' = IF Len(jobs) < QueueMax THEN Append(jobs, job) ELSE jobs

-----------------------------------------------------------------------------
(* admin_app.                                                              *)

ModerationOps == {"mute", "unmute", "ban", "unban", "kick"}
UserOps == ModerationOps \cup {"disconnect"}
Keys == {"recent_history_limit", "room_recent_maxlen"}

\* The least role an endpoint asks for; a viewer may only read.
RoleRank(role) == CASE role = "admin" -> 2 [] role = "operator" -> 1 [] OTHER -> 0
RequiredRole(op) == IF op = "announce" THEN "operator" ELSE "admin"
Permitted(role, op) == RoleRank(role) >= RoleRank(RequiredRole(op))

MaxSetting(key) == IF key = "recent_history_limit" THEN MaxRecent ELSE MaxList
InRange(key, v) == v \in MinSetting..MaxSetting(key)

\* A command signed with admin_app's time; its nonce is the command itself.
Publish(job) ==
    /\ wire' = wire \cup {[job |-> [job EXCEPT !.id = ops'], issued |-> clock + Ahead]}
    /\ UNCHANGED <<clock, nonces, taken, jobs, work, done, sess, marks, spam, settings, late>>

Job(kind) == [id |-> 0, kind |-> kind, user |-> None, value |-> 0, sess |-> None]

HandleDisconnectUsers(role, u) ==
    /\ Permitted(role, "disconnect") /\ Asks("signed", "disconnect")
    /\ Publish([Job("disconnect") EXCEPT !.user = u])

HandleUserModeration(role, op, u) ==
    /\ Permitted(role, op) /\ Asks("signed", op)
    /\ Publish([Job(op) EXCEPT !.user = u])

HandleAnnouncement(role) ==
    /\ Permitted(role, "announce") /\ Asks("signed", "announce")
    /\ Publish(Job("announce"))

\* The range is checked here, and again by the server.
HandleRuntimeSetting(role, key, v) ==
    /\ Permitted(role, key) /\ InRange(key, v) /\ Asks("signed", key)
    /\ Publish([Job(key) EXCEPT !.value = v])

-----------------------------------------------------------------------------
(* The subscriber of the chat server.                                      *)

\* Mutant: a nonce is forgotten in the last instant its command is valid.
ForgottenEarly == [i \in Ids |->
    IF nonces[i] # None /\ nonces[i] + Ttl <= clock THEN None ELSE nonces[i]]

\* Nonces whose commands have expired.
Forgotten == [i \in Ids |->
    IF nonces[i] # None /\ nonces[i] + Ttl < clock THEN None ELSE nonces[i]]

\* The checks before the nonce is looked at: not from the future, not expired.
Timely(m) == m.issued <= clock + FutureSkew /\ ~(m.issued + Ttl < clock)

VerifyOk(m) == Timely(m) /\ Forgotten[m.job.id] = None

\* The job of a command is queued; a hook may deny it and the queue be full,
\* then it is dropped without a word to admin_app.
Submit(job) == Len(jobs) < QueueMax /\ Push(job) /\ UNCHANGED done
Dismiss(job) == done' = done \cup {job.id} /\ UNCHANGED jobs

\* Verified; a selector that leaves this server out dismisses the command too.
Deliver(m) ==
    /\ m \in wire /\ VerifyOk(m)
    /\ nonces' = [Forgotten EXCEPT ![m.job.id] = m.issued]
    /\ taken' = [taken EXCEPT ![m.job.id] = @ + 1]
    /\ Submit(m.job) \/ Dismiss(m.job)
    /\ UNCHANGED <<clock, ops, wire, work, sess, marks, spam, settings, late>>

\* Late or repeated: only the expired nonces are swept, and only when the
\* message is timely.
Reject(m) ==
    /\ m \in wire /\ ~VerifyOk(m)
    /\ nonces' = IF Timely(m) THEN Forgotten ELSE nonces
    /\ UNCHANGED <<clock, ops, wire, taken, jobs, work, done, sess, marks, spam, settings, late>>

-----------------------------------------------------------------------------
(* Requests of the clients.                                                *)

LoginReq(s) ==
    /\ sess[s] = "out" /\ Asks("client", "login")
    /\ Push([Job("login") EXCEPT !.sess = s])
    /\ UNCHANGED <<clock, net, work, done, sess, marks, spam, settings, late>>

ChatSend(s) ==
    /\ sess[s] = "in" /\ Asks("client", "chat")
    /\ Push([Job("chat") EXCEPT !.sess = s])
    /\ UNCHANGED <<clock, net, work, done, sess, marks, spam, settings, late>>

\* A slash command of an administrator is a chat message, so it is a job too.
SlashCommand(op, u) ==
    /\ Asks("client", op)
    /\ Push([Job(op) EXCEPT !.user = u])
    /\ UNCHANGED <<clock, net, work, done, sess, marks, spam, settings, late>>

\* A closed client connects again.
Reconnect(s) ==
    /\ sess[s] = "closed"
    /\ sess' = [sess EXCEPT ![s] = "out"]
    /\ UNCHANGED <<clock, ops, net, jobs, work, done, marks, spam, settings, late>>

-----------------------------------------------------------------------------
(* The workers.                                                            *)

InForce(expiry) == expiry # None /\ expiry > clock

\* Mutant: an entry is erased one instant early.
PurgedEarly(expiry) == IF expiry # None /\ expiry > clock + 1 THEN expiry ELSE None

\* Expired entries are erased when they are looked up.
Purged(expiry) == IF InForce(expiry) THEN expiry ELSE None

Finish(w) ==
    /\ work' = [work EXCEPT ![w] = Idle]
    /\ done' = done \cup ({work[w].job.id} \ {0})

Take(w) ==
    /\ work[w].pc = "idle" /\ jobs # <<>>
    /\ work' = [work EXCEPT ![w] = [pc |-> "run", job |-> Head(jobs)]]
    /\ jobs' = Tail(jobs)
    /\ UNCHANGED <<clock, ops, net, done, sess, marks, spam, settings, late>>

Runs(w, kinds) == work[w].pc = "run" /\ work[w].job.kind \in kinds

\* The sessions in by_user under a name.
Known(u) == {s \in Sessions : sess[s] = "in" /\ NameOf[s] = u}

\* Logins that have been checked and not yet entered by_user.
Entering(u) ==
    {s \in Sessions : \E w \in Workers :
        work[w].pc = "commit" /\ work[w].job.sess = s /\ NameOf[s] = u}

\* The expiry of a ban of u that begins now, for the name and for where it
\* was last seen.
BanMarks(u) ==
    /\ banned' = [banned EXCEPT ![u] = clock + BanLen]
    /\ bannedAt' = [o \in Origins |-> IF o = lastAt[u] THEN clock + BanLen ELSE bannedAt[o]]
    /\ late' = late \cup Entering(u)

MuteUser(w) ==
    /\ Runs(w, {"mute"})
    /\ muted' = [muted EXCEPT ![work[w].job.user] = clock + MuteLen]
    /\ Finish(w)
    /\ UNCHANGED <<clock, ops, net, jobs, sess, banned, bannedAt, lastAt, spam, settings, late>>

UnmuteUser(w) ==
    /\ Runs(w, {"unmute"})
    /\ muted' = [muted EXCEPT ![work[w].job.user] = None]
    /\ Finish(w)
    /\ UNCHANGED <<clock, ops, net, jobs, sess, banned, bannedAt, lastAt, spam, settings, late>>

\* The sessions to stop are collected under the lock and stopped after it.
Stopping(w, kill) ==
    /\ work' = [work EXCEPT ![w] = [pc |-> "stop", job |-> work[w].job, kill |-> kill]]
    /\ UNCHANGED done

BanUser(w) ==
    /\ Runs(w, {"ban"})
    /\ BanMarks(work[w].job.user)
    /\ Stopping(w, Known(work[w].job.user))
    /\ UNCHANGED <<clock, ops, net, jobs, sess, muted, lastAt, spam, settings>>

\* The place that is freed is the one the user was seen at last, which need
\* not be the one the ban was put on.
UnbanUser(w) ==
    /\ Runs(w, {"unban"})
    /\ LET u == work[w].job.user IN
       /\ banned' = [banned EXCEPT ![u] = None]
       /\ bannedAt' = [o \in Origins |-> IF o = lastAt[u] THEN None ELSE bannedAt[o]]
    /\ Finish(w)
    /\ UNCHANGED <<clock, ops, net, jobs, sess, muted, lastAt, spam, settings, late>>

KickUser(w) ==
    /\ Runs(w, {"kick"})
    /\ Stopping(w, Known(work[w].job.user))
    /\ UNCHANGED <<clock, ops, net, jobs, sess, marks, spam, settings, late>>

DisconnectUser(w) ==
    /\ Runs(w, {"disconnect"})
    /\ Stopping(w, Known(work[w].job.user))
    /\ UNCHANGED <<clock, ops, net, jobs, sess, marks, spam, settings, late>>

\* Mutant: a worker forgets the sessions it collected.
StopSessionsForgotten(w) ==
    /\ work[w].pc = "stop"
    /\ Finish(w)
    /\ UNCHANGED <<clock, ops, net, jobs, sess, marks, spam, settings, late>>

StopSessions(w) ==
    /\ work[w].pc = "stop"
    /\ sess' = [s \in Sessions |-> IF s \in work[w].kill THEN "closed" ELSE sess[s]]
    /\ Finish(w)
    /\ UNCHANGED <<clock, ops, net, jobs, marks, spam, settings, late>>

Announce(w) ==
    /\ Runs(w, {"announce"})
    /\ Finish(w)
    /\ UNCHANGED <<clock, ops, net, jobs, sess, marks, spam, settings, late>>

-----------------------------------------------------------------------------
(* Settings: no lock, one step per access.                                 *)

\* The least value a key may take: the list is never shorter than what a
\* snapshot shows.
MinAllowed(key) ==
    IF key = "room_recent_maxlen" /\ recent > MinSetting THEN recent ELSE MinSetting

SettingRefused(w) ==
    /\ Runs(w, Keys)
    /\ work[w].job.value < MinAllowed(work[w].job.kind) \/ work[w].job.value > MaxSetting(work[w].job.kind)
    /\ Finish(w)
    /\ UNCHANGED <<clock, ops, net, jobs, sess, marks, spam, settings, late>>

SettingChecked(w) ==
    /\ Runs(w, Keys)
    /\ work[w].job.value \in MinAllowed(work[w].job.kind)..MaxSetting(work[w].job.kind)
    /\ work' = [work EXCEPT ![w].pc = "assign"]
    /\ UNCHANGED <<clock, ops, net, jobs, done, sess, marks, spam, recent, maxlen, late>>

SettingAssigned(w) ==
    /\ work[w].pc = "assign"
    /\ LET v == work[w].job.value IN
       IF work[w].job.kind = "room_recent_maxlen"
       THEN maxlen' = v /\ Finish(w) /\ UNCHANGED recent
       ELSE recent' = v /\ work' = [work EXCEPT ![w].pc = "adjust"] /\ UNCHANGED <<maxlen, done>>
    /\ UNCHANGED <<clock, ops, net, jobs, sess, marks, spam, late>>

SettingAdjusted(w) ==
    /\ work[w].pc = "adjust"
    /\ maxlen' = IF maxlen < recent THEN recent ELSE maxlen
    /\ Finish(w)
    /\ UNCHANGED <<clock, ops, net, jobs, sess, marks, spam, recent, late>>

-----------------------------------------------------------------------------
(* Logins and messages.                                                    *)

Denied(s) == InForce(banned[NameOf[s]]) \/ InForce(bannedAt[OriginOf[s]])

\* ensure_unique_or_error; a login hook may deny the login as well.
LoginName(w) ==
    /\ Runs(w, {"login"})
    /\ \/ Known(NameOf[work[w].job.sess]) = {}
          /\ work' = [work EXCEPT ![w].pc = "named"] /\ UNCHANGED done
       \/ Finish(w)
    /\ UNCHANGED <<clock, ops, net, jobs, sess, marks, spam, settings, late>>

\* The ban lists are read in one critical section.  A ban of the name hides
\* the place from the look-up.
LoginCheck(w) ==
    /\ work[w].pc = "named"
    /\ LET s == work[w].job.sess  u == NameOf[s]  o == OriginOf[s] IN
       /\ banned' = [banned EXCEPT ![u] = Purged(@)]
       /\ bannedAt' = IF InForce(banned[u]) THEN bannedAt ELSE [bannedAt EXCEPT ![o] = Purged(@)]
       /\ IF Denied(s) THEN Finish(w)
          ELSE work' = [work EXCEPT ![w].pc = "commit"] /\ UNCHANGED done
    /\ UNCHANGED <<clock, ops, net, jobs, sess, muted, lastAt, spam, settings, late>>

\* ... and the session enters by_user in another.
LoginCommit(w) ==
    /\ work[w].pc = "commit"
    /\ LET s == work[w].job.sess IN
       /\ sess' = [sess EXCEPT ![s] = IF @ = "out" THEN "in" ELSE @]
       /\ lastAt' = [lastAt EXCEPT ![NameOf[s]] = OriginOf[s]]
    /\ Finish(w)
    /\ UNCHANGED <<clock, ops, net, jobs, muted, banned, bannedAt, spam, settings, late>>

\* The events still inside the window.
InWindow(times) == SelectSeq(times, LAMBDA t : t >= clock - Window)

Speaking(w) == Runs(w, {"chat"})
Speaker(w) == NameOf[work[w].job.sess]

\* A muted or banned user; a banned one is stopped.
ChatRefused(w) ==
    /\ Speaking(w)
    /\ LET u == Speaker(w) IN
       /\ InForce(muted[u]) \/ InForce(banned[u])
       /\ muted' = [muted EXCEPT ![u] = Purged(@)]
       /\ banned' = [banned EXCEPT ![u] = Purged(@)]
       /\ IF InForce(banned[u]) THEN Stopping(w, {work[w].job.sess}) ELSE Finish(w)
    /\ UNCHANGED <<clock, ops, net, jobs, sess, bannedAt, lastAt, spam, settings, late>>

Spams(u) == Len(InWindow(events[u])) + 1 > Threshold

Free(u) == ~InForce(muted[u]) /\ ~InForce(banned[u])

ChatAccepted(w) ==
    /\ Speaking(w)
    /\ LET u == Speaker(w) IN
       /\ Free(u) /\ ~Spams(u)
       /\ events' = [events EXCEPT ![u] = Append(InWindow(@), clock)]
       /\ muted' = [muted EXCEPT ![u] = Purged(@)]
       /\ banned' = [banned EXCEPT ![u] = Purged(@)]
    /\ Finish(w)
    /\ UNCHANGED <<clock, ops, net, jobs, sess, bannedAt, lastAt, violations, settings, late>>

\* The message is not delivered, the events are cleared, and the sender is
\* muted or, at the last violation, banned with its place.
ChatSpam(w) ==
    /\ Speaking(w)
    /\ LET u == Speaker(w) IN
       /\ Free(u) /\ Spams(u)
       /\ events' = [events EXCEPT ![u] = <<>>]
       /\ violations' = [violations EXCEPT ![u] = @ + 1]
       /\ IF violations[u] + 1 >= BanViolations
          THEN BanMarks(u) /\ Stopping(w, Known(u)) /\ muted' = [muted EXCEPT ![u] = Purged(@)]
          ELSE /\ muted' = [muted EXCEPT ![u] = clock + MuteLen]
               /\ banned' = [banned EXCEPT ![u] = Purged(@)]
               /\ Finish(w)
               /\ UNCHANGED <<bannedAt, late>>
    /\ UNCHANGED <<clock, ops, net, jobs, sess, lastAt, settings>>

-----------------------------------------------------------------------------
Tick ==
    /\ clock < menu.time
    /\ clock' = clock + 1
    /\ UNCHANGED <<ops, net, jobs, work, done, sess, marks, spam, settings, late>>

Administer ==
    \E role \in {"admin", "operator", "viewer"} :
        \/ \E u \in Targets : HandleDisconnectUsers(role, u)
        \/ \E op \in ModerationOps, u \in Targets : HandleUserModeration(role, op, u)
        \/ HandleAnnouncement(role)
        \/ \E key \in Keys, v \in Values : HandleRuntimeSetting(role, key, v)

Request ==
    \/ \E s \in Sessions : LoginReq(s) \/ ChatSend(s) \/ Reconnect(s)
    \/ \E op \in ModerationOps, u \in Targets : SlashCommand(op, u)

Work(w) ==
    \/ Take(w) \/ MuteUser(w) \/ UnmuteUser(w) \/ BanUser(w) \/ UnbanUser(w) \/ KickUser(w) \/ DisconnectUser(w)
    \/ StopSessions(w) \/ Announce(w)
    \/ SettingRefused(w) \/ SettingChecked(w) \/ SettingAssigned(w) \/ SettingAdjusted(w)
    \/ LoginName(w) \/ LoginCheck(w) \/ LoginCommit(w)
    \/ ChatRefused(w) \/ ChatAccepted(w) \/ ChatSpam(w)

Next ==
    /\ \/ Administer \/ Request \/ Tick
       \/ \E m \in wire : Deliver(m) \/ Reject(m)
       \/ \E w \in Workers : Work(w)
    /\ UNCHANGED menu

Spec == Init /\ [][Next]_vars

\* The worker threads run until the server stops.
FairSpec == Spec /\ \A w \in Workers : WF_vars(Work(w) /\ UNCHANGED menu)

-----------------------------------------------------------------------------
(* Properties.                                                             *)

\* Every variable has its type; the queue never exceeds its capacity.
TypeOK ==
    /\ clock \in 0..MaxTime /\ ops \in 0..MaxOps
    /\ \A m \in wire : m.job.id \in Ids /\ m.issued \in 0..MaxTime + Ahead
    /\ Len(jobs) <= QueueMax
    /\ \A w \in Workers : work[w].pc \in {"idle", "run", "stop", "named", "commit", "assign", "adjust"}
    /\ done \subseteq Ids
    /\ sess \in [Sessions -> {"out", "in", "closed"}]
    /\ \A u \in Users : {muted[u], banned[u]} \subseteq {None} \cup 0..MaxTime + MuteLen + BanLen
    /\ \A o \in Origins : bannedAt[o] \in {None} \cup 0..MaxTime + BanLen
    /\ \A u \in Users : lastAt[u] \in Origins \cup {None} /\ violations[u] \in 0..MaxOps
    /\ recent \in MinSetting..MaxRecent /\ maxlen \in MinSetting..MaxList
    /\ late \subseteq Sessions

\* A signed command passes verification at most once, however often and
\* however late it arrives and whichever clock runs ahead: a nonce is kept at
\* least as long as its command is timely.
AppliedOnce == \A i \in Ids : taken[i] <= 1

\* An entry of the mute and ban lists that is in force is only shortened or
\* removed by a command of an administrator: neither the spam filter nor a
\* login or message that sweeps expired entries may lift a penalty.
PenaltyKept ==
    \A u \in Users :
        \/ \E w \in Workers :
              work[w].pc = "run" /\ work[w].job.kind \in UserOps /\ work'[w] # work[w]
        \/ /\ InForce(muted[u]) => muted'[u] # None /\ muted'[u] >= muted[u]
           /\ InForce(banned[u]) => banned'[u] # None /\ banned'[u] >= banned[u]
PenaltyStands == [][PenaltyKept]_vars

\* Every session of a banned user is being stopped, unless its login had been
\* checked before the ban: no other session of that user is left in by_user.
BannedAreLeaving ==
    \A s \in Sessions :
        sess[s] = "in" /\ InForce(banned[NameOf[s]]) /\ s \notin late =>
            \E w \in Workers : work[w].pc = "stop" /\ s \in work[w].kill

\* A name is held by one session at a time.
NamesUnique == \A u \in Users : Cardinality(Known(u)) <= 1

\* The recent list is never shorter than what a snapshot shows.
HistoryAlwaysOrdered == maxlen >= recent \/ \E w \in Workers : work[w].pc = "adjust"

=============================================================================
