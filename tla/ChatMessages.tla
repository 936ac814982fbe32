----------------------------- MODULE ChatMessages -----------------------------
(***************************************************************************)
(* The messages of one chat room: on_chat_send from the collection of its  *)
(* targets to the last_seen update, the recent-history cache in Redis, the *)
(* snapshot with its database fallback and read-repair, /refresh, whispers,*)
(* blocks, and the fan-out to the other server instances.                  *)
(*                                                                         *)
(* Rows of the messages table are numbered by one sequence for all rooms:  *)
(* db[i] is the message of row i, 0 for a row of another room and -1 for a *)
(* number whose row was rolled back.  A message is the number the model    *)
(* gives it when it is sent.  Each lock block and each call to Redis or to *)
(* the database is a step; job[w] is what worker w holds in the locals of  *)
(* its lambda.                                                             *)
(***************************************************************************)
EXTENDS FiniteSets, Integers, SequencesExt

CONSTANTS
  Users, Nodes,
  Home,            \* the server instance a user is connected to
  Gw,              \* GATEWAY_ID of an instance
  Workers, None,
  Blocks,          \* pairs <<u, v>>: u may send /block v and /unblock v
  RecentLimit, FetchFactor, MaxListLen,   \* history_
  MaxMessages, MaxOther,   \* messages of this room and rows of other rooms
  Early,           \* users who entered before the room's first message
  MaxOps           \* requests, failing calls, lost payloads and foreign rows

Messages == 1 .. MaxMessages
Rows == 1 .. MaxMessages + MaxOther

VARIABLES
  present,         \* users in the room, as state_.rooms of their instance has it
  ops,
  blocked,         \* state_.user_blacklists
  sent, kind, outcome,     \* messages: how many, chat or whisper, what came of it
  db, lastSeen,    \* messages and memberships.last_seen_msg_id
  recent, payload, \* room:<id>:recent (newest first) and the msg:<id> keys
  fan,             \* published on the fan-out channels and not yet delivered
  job,
  got,             \* how often a message was pushed to a user
  snap, shown,     \* the last snapshot a user was sent, all it was shown
  since,           \* rows of the table when the user entered the room
  shunned          \* users who had blocked the sender when a message was sent

logVars == <<sent, kind, outcome>>
cacheVars == <<recent, payload>>
clientVars == <<got, snap, shown>>
vars == <<present, ops, blocked, logVars, db, lastSeen, cacheVars, fan, job,
          clientVars, since, shunned>>

Idle == [op |-> "idle", pc |-> "", u |-> None, m |-> 0, id |-> 0, to |-> {},
         ids |-> <<>>, hits |-> 0, msgs |-> <<>>, from |-> 0]

Init ==
  /\ present = Early /\ ops = 0
  /\ blocked = [u \in Users |-> {}]
  /\ sent = 0 /\ kind = [m \in Messages |-> None] /\ outcome = [m \in Messages |-> None]
  /\ db = <<>> /\ lastSeen = [u \in Users |-> 0]
  /\ recent = <<>> /\ payload = {} /\ fan = {} /\ job = [w \in Workers |-> Idle]
  /\ got = [u \in Users |-> [m \in Messages |-> 0]]
  /\ snap = [u \in Users |-> <<>>] /\ shown = [u \in Users |-> {}]
  /\ since = [u \in Users |-> 0] /\ shunned = [m \in Messages |-> {}]

-----------------------------------------------------------------------------
At(w, pc) == job[w].pc = pc
Goto(w, pc) == job' = [job EXCEPT ![w].pc = pc]
Done(w) == job' = [job EXCEPT ![w] = Idle]
Begin(w, fields) == job[w].op = "idle" /\ job' = [job EXCEPT ![w] = fields]

RoomRows == {i \in 1 .. Len(db) : db[i] > 0}
LastRow == IF RoomRows = {} THEN 0 ELSE Max(RoomRows)
LastN(s, n) == SubSeq(s, Len(s) - Min({n, Len(s)}) + 1, Len(s))

\* One more thing happens.
Op == ops < MaxOps /\ ops' = ops + 1

\* A call succeeds, or a call fails.
Works == UNCHANGED ops
Fails == Op

\* A new message number; the users who block its sender now.
Sending(u, k) ==
  /\ sent < MaxMessages /\ Op
  /\ sent' = sent + 1
  /\ kind' = [kind EXCEPT ![sent + 1] = k]
  /\ outcome' = [outcome EXCEPT ![sent + 1] = "pending"]
  /\ shunned' = [shunned EXCEPT ![sent + 1] = {v \in Users : u \in blocked[v]}]

\* A mutant: a broadcast reaches users who blocked the sender.
AudienceUnfiltered(n, u) == {v \in present : Home[v] = n}

\* The users of the room on instance n who do not block u.
Audience(n, u) == {v \in present : Home[v] = n /\ u \notin blocked[v]}

Push(users, m) ==
  got' = [v \in Users |-> IF v \in users THEN [got[v] EXCEPT ![m] = @ + 1] ELSE got[v]]

-----------------------------------------------------------------------------
\* The room, and what a user does about others.

\* on_join up to its snapshot.
Enter(w, u) ==
  /\ u \notin present /\ Op
  /\ present' = present \union {u}
  /\ since' = [since EXCEPT ![u] = Len(db)]
  /\ shown' = [shown EXCEPT ![u] = {}]
  /\ Begin(w, [Idle EXCEPT !.op = "join", !.pc = "lrange", !.u = u])
  /\ UNCHANGED <<blocked, logVars, db, lastSeen, cacheVars, fan, got, snap, shunned>>

Leave(u) ==
  /\ u \in present /\ \A w \in Workers : job[w].u # u /\ Op
  /\ present' = present \ {u}
  /\ UNCHANGED <<blocked, logVars, db, lastSeen, cacheVars, fan, job, clientVars, since,
                 shunned>>

Block(u, v) ==
  /\ <<u, v>> \in Blocks /\ v \notin blocked[u] /\ Op
  /\ blocked' = [blocked EXCEPT ![u] = @ \union {v}]
  /\ UNCHANGED <<present, logVars, db, lastSeen, cacheVars, fan, job, clientVars, since,
                 shunned>>

Unblock(u, v) ==
  /\ v \in blocked[u] /\ Op
  /\ blocked' = [blocked EXCEPT ![u] = @ \ {v}]
  /\ shunned' = [m \in Messages |-> shunned[m] \ {u}]
  /\ UNCHANGED <<present, logVars, db, lastSeen, cacheVars, fan, job, clientVars, since>>

\* A message of another room takes the next row.
OtherRoom ==
  /\ Cardinality({i \in 1 .. Len(db) : db[i] = 0}) < MaxOther /\ Op
  /\ db' = Append(db, 0)
  /\ UNCHANGED <<present, blocked, logVars, lastSeen, cacheVars, fan, job,
                 clientVars, since, shunned>>

\* The TTL of a msg:<id> key runs out.
Expire ==
  /\ Op
  /\ \E i \in payload : payload' = payload \ {i}
  /\ UNCHANGED <<present, blocked, logVars, db, lastSeen, recent, fan, job, clientVars, since,
                 shunned>>

-----------------------------------------------------------------------------
\* on_chat_send behind its moderation checks

ChatTargets(w, u) ==
  /\ u \in present
  /\ Sending(u, "chat")
  /\ Begin(w, [Idle EXCEPT !.op = "chat", !.pc = "persist", !.u = u, !.m = sent + 1,
                           !.to = Audience(Home[u], u)])
  /\ UNCHANGED <<present, blocked, db, lastSeen, cacheVars, fan, clientVars, since>>

\* messages().create and commit.  When create fails the message goes on without
\* an id; when the commit does, it goes on with the id of a row that is not there.
ChatPersist(w) ==
  /\ At(w, "persist")
  /\ \/ /\ (Works /\ db' = Append(db, job[w].m)) \/ (Fails /\ db' = Append(db, -1))
        /\ job' = [job EXCEPT ![w].pc = "setex", ![w].id = Len(db) + 1]
     \/ Fails /\ Goto(w, "send") /\ UNCHANGED db
  /\ UNCHANGED <<present, blocked, logVars, lastSeen, cacheVars, fan, clientVars,
                 since, shunned>>

\* cache_recent_message: SETEX, then LPUSH and LTRIM.
ChatSetex(w) ==
  /\ At(w, "setex")
  /\ \/ Works /\ payload' = payload \union {job[w].id} /\ Goto(w, "lpush")
     \/ Fails /\ Goto(w, "send") /\ UNCHANGED payload
  /\ UNCHANGED <<present, blocked, logVars, db, lastSeen, recent, fan, clientVars,
                 since, shunned>>

Pushed(id) == SubSeq(<<id>> \o recent, 1, Min({MaxListLen, Len(recent) + 1}))

ChatLpush(w) ==
  /\ At(w, "lpush")
  /\ (Works /\ recent' = Pushed(job[w].id)) \/ (Fails /\ UNCHANGED recent)
  /\ Goto(w, "send")
  /\ UNCHANGED <<present, blocked, logVars, db, lastSeen, payload, fan, clientVars,
                 since, shunned>>

\* The sender alone gets an echo when there is no target.
ChatSend(w) ==
  /\ At(w, "send") /\ job[w].op = "chat"
  /\ Push(IF job[w].to = {} THEN {job[w].u} ELSE job[w].to, job[w].m)
  /\ outcome' = [outcome EXCEPT ![job[w].m] = "ok"]
  /\ Goto(w, "publish")
  /\ UNCHANGED <<present, ops, blocked, sent, kind, db, lastSeen, cacheVars, fan, snap,
                 shown, since, shunned>>

Published(m, u, v) == {[m |-> m, u |-> u, v |-> v, n |-> n] : n \in Nodes}

ChatPublish(w) ==
  /\ At(w, "publish") /\ job[w].op = "chat"
  /\ \/ Works /\ fan' = fan \union Published(job[w].m, job[w].u, None)
     \/ Fails /\ UNCHANGED fan
  /\ IF job[w].id > 0 THEN Goto(w, "seen") ELSE Done(w)
  /\ UNCHANGED <<present, blocked, logVars, db, lastSeen, cacheVars, clientVars,
                 since, shunned>>

\* update_last_seen does not look at the value it replaces.
ChatSeen(w) ==
  /\ At(w, "seen")
  /\ \/ Works /\ lastSeen' = [lastSeen EXCEPT ![job[w].u] = job[w].id]
     \/ Fails /\ UNCHANGED lastSeen
  /\ Done(w)
  /\ UNCHANGED <<present, blocked, logVars, db, cacheVars, fan, clientVars, since,
                 shunned>>

-----------------------------------------------------------------------------
\* dispatch_whisper

\* Oneself, somebody the sender blocks, or somebody who blocks the sender as
\* far as the sender's instance knows.
WhisperDenied(w, u, v) ==
  /\ Sending(u, "whisper")
  /\ \/ v = u \/ v \in blocked[u]
     \/ Home[v] = Home[u] /\ u \in blocked[v]
  /\ job[w].op = "idle"
  /\ outcome' = [outcome EXCEPT ![sent + 1] = "denied"]
  /\ UNCHANGED <<present, blocked, db, lastSeen, cacheVars, fan, job, clientVars, since>>

\* The target's sessions are collected under the lock and sent to after it.
WhisperResolve(w, u, v) ==
  LET local == Home[v] = Home[u] IN
  /\ Sending(u, "whisper")
  /\ v # u /\ v \notin blocked[u]
  /\ ~(local /\ u \in blocked[v])
  /\ Begin(w, [Idle EXCEPT !.op = "whisper", !.pc = IF local THEN "send" ELSE "publish",
                           !.u = u, !.m = sent + 1, !.to = {v}])
  /\ UNCHANGED <<present, blocked, db, lastSeen, cacheVars, fan, clientVars, since>>

WhisperSend(w) ==
  /\ At(w, "send") /\ job[w].op = "whisper"
  /\ Push(job[w].to, job[w].m)
  /\ outcome' = [outcome EXCEPT ![job[w].m] = "ok"]
  /\ Done(w)
  /\ UNCHANGED <<present, ops, blocked, sent, kind, db, lastSeen, cacheVars, fan, snap,
                 shown, since, shunned>>

\* A whisper counts as sent once it is published.
WhisperPublish(w) ==
  /\ At(w, "publish") /\ job[w].op = "whisper"
  /\ \/ /\ Works
        /\ fan' = fan \union Published(job[w].m, job[w].u, CHOOSE v \in job[w].to : TRUE)
        /\ outcome' = [outcome EXCEPT ![job[w].m] = "ok"]
     \/ Fails /\ outcome' = [outcome EXCEPT ![job[w].m] = "denied"] /\ UNCHANGED fan
  /\ Done(w)
  /\ UNCHANGED <<present, blocked, sent, kind, db, lastSeen, cacheVars, clientVars,
                 since, shunned>>

-----------------------------------------------------------------------------
\* The subscriber of the fan-out channels

\* A mutant: an instance delivers what it has published itself.
FromElsewhereAlways(f) == TRUE

FromElsewhere(f) == Gw[f.n] # Gw[Home[f.u]]

\* broadcast_room for a chat, deliver_remote_whisper for a whisper.
FanoutDeliver(f) ==
  LET named == {v \in {f.v} : Home[v] = f.n /\ f.u \notin blocked[v]}
      users == IF f.v = None THEN Audience(f.n, f.u) ELSE named
  IN
  /\ Push(IF FromElsewhere(f) THEN users ELSE {}, f.m)
  /\ fan' = fan \ {f}
  /\ UNCHANGED <<present, ops, blocked, logVars, db, lastSeen, cacheVars, job, snap,
                 shown, since, shunned>>

\* Pub/sub does not keep what is published while a subscriber reconnects.
FanoutLost(f) ==
  /\ Fails
  /\ fan' = fan \ {f}
  /\ UNCHANGED <<present, blocked, logVars, db, lastSeen, cacheVars, job,
                 clientVars, since, shunned>>

-----------------------------------------------------------------------------
\* send_snapshot and handle_refresh

Refresh(w, u) ==
  /\ u \in present /\ Op
  /\ Begin(w, [Idle EXCEPT !.op = "refresh", !.pc = "lrange", !.u = u])
  /\ UNCHANGED <<present, blocked, logVars, db, lastSeen, cacheVars, fan, clientVars, since,
                 shunned>>

SnapList(w) ==
  /\ At(w, "lrange")
  /\ \/ /\ Works
        /\ job' = [job EXCEPT ![w].pc = "mget",
                              ![w].ids = SubSeq(recent, 1, Min({RecentLimit, Len(recent)}))]
     \/ Fails /\ Goto(w, "range")
  /\ UNCHANGED <<present, blocked, logVars, db, lastSeen, cacheVars, fan,
                 clientVars, since, shunned>>

\* s without the later of two equal elements.
Deduped(s) == FoldLeft(LAMBDA acc, x : IF Contains(acc, x) THEN acc ELSE Append(acc, x), <<>>, s)

\* The payloads that are still there, oldest push first; an id counts as often
\* as the list holds it, and is shown once.
SnapPayloads(w) ==
  LET found == Reverse(SelectSeq(job[w].ids, LAMBDA i : i \in payload)) IN
  /\ At(w, "mget")
  /\ job' = [job EXCEPT ![w].pc = "range", ![w].hits = Len(found), ![w].msgs = Deduped(found)]
  /\ UNCHANGED <<present, ops, blocked, logVars, db, lastSeen, cacheVars, fan,
                 clientVars, since, shunned>>

\* The row after which the fallback reads, from last_seen and the newest row.
SinceId(seen, last) ==
  LET newest == IF last > RecentLimit THEN last - RecentLimit ELSE 0
      context == RecentLimit * FetchFactor
  IN  IF last = 0 THEN 0
      ELSE IF seen = 0 \/ seen >= last THEN newest
      ELSE IF last > context THEN Max({seen, last - context}) ELSE seen

\* The fallback runs when the cache has fewer than the limit.
SnapRange(w) ==
  /\ At(w, "range")
  /\ \/ /\ Works /\ job[w].hits < RecentLimit
        /\ job' = [job EXCEPT ![w].pc = "fetch",
                              ![w].from = SinceId(lastSeen[job[w].u], LastRow)]
     \/ ((Works /\ job[w].hits >= RecentLimit) \/ Fails) /\ Goto(w, "reply")
  /\ UNCHANGED <<present, blocked, logVars, db, lastSeen, cacheVars, fan,
                 clientVars, since, shunned>>

\* A mutant: rows that came from the cache are not left out.
RowsAgain(w) ==
  LET count == Min({MaxListLen, Max({RecentLimit, RecentLimit * FetchFactor})})
      after == SetToSortSeq({i \in RoomRows : i > job[w].from}, <)
  IN  LastN(SubSeq(after, 1, Min({count, Len(after)})), RecentLimit - job[w].hits)

\* The rows of fetch_recent_by_room that the cache did not have, cut to what
\* the limit leaves.
NewRows(w) ==
  LET count == Min({MaxListLen, Max({RecentLimit, RecentLimit * FetchFactor})})
      after == SetToSortSeq({i \in RoomRows : i > job[w].from}, <)
      fetched == SubSeq(after, 1, Min({count, Len(after)}))
      new == SelectSeq(fetched, LAMBDA i : ~Contains(job[w].msgs, i))
  IN  LastN(LastN(new, RecentLimit), RecentLimit - job[w].hits)

SnapFetch(w) ==
  /\ At(w, "fetch")
  /\ \/ Works /\ job' = [job EXCEPT ![w].pc = "repair", ![w].ids = NewRows(w)]
     \/ Fails /\ Goto(w, "reply")
  /\ UNCHANGED <<present, blocked, logVars, db, lastSeen, cacheVars, fan,
                 clientVars, since, shunned>>

\* Each row of the fallback is added to the snapshot and cached: SETEX, and
\* LPUSH if it succeeds.
SnapRepair(w) ==
  LET id == Head(job[w].ids) IN
  /\ At(w, "repair") /\ job[w].ids # <<>>
  /\ job' = [job EXCEPT ![w].ids = Tail(@), ![w].msgs = Append(@, id)]
  /\ \/ Works /\ payload' = payload \union {id} /\ recent' = Pushed(id)
     \/ Fails /\ payload' = payload \union {id} /\ UNCHANGED recent
     \/ Fails /\ UNCHANGED cacheVars
  /\ UNCHANGED <<present, blocked, logVars, db, lastSeen, fan, clientVars, since,
                 shunned>>

SnapReply(w) ==
  /\ At(w, "reply") \/ (At(w, "repair") /\ job[w].ids = <<>>)
  /\ snap' = [snap EXCEPT ![job[w].u] = job[w].msgs]
  /\ shown' = [shown EXCEPT ![job[w].u] = @ \union ToSet(job[w].msgs)]
  /\ IF job[w].op = "refresh" THEN Goto(w, "last") ELSE Done(w)
  /\ UNCHANGED <<present, ops, blocked, logVars, db, lastSeen, cacheVars, fan, got,
                 since, shunned>>

\* handle_refresh marks the newest row as seen.
RefreshSeen(w) ==
  /\ At(w, "last")
  /\ \/ Works /\ LastRow > 0 /\ lastSeen' = [lastSeen EXCEPT ![job[w].u] = LastRow]
     \/ ((Works /\ LastRow = 0) \/ Fails) /\ UNCHANGED lastSeen
  /\ Done(w)
  /\ UNCHANGED <<present, blocked, logVars, db, cacheVars, fan, clientVars, since,
                 shunned>>

-----------------------------------------------------------------------------
ChatStep(w) ==
  ChatPersist(w) \/ ChatSetex(w) \/ ChatLpush(w) \/ ChatSend(w) \/ ChatPublish(w) \/ ChatSeen(w)
SnapStep(w) ==
  \/ SnapList(w) \/ SnapPayloads(w) \/ SnapRange(w) \/ SnapFetch(w) \/ SnapRepair(w)
  \/ SnapReply(w) \/ RefreshSeen(w)
WorkerStep(w) == ChatStep(w) \/ SnapStep(w) \/ WhisperSend(w) \/ WhisperPublish(w)

Start(w, u) ==
  \/ Enter(w, u) \/ ChatTargets(w, u) \/ Refresh(w, u)
  \/ \E v \in Users : WhisperDenied(w, u, v) \/ WhisperResolve(w, u, v)

Next ==
  \/ \E w \in Workers : WorkerStep(w)
  \/ \E w \in Workers, u \in Users : Start(w, u)
  \/ \E u \in Users : Leave(u) \/ \E v \in Users : Block(u, v) \/ Unblock(u, v)
  \/ OtherRoom \/ Expire
  \/ \E f \in fan : FanoutDeliver(f) \/ FanoutLost(f)

Spec == Init /\ [][Next]_vars

-----------------------------------------------------------------------------
TypeOK ==
  /\ present \subseteq Users
  /\ sent \in 0 .. MaxMessages
  /\ Len(db) <= MaxMessages + MaxOther
  /\ lastSeen \in [Users -> {0} \union Rows]
  /\ Len(recent) <= MaxListLen /\ ToSet(recent) \subseteq Rows /\ payload \subseteq Rows
  /\ got \in [Users -> [Messages -> Nat]]

\* A message is pushed to a user at most once, by its own instance or by the
\* fan-out, whatever runs at the same time.
NoDoubleDelivery == \A u \in Users, m \in Messages : got[u][m] <= 1

\* A snapshot shows no message twice, none of another room, and no more than
\* RECENT_HISTORY_LIMIT, although cache, database and read-repair change between
\* its steps.  A message whose commit failed may be among them.
SnapshotSound ==
  \A u \in Users :
    /\ IsInjective(snap[u])
    /\ \A i \in ToSet(snap[u]) : i \in 1 .. Len(db) /\ db[i] # 0
    /\ Len(snap[u]) <= RecentLimit

\* docs/chat/recent-history.md:31: a message is cached when it was persisted.
CachedWasPersisted == payload \subseteq RoomRows

\* Whoever blocked the sender before a message was sent, and has not taken the
\* block back, is not pushed the message: not by the sender's instance, not by
\* the fan-out, not as a whisper.
BlockRespected ==
  \A m \in Messages : \A v \in shunned[m] : got[v][m] = 0

\* When nothing runs, a user in the room has every message that was stored
\* after it entered: from a snapshot, or pushed.
NothingMissed ==
  (fan = {} /\ \A w \in Workers : job[w].op = "idle") =>
    \A u \in present, i \in RoomRows :
      i > since[u] => i \in shown[u] \/ got[u][db[i]] > 0
=============================================================================
