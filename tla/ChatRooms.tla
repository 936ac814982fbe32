------------------------------ MODULE ChatRooms ------------------------------
(***************************************************************************)
(* Sessions, names and rooms of ChatService (server/src/chat).             *)
(*                                                                         *)
(* Every request is a job of the job queue and the worker threads run jobs *)
(* side by side, those of one session included.  A job is not atomic: it   *)
(* takes state_.mu once per block and talks to Redis and to the database   *)
(* between the blocks.  Each block and each group of calls is one step     *)
(* here, and job[w] holds the program counter and the locals of the lambda *)
(* that worker w runs.                                                     *)
(*                                                                         *)
(* A session is an object that lives once.  Rooms hold weak pointers, so a *)
(* dead session may still be an element of a room: Alive tells them apart. *)
(* state_.by_user is not a variable, it is the inverse of state_.user.     *)
(***************************************************************************)
EXTENDS FiniteSets, Integers

CONSTANTS
  Sessions, Names, Workers,
  Rooms,           \* room names other than the lobby
  Lobby, Passwords,
  Admins,          \* CHAT_ADMIN_USERS
  None,            \* no entry in a map, no job, no room
  MaxLogins,       \* LOGIN_REQs a client sends
  MaxRequests,     \* requests all clients send after their logins
  Relogin,         \* a client that is logged in may log in again
  Moderation       \* clients send /kick and /room remove

AllRooms == Rooms \union {Lobby}

ASSUME RoomsAssumption ==
  None \notin Sessions \union AllRooms \union Names /\ Lobby \notin Rooms /\ MaxLogins \in Nat

VARIABLES
  link,            \* the connection: new, up, closing (close queued), gone
  status,          \* sessions whose session_status is kAuthenticated
  logins, requests,
  authed, user, curRoom, rooms, owners, passwords, invites,  \* state_
  roomIds,         \* state_.room_ids, 0 for no entry
  rUsers, rActive, rPassword,   \* room:users:*, rooms:active, room:password:*
  dbRoom, dbLast,  \* the active row of a room (0: none), its newest row
  job

stateVars == <<authed, user, curRoom, rooms, owners, passwords, invites>>
redisVars == <<rUsers, rActive, rPassword>>
dbVars == <<dbRoom, dbLast>>
clientVars == <<link, status, logins, requests>>
vars == <<clientVars, stateVars, roomIds, redisVars, dbVars, job>>

Idle == [op |-> "idle", pc |-> "", s |-> None, name |-> None, room |-> None,
         prev |-> None, pass |-> None, read |-> None, id |-> 0]

Init ==
  /\ link = [s \in Sessions |-> "new"]
  /\ status = {} /\ authed = {}
  /\ logins = [s \in Sessions |-> 0] /\ requests = 0
  /\ user = [s \in Sessions |-> None] /\ curRoom = [s \in Sessions |-> None]
  /\ rooms = [r \in AllRooms |-> {}]
  /\ owners = [r \in Rooms |-> None] /\ passwords = [r \in Rooms |-> None]
  /\ invites = [r \in Rooms |-> {}] /\ roomIds = [r \in Rooms |-> 0]
  /\ rUsers = [r \in AllRooms |-> {}] /\ rActive = {}
  /\ rPassword = [r \in Rooms |-> None]
  /\ dbRoom = [r \in Rooms |-> 0] /\ dbLast = [r \in Rooms |-> 0]
  /\ job = [w \in Workers |-> Idle]

-----------------------------------------------------------------------------
\* A weak pointer to s can be locked: the connection or a job holds s.
Alive(s) == link[s] \in {"up", "closing"} \/ \E w \in Workers : job[w].s = s
Live(set) == {s \in set : Alive(s)}

\* Sessions of state_.by_user[n] that are alive.
ByUser(n) == {s \in Sessions : user[s] = n /\ Alive(s)}

FreeWorker(w) == job[w].op = "idle"
Goto(w, pc) == job' = [job EXCEPT ![w].pc = pc]
Done(w) == job' = [job EXCEPT ![w] = Idle]
At(w, op, pc) == job[w].op = op /\ job[w].pc = pc

Begin(w, s, op, r, p, n) ==
  /\ FreeWorker(w)
  /\ job' = [job EXCEPT ![w] = [Idle EXCEPT !.op = op, !.pc = "start", !.s = s,
                                            !.room = r, !.pass = p, !.name = n]]

-----------------------------------------------------------------------------
\* The client.  A request is a job from the moment a worker pops it.

Connect(s) ==
  /\ link[s] = "new"
  /\ link' = [link EXCEPT ![s] = "up"]
  /\ UNCHANGED <<status, logins, requests, stateVars, roomIds, redisVars, dbVars, job>>

\* A client that is not logged in and waits for no answer to a login.
LoggedOut(s) ==
  s \notin authed \union status /\ \A v \in Workers : ~(job[v].op = "login" /\ job[v].s = s)

\* MSG_LOGIN_REQ is allowed in every session status; a client that was refused
\* may try again.
RequestLogin(w, s, n) ==
  /\ link[s] = "up" /\ logins[s] < MaxLogins
  /\ Relogin \/ LoggedOut(s)
  /\ logins' = [logins EXCEPT ![s] = @ + 1]
  /\ Begin(w, s, "login", Lobby, None, n)
  /\ UNCHANGED <<link, status, requests, stateVars, roomIds, redisVars, dbVars>>

\* The other requests need session status kAuthenticated.
Request(w, s, op, r, p, n) ==
  /\ link[s] = "up" /\ s \in status /\ requests < MaxRequests
  /\ requests' = requests + 1
  /\ Begin(w, s, op, r, p, n)
  /\ UNCHANGED <<link, status, logins, stateVars, roomIds, redisVars, dbVars>>

RequestJoin(w, s) ==
  \/ Request(w, s, "join", Lobby, None, None)
  \/ \E r \in Rooms, p \in Passwords \union {None} : Request(w, s, "join", r, p, None)
RequestLeave(w, s) ==
  \E r \in Rooms \union {None} : Request(w, s, "leave", r, None, None)
RequestInvite(w, s) ==
  \E r \in Rooms, n \in Names : Request(w, s, "invite", r, None, n)
RequestKick(w, s) ==
  Moderation /\ \E r \in Rooms, n \in Names : Request(w, s, "kick", r, None, n)
RequestRemove(w, s) ==
  Moderation /\ \E r \in Rooms : Request(w, s, "remove", r, None, None)
RequestRooms(w, s) == Request(w, s, "rooms", None, None, None)

\* The connection ends; on_session_close queues its job, which holds s.
Disconnect(s) ==
  /\ link[s] = "up"
  /\ link' = [link EXCEPT ![s] = "closing"]
  /\ UNCHANGED <<status, logins, requests, stateVars, roomIds, redisVars, dbVars, job>>

BeginClose(w, s) ==
  /\ link[s] = "closing"
  /\ link' = [link EXCEPT ![s] = "gone"]
  /\ Begin(w, s, "close", None, None, None)
  /\ UNCHANGED <<status, logins, requests, stateVars, roomIds, redisVars, dbVars>>

-----------------------------------------------------------------------------
\* on_login

\* ensure_unique_or_error: the name is free, or the job ends with NAME_TAKEN.
LoginName(w) ==
  /\ At(w, "login", "start")
  /\ IF ByUser(job[w].name) # {} THEN Done(w) ELSE Goto(w, "admit")
  /\ UNCHANGED <<clientVars, stateVars, roomIds, redisVars, dbVars>>

\* A hook or a ban refuses the login.
LoginDenied(w) ==
  /\ At(w, "login", "admit")
  /\ Done(w)
  /\ UNCHANGED <<clientVars, stateVars, roomIds, redisVars, dbVars>>

\* The name is not checked again.  The room of an earlier login is not left.
LoginCommit(w) ==
  LET s == job[w].s IN
  /\ At(w, "login", "admit")
  /\ user' = [user EXCEPT ![s] = job[w].name]
  /\ authed' = authed \union {s}
  /\ curRoom' = [curRoom EXCEPT ![s] = Lobby]
  /\ rooms' = [rooms EXCEPT ![Lobby] = @ \union {s}]
  /\ Goto(w, "reply")
  /\ UNCHANGED <<clientVars, owners, passwords, invites, roomIds, redisVars, dbVars>>

LoginReply(w) ==
  /\ At(w, "login", "reply")
  /\ status' = status \union {job[w].s}
  /\ Goto(w, "presence")
  /\ UNCHANGED <<link, logins, requests, stateVars, roomIds, redisVars, dbVars>>

LoginPresence(w) ==
  /\ At(w, "login", "presence")
  /\ rUsers' = [rUsers EXCEPT ![Lobby] = @ \union {job[w].name}]
  /\ Done(w)
  /\ UNCHANGED <<clientVars, stateVars, roomIds, rActive, rPassword, dbVars>>

-----------------------------------------------------------------------------
\* What the handlers that take a session out of a room have in common.

\* A mutant: the session is not erased from the room it leaves.
WithoutKeepsLeaver(r, s) == Live(rooms[r])

\* Room r without s; expired entries are dropped as well.
Without(r, s) == Live(rooms[r]) \ {s}

Candidates(members) == {user[m] : m \in {m \in members : Alive(m) /\ user[m] # None}}

\* A mutant: ownership is not passed on.
NextOwnersKept(r, members, leaver) ==
  IF members = {} THEN {None} ELSE {owners[r]}

\* The possible owners of r when leaver left it to members: any of them may
\* follow an owner, since the order of a room's set is that of its pointers.
NextOwners(r, members, leaver) ==
  IF members = {} THEN {None}
  ELSE IF owners[r] = leaver /\ Candidates(members) # {} THEN Candidates(members)
  ELSE {owners[r]}

\* m, a map over rooms, without the entry of r when nobody is left in r.
Forget(m, r, members, empty) ==
  IF r # Lobby /\ members = {} THEN [m EXCEPT ![r] = empty] ELSE m

\* owners, passwords and invites when only `members` stay in r.
LeftTo(r, members, leaver) ==
  /\ IF r = Lobby THEN owners' = owners
     ELSE \E o \in NextOwners(r, members, leaver) : owners' = [owners EXCEPT ![r] = o]
  /\ passwords' = Forget(passwords, r, members, None)
  /\ invites' = Forget(invites, r, members, {})

-----------------------------------------------------------------------------
\* on_join

\* The password is read from Redis before the lock is taken.
JoinReadPassword(w) ==
  /\ At(w, "join", "start")
  /\ job' = [job EXCEPT ![w].pc = "enter",
                        ![w].read = IF job[w].room = Lobby THEN None
                                    ELSE rPassword[job[w].room]]
  /\ UNCHANGED <<clientVars, stateVars, roomIds, redisVars, dbVars>>

\* The local password after the one read from Redis is copied over it.
Refreshed(w) ==
  IF job[w].read = None THEN passwords
  ELSE [passwords EXCEPT ![job[w].room] = job[w].read]

Refused(w) ==
  LET r == job[w].room  n == user[job[w].s] IN
  /\ r # Lobby
  /\ rooms[r] # {} \/ owners[r] # None \/ Refreshed(w)[r] # None
  /\ n \notin Admins /\ owners[r] # n /\ n \notin invites[r]
  /\ job[w].pass = None \/ job[w].pass # Refreshed(w)[r]

\* Not authenticated, a hook that refuses, or FORBIDDEN.
JoinDenied(w) ==
  /\ At(w, "join", "enter")
  /\ Done(w)
  /\ \/ UNCHANGED passwords
     \/ job[w].s \in authed /\ Refused(w) /\ passwords' = Refreshed(w)
  /\ UNCHANGED <<clientVars, authed, user, curRoom, rooms, owners, invites, roomIds,
                 redisVars, dbVars>>

\* The session leaves its room and enters the other one under the same lock.  A
\* password is hashed the modern way by all that write one, so that none is
\* hashed again here.
JoinEnter(w) ==
  LET s == job[w].s  r == job[w].room  n == user[s]  old == curRoom[s]
      moves == old # None /\ old # r /\ rooms[old] # {}
      members == Without(old, s)
      locks == r # Lobby /\ job[w].pass # None /\ Refreshed(w)[r] = None
      given == IF locks THEN [passwords EXCEPT ![r] = job[w].pass] ELSE Refreshed(w)
  IN
  /\ At(w, "join", "enter")
  /\ s \in authed /\ ~Refused(w)
  /\ curRoom' = [curRoom EXCEPT ![s] = r]
  /\ LET left == IF moves THEN [rooms EXCEPT ![old] = members] ELSE rooms
     IN  rooms' = [left EXCEPT ![r] = @ \union {s}]
  /\ passwords' = IF moves THEN Forget(given, old, members, None) ELSE given
  /\ \E o \in IF moves /\ old # Lobby THEN NextOwners(old, members, n) ELSE {None} :
       owners' = [q \in Rooms |-> IF q = r /\ owners[q] = None THEN n
                                  ELSE IF moves /\ q = old THEN o ELSE owners[q]]
  /\ LET left == IF moves THEN Forget(invites, old, members, {}) ELSE invites
     IN  invites' = IF r = Lobby THEN left ELSE [left EXCEPT ![r] = @ \ {n}]
  /\ job' = [job EXCEPT ![w].pc = IF locks THEN "lock" ELSE "ensure",
                        ![w].name = n, ![w].prev = old]
  /\ UNCHANGED <<clientVars, authed, user, roomIds, redisVars, dbVars>>

\* SETEX room:password.
JoinSetPassword(w) ==
  /\ At(w, "join", "lock")
  /\ rPassword' = [rPassword EXCEPT ![job[w].room] = job[w].pass]
  /\ Goto(w, "ensure")
  /\ UNCHANGED <<clientVars, stateVars, roomIds, rUsers, rActive, dbVars>>

\* SADD room:users and rooms:active for the room that was entered.
JoinList(w) ==
  LET r == job[w].room IN
  /\ At(w, "join", "list")
  /\ rUsers' = [rUsers EXCEPT ![r] = @ \union {job[w].name}]
  /\ rActive' = rActive \union ({r} \ {Lobby})
  /\ Done(w)
  /\ UNCHANGED <<clientVars, stateVars, roomIds, rPassword, dbVars>>

-----------------------------------------------------------------------------
\* on_leave

\* Not authenticated, in no room, in another room, or a hook that refuses.
LeaveDenied(w) ==
  /\ At(w, "leave", "start")
  /\ Done(w)
  /\ UNCHANGED <<clientVars, stateVars, roomIds, redisVars, dbVars>>

\* The session goes to the lobby, also when the lobby is what it leaves.
LeaveRoom(w) ==
  LET s == job[w].s  r == curRoom[s]  members == Without(r, s) IN
  /\ At(w, "leave", "start")
  /\ s \in authed /\ r # None
  /\ job[w].room \in {None, r}
  /\ LET left == [rooms EXCEPT ![r] = members]
     IN  rooms' = [left EXCEPT ![Lobby] = @ \union {s}]
  /\ curRoom' = [curRoom EXCEPT ![s] = Lobby]
  /\ LeftTo(r, members, user[s])
  /\ job' = [job EXCEPT ![w].pc = "ensure", ![w].room = r, ![w].name = user[s]]
  /\ UNCHANGED <<clientVars, authed, user, roomIds, redisVars, dbVars>>

\* SADD room:users:lobby.
LeaveList(w) ==
  /\ At(w, "leave", "list")
  /\ rUsers' = [rUsers EXCEPT ![Lobby] = @ \union {job[w].name}]
  /\ Done(w)
  /\ UNCHANGED <<clientVars, stateVars, roomIds, rActive, rPassword, dbVars>>

-----------------------------------------------------------------------------
\* on_session_close

CloseSession(w) ==
  LET s == job[w].s  r == curRoom[s]  members == Without(r, s) IN
  /\ At(w, "close", "start")
  /\ authed' = authed \ {s}
  /\ user' = [user EXCEPT ![s] = None]
  /\ curRoom' = [curRoom EXCEPT ![s] = None]
  /\ IF r = None
       THEN Done(w) /\ UNCHANGED <<rooms, owners, passwords, invites>>
       ELSE /\ rooms' = [rooms EXCEPT ![r] = members]
            /\ LeftTo(r, members, user[s])
            /\ job' = [job EXCEPT ![w].pc = "ensure", ![w].room = r, ![w].name = user[s]]
  /\ UNCHANGED <<clientVars, roomIds, redisVars, dbVars>>

\* The user is added to the lobby's list although its session is gone.
CloseToLobby(w) ==
  /\ At(w, "close", "tolobby")
  /\ rUsers' = [rUsers EXCEPT ![Lobby] = @ \union {job[w].name}]
  /\ Goto(w, "count")
  /\ UNCHANGED <<clientVars, stateVars, roomIds, rActive, rPassword, dbVars>>

-----------------------------------------------------------------------------
\* Steps that join, leave and close share.

\* ensure_room_id_ci: the cached id, else the active row, else a new row.
EnsureRoomId(w) ==
  LET r == job[w].room IN
  /\ job[w].pc = "ensure"
  /\ IF r = Lobby \/ roomIds[r] # 0
       THEN /\ job' = [job EXCEPT ![w].pc = "srem",
                                  ![w].id = IF r = Lobby THEN 0 ELSE roomIds[r]]
            /\ UNCHANGED dbVars
       ELSE LET id == IF dbRoom[r] # 0 THEN dbRoom[r] ELSE dbLast[r] + 1 IN
            /\ dbRoom' = [dbRoom EXCEPT ![r] = id]
            /\ dbLast' = [dbLast EXCEPT ![r] = IF id > @ THEN id ELSE @]
            /\ job' = [job EXCEPT ![w].pc = "cache", ![w].id = id]
  /\ UNCHANGED <<clientVars, stateVars, roomIds, redisVars>>

\* emplace does not replace an id another job cached in the meantime.
CacheRoomId(w) ==
  LET r == job[w].room IN
  /\ job[w].pc = "cache"
  /\ roomIds' = [roomIds EXCEPT ![r] = IF @ = 0 THEN job[w].id ELSE @]
  /\ Goto(w, "srem")
  /\ UNCHANGED <<clientVars, stateVars, redisVars, dbVars>>

\* The room the job's session came from.
RoomLeft(w) == IF job[w].op = "join" THEN job[w].prev ELSE job[w].room

\* SREM room:users for the room that was left, if one was.
Unlist(w) ==
  LET r == RoomLeft(w)
      left == r # None /\ (job[w].op = "join" => r # job[w].room)
  IN
  /\ job[w].pc = "srem"
  /\ rUsers' = IF left THEN [rUsers EXCEPT ![r] = @ \ {job[w].name}] ELSE rUsers
  /\ IF job[w].op = "close"
       THEN IF r = Lobby THEN Done(w) ELSE Goto(w, "tolobby")
       ELSE Goto(w, IF left /\ r # Lobby THEN "count" ELSE "list")
  /\ UNCHANGED <<clientVars, stateVars, roomIds, rActive, rPassword, dbVars>>

\* SCARD decides whether the room is closed; on_session_close only takes it
\* off rooms:active.
CountUsers(w) ==
  LET empty == rUsers[RoomLeft(w)] = {} IN
  /\ job[w].pc = "count"
  /\ IF job[w].op = "close" /\ ~empty THEN Done(w)
     ELSE Goto(w, IF empty THEN "unlist" ELSE "list")
  /\ UNCHANGED <<clientVars, stateVars, roomIds, redisVars, dbVars>>

\* SREM rooms:active, DEL room:password.
RetireRoom(w) ==
  LET r == RoomLeft(w) IN
  /\ job[w].pc = "unlist"
  /\ rActive' = rActive \ {r}
  /\ IF job[w].op = "close"
       THEN Done(w) /\ UNCHANGED rPassword
       ELSE Goto(w, "dbclose") /\ rPassword' = [rPassword EXCEPT ![r] = None]
  /\ UNCHANGED <<clientVars, stateVars, roomIds, rUsers, dbVars>>

\* rooms().close: on_leave closes the id it holds, on_join the active row.
CloseDbRoom(w) ==
  LET r == RoomLeft(w) IN
  /\ job[w].pc = "dbclose"
  /\ dbRoom' = [dbRoom EXCEPT ![r] =
                  IF job[w].op = "join" \/ @ = job[w].id THEN 0 ELSE @]
  /\ Goto(w, "erase")
  /\ UNCHANGED <<clientVars, stateVars, roomIds, redisVars, dbLast>>

\* The maps lose the room's entries, whoever entered it in the meantime.
EraseRoom(w) ==
  LET r == RoomLeft(w) IN
  /\ job[w].pc = "erase"
  /\ roomIds' = [roomIds EXCEPT ![r] = 0]
  /\ owners' = [owners EXCEPT ![r] = None]
  /\ invites' = [invites EXCEPT ![r] = {}]
  /\ Goto(w, "list")
  /\ UNCHANGED <<clientVars, authed, user, curRoom, rooms, passwords, redisVars, dbVars>>

-----------------------------------------------------------------------------
\* Slash commands of on_chat_send

Commands == {"invite", "kick", "remove", "rooms"}

\* The sender is authenticated, in a room, and names no other room as its own,
\* or the command ends.
CommandAdmit(w) ==
  LET s == job[w].s IN
  /\ job[w].op \in Commands /\ job[w].pc = "start"
  /\ (s \in authed /\ curRoom[s] # None /\ Goto(w, "apply")) \/ Done(w)
  /\ UNCHANGED <<clientVars, stateVars, roomIds, redisVars, dbVars>>

\* Only the owner of the room and an administrator may; user[s] is read anew.
Allowed(w) ==
  LET n == user[job[w].s] IN n # None /\ (n \in Admins \/ owners[job[w].room] = n)

CommandDenied(w) ==
  /\ job[w].op \in {"invite", "kick", "remove"} /\ job[w].pc = "apply"
  /\ ~Allowed(w)
  /\ Done(w)
  /\ UNCHANGED <<clientVars, stateVars, roomIds, redisVars, dbVars>>

Invite(w) ==
  /\ At(w, "invite", "apply") /\ Allowed(w)
  /\ invites' = [invites EXCEPT ![job[w].room] = @ \union {job[w].name}]
  /\ Done(w)
  /\ UNCHANGED <<clientVars, authed, user, curRoom, rooms, owners, passwords, roomIds,
                 redisVars, dbVars>>

\* Every session of the name that is in the room goes to the lobby; Redis is
\* not told.
Kick(w) ==
  LET r == job[w].room
      kicked == {s \in ByUser(job[w].name) : curRoom[s] = r}
      members == rooms[r] \ kicked
  IN
  /\ At(w, "kick", "apply") /\ Allowed(w)
  /\ rooms' = [rooms EXCEPT ![r] = members, ![Lobby] = @ \union kicked]
  /\ curRoom' = [s \in Sessions |-> IF s \in kicked THEN Lobby ELSE curRoom[s]]
  /\ IF rooms[r] # {} THEN LeftTo(r, members, job[w].name)
     ELSE UNCHANGED <<owners, passwords, invites>>
  /\ Done(w)
  /\ UNCHANGED <<clientVars, authed, user, roomIds, redisVars, dbVars>>

RemoveRoom(w) ==
  LET r == job[w].room  moved == Live(rooms[r]) IN
  /\ At(w, "remove", "apply") /\ Allowed(w)
  /\ rooms' = [rooms EXCEPT ![r] = {}, ![Lobby] = @ \union moved]
  /\ curRoom' = [s \in Sessions |-> IF s \in moved THEN Lobby ELSE curRoom[s]]
  /\ owners' = [owners EXCEPT ![r] = None]
  /\ passwords' = [passwords EXCEPT ![r] = None]
  /\ invites' = [invites EXCEPT ![r] = {}]
  /\ Goto(w, "redis")
  /\ UNCHANGED <<clientVars, authed, user, roomIds, redisVars, dbVars>>

\* The room's keys are deleted; its users are not added to the lobby's list.
RemoveKeys(w) ==
  LET r == job[w].room IN
  /\ At(w, "remove", "redis")
  /\ rActive' = rActive \ {r}
  /\ rPassword' = [rPassword EXCEPT ![r] = None]
  /\ rUsers' = [rUsers EXCEPT ![r] = {}]
  /\ Done(w)
  /\ UNCHANGED <<clientVars, stateVars, roomIds, dbVars>>

\* send_rooms_list and send_snapshot drop rooms without a live session, with
\* their passwords; owners and invites stay.
PruneRooms(w) ==
  /\ At(w, "rooms", "apply")
  /\ rooms' = [r \in AllRooms |-> Live(rooms[r])]
  /\ passwords' = [r \in Rooms |-> IF rooms[r] # {} /\ Live(rooms[r]) = {} THEN None
                                   ELSE passwords[r]]
  /\ Done(w)
  /\ UNCHANGED <<clientVars, authed, user, curRoom, owners, invites, roomIds, redisVars,
                 dbVars>>

-----------------------------------------------------------------------------
LoginStep(w) ==
  LoginName(w) \/ LoginDenied(w) \/ LoginCommit(w) \/ LoginReply(w) \/ LoginPresence(w)
JoinStep(w) ==
  JoinReadPassword(w) \/ JoinDenied(w) \/ JoinEnter(w) \/ JoinSetPassword(w) \/ JoinList(w)
LeaveStep(w) == LeaveDenied(w) \/ LeaveRoom(w) \/ LeaveList(w)
CloseStep(w) == CloseSession(w) \/ CloseToLobby(w)
SharedStep(w) ==
  \/ EnsureRoomId(w) \/ CacheRoomId(w) \/ Unlist(w) \/ CountUsers(w)
  \/ RetireRoom(w) \/ CloseDbRoom(w) \/ EraseRoom(w)
CommandStep(w) ==
  \/ CommandAdmit(w) \/ CommandDenied(w) \/ Invite(w) \/ Kick(w)
  \/ RemoveRoom(w) \/ RemoveKeys(w) \/ PruneRooms(w)
WorkerStep(w) ==
  LoginStep(w) \/ JoinStep(w) \/ LeaveStep(w) \/ CloseStep(w) \/ SharedStep(w)
  \/ CommandStep(w)

Client(s) ==
  \/ Connect(s) \/ Disconnect(s)
  \/ \E w \in Workers :
       \/ \E n \in Names : RequestLogin(w, s, n)
       \/ RequestJoin(w, s) \/ RequestLeave(w, s) \/ RequestInvite(w, s)
       \/ RequestKick(w, s) \/ RequestRemove(w, s) \/ RequestRooms(w, s)
       \/ BeginClose(w, s)

Next == (\E s \in Sessions : Client(s)) \/ (\E w \in Workers : WorkerStep(w))
Spec == Init /\ [][Next]_vars

-----------------------------------------------------------------------------
TypeOK ==
  /\ link \in [Sessions -> {"new", "up", "closing", "gone"}]
  /\ status \subseteq Sessions /\ authed \subseteq Sessions
  /\ user \in [Sessions -> Names \union {None}]
  /\ curRoom \in [Sessions -> AllRooms \union {None}]
  /\ rooms \in [AllRooms -> SUBSET Sessions]
  /\ owners \in [Rooms -> Names \union {None}]
  /\ passwords \in [Rooms -> Passwords \union {None}]
  /\ invites \in [Rooms -> SUBSET Names]
  /\ rUsers \in [AllRooms -> SUBSET Names] /\ rActive \subseteq Rooms
  /\ rPassword \in [Rooms -> Passwords \union {None}]
  /\ \A r \in Rooms : dbRoom[r] \in {0, dbLast[r]} /\ roomIds[r] \in 0 .. dbLast[r]

\* However joins, leaves, kicks, room removals and closes of several sessions
\* interleave, an authenticated session is in the room that cur_room names and
\* in no other.  This is so as long as nobody who is logged in logs in again:
\* with Relogin the session stays in the room it was in.
Placed ==
  \A s \in authed : Alive(s) =>
    curRoom[s] # None /\ \A r \in AllRooms : s \in rooms[r] <=> r = curRoom[s]

\* The owner of a room is the name of a live session in the room, so that
\* somebody inside can always invite, kick and remove: ownership passes on when
\* the owner leaves, is kicked or is disconnected, whatever else runs.  With
\* Relogin the owner may change name and leave the old one to the room.  A room
\* may have members and no owner: EraseRoom forgets the owner of whoever came in.
OwnerIsMember ==
  \A r \in Rooms : owners[r] # None =>
    \E s \in rooms[r] : Alive(s) /\ user[s] = owners[r]

\* No job runs and none is queued.
Quiet ==
  /\ \A w \in Workers : job[w].op = "idle"
  /\ \A s \in Sessions : link[s] # "closing"

\* When nobody is in a room and nothing is left to do, the room is gone: no
\* password, not listed, and its row closed so that the next room of the name
\* gets an id of its own.
EmptyRoomForgotten ==
  Quiet => \A r \in Rooms : Live(rooms[r]) = {} =>
             rPassword[r] = None /\ r \notin rActive /\ dbRoom[r] = 0

\* When nothing is left to do, the users Redis lists for a room are the users
\* in it.
RosterMatches ==
  Quiet => \A r \in AllRooms : rUsers[r] = {user[s] : s \in Live(rooms[r])}
=============================================================================
