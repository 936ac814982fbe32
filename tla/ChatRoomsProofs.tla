--------------------------- MODULE ChatRoomsProofs ---------------------------
(***************************************************************************)
(* Proofs about ChatRooms for any number of sessions, names, rooms and     *)
(* worker threads, any number of requests and any interleaving of the      *)
(* lock blocks of their jobs, as long as no client that is logged in sends *)
(* another LOGIN_REQ.                                                      *)
(*                                                                         *)
(* Placed and OwnerIsMember are not inductive.  They rest on what the jobs *)
(* in flight may still do: a close job that has not run holds its session, *)
(* a login that has not committed belongs to a session that is nowhere yet,*)
(* and a session that logged in after its close has no request left that   *)
(* could take it into a room.                                              *)
(***************************************************************************)
EXTENDS ChatRooms, TLAPS

\* Nobody who is logged in logs in again; who was refused may try as often as
\* they like.  A second login does not leave the room of the first one: the
\* session would be in two rooms.
NoRelogin == ~Relogin

\* A login that has not committed, a close that has not run.
Pending(j) == j.op = "login" /\ j.pc \in {"start", "admit"}
Closing(j) == j.op = "close" /\ j.pc = "start"

\* The session has not been closed: its connection is there, or its close job
\* has yet to run.
HoldsIn(l, jobs, s) ==
  l[s] \in {"up", "closing"} \/ \E w \in Workers : Closing(jobs[w]) /\ jobs[w].s = s
Holds(s) == HoldsIn(link, job, s)

JobShape(j) ==
  /\ DOMAIN j = DOMAIN Idle
  /\ j.op = "idle" => j.s = None /\ j.pc = ""
  /\ j.op # "idle" => j.s \in Sessions
  /\ j.op = "login" => j.name \in Names
  /\ j.op = "join" => j.room \in AllRooms
  /\ j.op \in {"kick", "remove"} => j.room \in Rooms

\* What a job in flight tells of its session.
JobOK(j) ==
  /\ j.op = "login" => logins[j.s] # 0
  /\ Pending(j) => j.s \notin authed /\ j.s \notin status
  /\ j.op \notin {"idle", "login", "close"} =>
       j.s \in status /\ (j.s \in authed => Holds(j.s))

Types ==
  /\ link \in [Sessions -> {"new", "up", "closing", "gone"}]
  /\ logins \in [Sessions -> Nat]
  /\ status \subseteq Sessions /\ authed \subseteq Sessions
  /\ DOMAIN job = Workers
JobsOK == \A w \in Workers : JobShape(job[w]) /\ JobOK(job[w])
LoginsOK ==
  \A w, v \in Workers :
    job[w].op = "login" /\ job[v].op = "login" /\ job[w].s = job[v].s => w = v
SessionsOK ==
  \A s \in Sessions :
    /\ s \in authed \/ s \in status => logins[s] # 0
    /\ link[s] = "new" => logins[s] = 0
JInv == Types /\ JobsOK /\ LoginsOK /\ SessionsOK

RoomTypes ==
  /\ user \in [Sessions -> Names \union {None}]
  /\ curRoom \in [Sessions -> AllRooms \union {None}]
  /\ rooms \in [AllRooms -> SUBSET Sessions]
  /\ owners \in [Rooms -> Names \union {None}]

\* An authenticated session has a name and a room, and is in it while a weak
\* pointer to it can be locked; the others have neither.
InPlace(s) ==
  /\ s \in authed => /\ user[s] \in Names /\ curRoom[s] \in AllRooms
                     /\ Alive(s) => s \in rooms[curRoom[s]]
  /\ s \notin authed => user[s] = None /\ curRoom[s] = None
Placing == \A s \in Sessions : InPlace(s)
Within == \A r \in AllRooms : \A s \in rooms[r] : s \in authed /\ curRoom[s] = r
Held == \A r \in Rooms : \A s \in rooms[r] : Holds(s)
Owned == \A r \in Rooms : owners[r] # None => \E s \in rooms[r] : user[s] = owners[r]
RInv == RoomTypes /\ Placing /\ Within /\ Held /\ Owned

IInv == JInv /\ RInv

-----------------------------------------------------------------------------
(* Jobs. *)

\* The job of w goes on or ends; it does not begin, and it is not a close job
\* that has yet to run.
Moves(w) ==
  /\ DOMAIN job' = Workers /\ \A v \in Workers \ {w} : job'[v] = job[v]
  /\ job[w].op # "idle" /\ ~Closing(job[w])
  /\ JobShape(job'[w]) /\ ~Closing(job'[w])
  /\ job'[w].op = "idle" \/ (job'[w].op = job[w].op /\ job'[w].s = job[w].s)
  /\ Pending(job'[w]) => Pending(job[w])

\* The leaves are Zenon's, but for those that name another prover.
USE Zenon

\* A session that is not closed is alive.
LEMMA HoldsAlive ==
  ASSUME NEW s, Holds(s)
  PROVE  Alive(s)
BY DEF Holds, HoldsIn, Alive, Closing

\* A job that goes on holds what it held.
LEMMA MoveHolds ==
  ASSUME JInv, NEW w \in Workers, Moves(w), UNCHANGED link, NEW s \in Sessions
  PROVE  (Holds(s) <=> Holds(s)') /\ (Alive(s)' => Alive(s))
<1>1. Holds(s) <=> Holds(s)'
  BY DEF Moves, Holds, HoldsIn
<1>2. ASSUME NEW v \in Workers, job'[v].s = s
      PROVE  \E u \in Workers : job[u].s = s
  <2>1. CASE v # w
    BY <1>2, <2>1 DEF Moves
  <2>2. CASE v = w
    <3>1. job'[w].op # "idle"
      BY <1>2, <2>2, RoomsAssumption DEF Moves, JobShape
    <3> QED
      BY <1>2, <2>2, <3>1 DEF Moves
  <2> QED
    BY <2>1, <2>2
<1>3. Alive(s)' => Alive(s)
  BY <1>2 DEF Alive
<1> QED
  BY <1>1, <1>3

\* A job that goes on keeps the invariant of the jobs.
LEMMA MoveJobs ==
  ASSUME JInv, NEW w \in Workers, Moves(w), UNCHANGED <<link, logins, status, authed>>
  PROVE  JInv'
<1>h. \A s \in Sessions : HoldsIn(link', job', s) <=> HoldsIn(link, job, s)
  BY MoveHolds DEF Holds
<1>1. Types' /\ SessionsOK'
  BY DEF JInv, Types, SessionsOK, Moves
<1>2. ASSUME NEW v \in Workers
      PROVE  JobShape(job'[v]) /\ JobOK(job[v])'
  <2>1. JobShape(job[v]) /\ JobOK(job[v]) /\ JobOK(job[w])
    BY DEF JInv, JobsOK
  <2>2. CASE v # w
    <3>1. job'[v] = job[v]
      BY <2>2 DEF Moves
    <3>2. job[v].op # "idle" => job[v].s \in Sessions
      BY <2>1 DEF JobShape
    <3> QED
      BY <1>h, <2>1, <3>1, <3>2 DEF JobOK, Holds
  <2>3. CASE v = w
    <3>1. CASE job'[w].op = "idle"
      BY <2>3, <3>1 DEF Moves, JobOK, Pending
    <3>2. CASE job'[w].op = job[w].op /\ job'[w].s = job[w].s
      <4>1. job[w].s \in Sessions
        BY <2>1, <2>3 DEF JobShape, Moves
      <4>3. JobShape(job'[w]) /\ (Pending(job'[w]) => Pending(job[w]))
        BY DEF Moves
      <4> QED
        BY <1>h, <2>1, <2>3, <3>2, <4>1, <4>3 DEF JobOK, Holds
    <3> QED
      BY <3>1, <3>2, <2>3 DEF Moves
  <2> QED
    BY <2>2, <2>3
<1>3. LoginsOK'
  BY SMT DEF JInv, LoginsOK, Moves
<1> QED
  BY <1>1, <1>2, <1>3 DEF JInv, JobsOK

\* The end of a job.
LEMMA DoneMoves ==
  ASSUME JInv, NEW w \in Workers, Done(w), job[w].op # "idle", ~Closing(job[w])
  PROVE  Moves(w)
<1>1. /\ DOMAIN job' = Workers /\ job'[w] = Idle
      /\ \A v \in Workers \ {w} : job'[v] = job[v]
  BY DEF Done, JInv, Types
<1>2. Idle.op = "idle" /\ Idle.s = None /\ Idle.pc = ""
  BY DEF Idle
<1>3. JobShape(Idle) /\ ~Closing(Idle) /\ ~Pending(Idle)
  BY ONLY <1>2 DEF JobShape, Closing, Pending
<1> QED
  BY <1>1, <1>2, <1>3 DEF Moves

\* A job whose program counter moves on.
LEMMA GotoMoves ==
  ASSUME JInv, NEW w \in Workers, NEW pc, Goto(w, pc), job[w].op # "idle", ~Closing(job[w]),
         pc # "start", pc = "admit" => Pending(job[w])
  PROVE  Moves(w)
<1>1. DOMAIN job = Workers /\ JobShape(job[w])
  BY DEF JInv, Types, JobsOK
<1>2. DOMAIN job' = Workers /\ \A v \in Workers \ {w} : job'[v] = job[v]
  BY <1>1 DEF Goto
<1>3. job'[w] = [job[w] EXCEPT !.pc = pc]
  BY <1>1 DEF Goto
<1>4. /\ DOMAIN job'[w] = DOMAIN Idle /\ job'[w].op = job[w].op /\ job'[w].s = job[w].s
      /\ job'[w].name = job[w].name /\ job'[w].room = job[w].room /\ job'[w].pc = pc
  BY <1>1, <1>3 DEF JobShape, Idle
<1>5. JobShape(job'[w])
  BY ONLY <1>1, <1>4, job[w].op # "idle" DEF JobShape
<1> QED
  BY <1>2, <1>4, <1>5 DEF Moves, Closing, Pending

-----------------------------------------------------------------------------
(* Rooms. *)

\* Rooms and sessions stay as they are; an owner may be forgotten.
RoomsStay ==
  /\ UNCHANGED <<authed, user, curRoom, rooms>>
  /\ owners' \in [Rooms -> Names \union {None}]
  /\ \A r \in Rooms : owners'[r] \in {owners[r], None}

\* A step that leaves the rooms alone keeps their invariant, unless it lets go
\* of a session or brings one back.
LEMMA StayRooms ==
  ASSUME RInv, RoomsStay, \A s \in Sessions : Holds(s) => Holds(s)',
         \A s \in authed : Alive(s)' => Alive(s)
  PROVE  RInv'
<1>1. RoomTypes' /\ Within'
  BY DEF RInv, RoomTypes, RoomsStay, Within
<1>2. Placing'
  BY DEF RInv, RoomsStay, Placing, InPlace
<1>3. Held'
  BY DEF RInv, RoomsStay, RoomTypes, Held, AllRooms
<1>4. Owned'
  BY DEF RInv, RoomsStay, Owned
<1> QED
  BY <1>1, <1>2, <1>3, <1>4 DEF RInv

\* A job goes on and leaves sessions and rooms alone.
LEMMA QuietStep ==
  ASSUME IInv, NEW w \in Workers, Moves(w), UNCHANGED <<link, logins, status>>, RoomsStay
  PROVE  IInv'
<1>1. UNCHANGED <<link, logins, status, authed>> /\ JInv /\ RInv
  BY DEF RoomsStay, IInv
<1>2. JInv'
  BY <1>1, MoveJobs
<1>3. \A s \in Sessions : (Holds(s) => Holds(s)') /\ (Alive(s)' => Alive(s))
  BY <1>1, MoveHolds
<1>4. RInv'
  BY <1>1, <1>3, StayRooms DEF JInv, Types
<1> QED
  BY <1>2, <1>4 DEF IInv

\* Every session of a room other than the lobby is alive.
LEMMA RoomAlive ==
  ASSUME RInv, NEW r \in Rooms
  PROVE  Live(rooms[r]) = rooms[r] /\ rooms[r] \subseteq Sessions
BY HoldsAlive DEF RInv, RoomTypes, Held, Live, AllRooms

\* Ownership passes on: when those who leave r to members bear the name n, the
\* next owner is one of members.
LEMMA OwnerPasses ==
  ASSUME RInv, NEW r \in Rooms, NEW members, members \subseteq rooms[r], NEW n,
         \A t \in rooms[r] \ members : user[t] = n, NEW o \in NextOwners(r, members, n)
  PROVE  o \in Names \union {None} /\ (o # None => \E m \in members : user[m] = o)
<1>1. \A m \in members : m \in Sessions /\ m \in authed /\ Alive(m) /\ user[m] \in Names /\ user[m] # None
  <2>1. ASSUME NEW m \in members
        PROVE  m \in Sessions /\ m \in authed /\ Alive(m)
    BY RoomAlive DEF RInv, Within, Live, AllRooms
  <2> QED
    BY <2>1, RoomsAssumption DEF RInv, Placing, InPlace
<1>2. CASE members = {}
  BY <1>2 DEF NextOwners
<1>3. CASE members # {} /\ owners[r] = n
  <2>1. Candidates(members) # {}
    BY <1>1, <1>3 DEF Candidates
  <2>2. o \in Candidates(members)
    BY <1>3, <2>1 DEF NextOwners
  <2> QED
    BY <1>1, <2>2 DEF Candidates
<1>4. CASE members # {} /\ owners[r] # n
  <2>1. o = owners[r]
    BY <1>4 DEF NextOwners
  <2>2. o # None => \E t \in rooms[r] : user[t] = o
    BY <2>1 DEF RInv, Owned
  <2> QED
    BY <1>4, <2>1, <2>2 DEF RInv, RoomTypes
<1> QED
  BY <1>2, <1>3, <1>4
-----------------------------------------------------------------------------
(* The steps that leave sessions and rooms alone. *)

\* A step of worker w that only Redis, the database or the job itself notice.
Aside(w) == Moves(w) /\ UNCHANGED <<link, logins, status>> /\ RoomsStay

\* What a job that is not at its start or end allows.
LEMMA Midway ==
  ASSUME JInv, NEW w \in Workers, job[w].pc \notin {"", "start"}
  PROVE  job[w].op # "idle" /\ ~Closing(job[w])
BY DEF JInv, JobsOK, JobShape, Closing

\* Nothing but the job changes in memory.
LEMMA StateStays ==
  ASSUME RInv, UNCHANGED <<authed, user, curRoom, rooms, owners>>
  PROVE  RoomsStay
BY DEF RInv, RoomTypes, RoomsStay

\* Logins that are refused or have committed.
LEMMA LoginAside ==
  ASSUME IInv, NEW w \in Workers, LoginName(w) \/ LoginDenied(w) \/ LoginPresence(w)
  PROVE  Aside(w)
<1>1. UNCHANGED <<link, logins, status>> /\ UNCHANGED <<authed, user, curRoom, rooms, owners>>
  BY DEF LoginName, LoginDenied, LoginPresence, clientVars, stateVars
<1>2. job[w].op = "login" /\ ~Closing(job[w]) /\ job[w].op # "idle"
  BY DEF LoginName, LoginDenied, LoginPresence, At, Closing
<1>3. Done(w) \/ (Goto(w, "admit") /\ Pending(job[w]))
  BY DEF LoginName, LoginDenied, LoginPresence, At, Pending
<1>4. Moves(w)
  BY <1>2, <1>3, DoneMoves, GotoMoves DEF IInv
<1> QED
  BY <1>1, <1>4, StateStays DEF Aside, IInv

\* A join before it enters and after it has entered; a leave that is refused
\* or has left; a close that has run.
LEMMA RequestAside ==
  ASSUME IInv, NEW w \in Workers,
         \/ JoinReadPassword(w) \/ JoinDenied(w) \/ JoinSetPassword(w) \/ JoinList(w)
         \/ LeaveDenied(w) \/ LeaveList(w) \/ CloseToLobby(w)
  PROVE  Aside(w)
<1>1. UNCHANGED <<link, logins, status>> /\ UNCHANGED <<authed, user, curRoom, rooms, owners>>
  BY DEF JoinReadPassword, JoinDenied, JoinSetPassword, JoinList, LeaveDenied, LeaveList,
         CloseToLobby, clientVars, stateVars
<1>2. CASE JoinReadPassword(w)
  <2>1. DOMAIN job = Workers /\ JobShape(job[w])
    BY DEF IInv, JInv, Types, JobsOK
  <2>2. PICK x : job' = [job EXCEPT ![w].pc = "enter", ![w].read = x]
    BY <1>2 DEF JoinReadPassword
  <2>3. /\ DOMAIN job' = Workers /\ \A v \in Workers \ {w} : job'[v] = job[v]
        /\ job'[w] = [job[w] EXCEPT !.pc = "enter", !.read = x]
    BY <2>1, <2>2
  <2>4. /\ DOMAIN job'[w] = DOMAIN Idle /\ job'[w].op = job[w].op /\ job'[w].s = job[w].s
        /\ job'[w].room = job[w].room /\ job'[w].pc = "enter"
    BY <2>1, <2>3 DEF JobShape, Idle
  <2>5. job[w].op = "join"
    BY <1>2 DEF JoinReadPassword, At
  <2>6. JobShape(job'[w])
    BY ONLY <2>1, <2>4, <2>5 DEF JobShape
  <2>7. Moves(w)
    BY ONLY <2>3, <2>4, <2>5, <2>6 DEF Moves, Closing, Pending
  <2> QED
    BY <1>1, <2>7, StateStays DEF Aside, IInv
<1>3. CASE ~JoinReadPassword(w)
  <2>1. job[w].op # "idle" /\ ~Closing(job[w])
    BY <1>3 DEF JoinDenied, JoinSetPassword, JoinList, LeaveDenied, LeaveList, CloseToLobby, At,
                Closing
  <2>2. Done(w) \/ \E pc \in {"ensure", "count"} : Goto(w, pc)
    BY <1>3 DEF JoinDenied, JoinSetPassword, JoinList, LeaveDenied, LeaveList, CloseToLobby
  <2>3. Moves(w)
    BY <2>1, <2>2, DoneMoves, GotoMoves DEF IInv
  <2> QED
    BY <1>1, <2>3, StateStays DEF Aside, IInv
<1> QED
  BY <1>2, <1>3

\* The steps that join, leave and close share.
LEMMA SharedAside ==
  ASSUME IInv, NEW w \in Workers, SharedStep(w)
  PROVE  Aside(w)
<1>1. job[w].op # "idle" /\ ~Closing(job[w])
  BY Midway DEF IInv, SharedStep, EnsureRoomId, CacheRoomId, Unlist, CountUsers, RetireRoom,
                CloseDbRoom, EraseRoom
<1>2. CASE EnsureRoomId(w)
  <2>1. DOMAIN job = Workers /\ JobShape(job[w])
    BY DEF IInv, JInv, Types, JobsOK
  <2>2. PICK pc, x : /\ pc \in {"srem", "cache"}
                     /\ job' = [job EXCEPT ![w].pc = pc, ![w].id = x]
    BY SMT, <1>2 DEF EnsureRoomId
  <2>3. /\ DOMAIN job' = Workers /\ \A v \in Workers \ {w} : job'[v] = job[v]
        /\ job'[w] = [job[w] EXCEPT !.pc = pc, !.id = x]
    BY <2>1, <2>2
  <2>4. /\ DOMAIN job'[w] = DOMAIN Idle /\ job'[w].op = job[w].op /\ job'[w].s = job[w].s
        /\ job'[w].room = job[w].room /\ job'[w].name = job[w].name /\ job'[w].pc = pc
    BY <2>1, <2>3 DEF JobShape, Idle
  <2>5. JobShape(job'[w])
    BY ONLY <1>1, <2>1, <2>4 DEF JobShape
  <2>6. Moves(w)
    BY ONLY <1>1, <2>2, <2>3, <2>4, <2>5 DEF Moves, Closing, Pending
  <2>7. UNCHANGED <<link, logins, status>> /\ UNCHANGED <<authed, user, curRoom, rooms, owners>>
    BY <1>2 DEF EnsureRoomId, clientVars, stateVars
  <2> QED
    BY <2>6, <2>7, StateStays DEF Aside, IInv
<1>3. CASE CacheRoomId(w) \/ Unlist(w) \/ CountUsers(w) \/ RetireRoom(w) \/ CloseDbRoom(w)
  <2>1. Done(w) \/ \E pc \in {"srem", "tolobby", "count", "list", "unlist", "dbclose", "erase"} :
                     Goto(w, pc)
    BY <1>3 DEF CacheRoomId, Unlist, CountUsers, RetireRoom, CloseDbRoom
  <2>2. UNCHANGED <<link, logins, status>> /\ UNCHANGED <<authed, user, curRoom, rooms, owners>>
    BY <1>3 DEF CacheRoomId, Unlist, CountUsers, RetireRoom, CloseDbRoom, clientVars, stateVars
  <2>3. Moves(w)
    BY <1>1, <2>1, DoneMoves, GotoMoves DEF IInv
  <2> QED
    BY <2>2, <2>3, StateStays DEF Aside, IInv
<1>4. CASE EraseRoom(w)
  <2>1. Goto(w, "list") /\ owners' = [owners EXCEPT ![RoomLeft(w)] = None]
        /\ UNCHANGED <<link, logins, status, authed, user, curRoom, rooms>>
    BY <1>4 DEF EraseRoom, clientVars
  <2>2. Moves(w)
    BY <1>1, <2>1, GotoMoves DEF IInv
  <2>3. RoomsStay
    BY <2>1 DEF RoomsStay, IInv, RInv, RoomTypes
  <2> QED
    BY <2>1, <2>2, <2>3 DEF Aside
<1> QED
  BY <1>2, <1>3, <1>4 DEF SharedStep

\* Commands that are admitted or refused, an invitation, and the keys of a room
\* that was removed.
LEMMA CommandAside ==
  ASSUME IInv, NEW w \in Workers,
         CommandAdmit(w) \/ CommandDenied(w) \/ Invite(w) \/ RemoveKeys(w)
  PROVE  Aside(w)
<1>1. UNCHANGED <<link, logins, status>> /\ UNCHANGED <<authed, user, curRoom, rooms, owners>>
  BY DEF CommandAdmit, CommandDenied, Invite, RemoveKeys, clientVars, stateVars
<1>2. job[w].op # "idle" /\ ~Closing(job[w])
  BY DEF CommandAdmit, CommandDenied, Invite, RemoveKeys, Commands, At, Closing
<1>3. Done(w) \/ Goto(w, "apply")
  BY DEF CommandAdmit, CommandDenied, Invite, RemoveKeys
<1>4. Moves(w)
  BY <1>2, <1>3, DoneMoves, GotoMoves DEF IInv
<1> QED
  BY <1>1, <1>4, StateStays DEF Aside, IInv
-----------------------------------------------------------------------------
(* The steps that move sessions between rooms. *)

\* The sessions K go to room dst, and of the others only dead ones are dropped.
Relocated(K, dst) ==
  /\ curRoom' = [s \in Sessions |-> IF s \in K THEN dst ELSE curRoom[s]]
  /\ rooms' \in [AllRooms -> SUBSET Sessions]
  /\ \A q \in AllRooms : \A t \in Sessions :
       /\ t \in K => (t \in rooms'[q] <=> q = dst)
       /\ t \notin K => /\ t \in rooms'[q] => t \in rooms[q]
                        /\ t \in rooms[q] /\ Alive(t) => t \in rooms'[q]

\* A move keeps everyone in one place, if the owners follow.
LEMMA Relocate ==
  ASSUME IInv, NEW w \in Workers, Moves(w), UNCHANGED <<link, logins, status, authed, user>>,
         NEW K \in SUBSET authed, NEW dst \in AllRooms, Relocated(K, dst),
         dst \in Rooms => \A t \in K : Holds(t),
         owners' \in [Rooms -> Names \union {None}], Owned'
  PROVE  IInv'
<1>1. JInv /\ RInv /\ authed \subseteq Sessions
  BY DEF IInv, JInv, Types
<1>2. JInv'
  BY <1>1, MoveJobs
<1>3. \A t \in Sessions : (Holds(t) => Holds(t)') /\ (Alive(t)' => Alive(t))
  BY <1>1, MoveHolds
<1>4. RoomTypes'
  BY <1>1 DEF RInv, RoomTypes, Relocated
<1>5. ASSUME NEW t \in Sessions
      PROVE  InPlace(t)'
  <2>1. InPlace(t)
    BY <1>1 DEF RInv, Placing
  <2>2. curRoom'[t] = IF t \in K THEN dst ELSE curRoom[t]
    BY DEF Relocated
  <2>3. CASE t \in K
    <3>1. t \in rooms'[dst]
      BY <2>3 DEF Relocated
    <3> QED
      BY <2>1, <2>2, <2>3, <3>1 DEF InPlace
  <2>4. CASE t \notin K
    <3>1. t \in authed /\ Alive(t)' => t \in rooms'[curRoom[t]]
      BY <1>3, <2>1, <2>4 DEF Relocated, InPlace
    <3> QED
      BY <2>1, <2>2, <2>4, <3>1 DEF InPlace
  <2> QED
    BY <2>3, <2>4
<1>6. ASSUME NEW q \in AllRooms, NEW t \in rooms'[q]
      PROVE  /\ t \in Sessions /\ t \in authed /\ curRoom'[t] = q
             /\ q \in Rooms => Holds(t)
  <2>1. t \in Sessions
    BY DEF Relocated
  <2>2. CASE t \in K
    BY <1>6, <2>1, <2>2 DEF Relocated
  <2>3. CASE t \notin K
    <3>1. t \in rooms[q]
      BY <1>6, <2>1, <2>3 DEF Relocated
    <3> QED
      BY <1>1, <2>1, <2>3, <3>1 DEF Relocated, RInv, Within, Held
  <2> QED
    BY <2>2, <2>3
<1>7. Within' /\ Held'
  BY <1>3, <1>6 DEF Within, Held, AllRooms
<1> QED
  BY <1>2, <1>4, <1>5, <1>7 DEF IInv, RInv, Placing

\* A session whose request runs and that is authenticated is in its room.
LEMMA Requester ==
  ASSUME IInv, NEW w \in Workers, job[w].op \in {"join", "leave"}, job[w].s \in authed
  PROVE  /\ job[w].s \in Sessions /\ Holds(job[w].s) /\ Alive(job[w].s)
         /\ user[job[w].s] \in Names /\ curRoom[job[w].s] \in AllRooms
         /\ job[w].s \in rooms[curRoom[job[w].s]]
<1> DEFINE s == job[w].s
<1>1. JobShape(job[w]) /\ JobOK(job[w])
  BY DEF IInv, JInv, JobsOK
<1>2. s \in Sessions /\ Holds(s)
  BY <1>1 DEF JobShape, JobOK
<1> HIDE DEF s
<1>3. Alive(s)
  BY <1>2, HoldsAlive
<1>4. InPlace(s) /\ s \in authed
  BY <1>2 DEF IInv, RInv, Placing, s
<1> QED
  BY <1>2, <1>3, <1>4 DEF InPlace, s

\* The job of a join or a leave goes on with other locals.
LEMMA LocalsMove ==
  ASSUME JInv, NEW w \in Workers, job[w].op \in {"join", "leave"}, NEW j,
         job' = [job EXCEPT ![w] = j], DOMAIN j = DOMAIN Idle, j.op = job[w].op,
         j.s = job[w].s, j.op = "join" => j.room = job[w].room
  PROVE  Moves(w)
<1>1. DOMAIN job = Workers /\ JobShape(job[w])
  BY DEF JInv, Types, JobsOK
<1>2. DOMAIN job' = Workers /\ job'[w] = j /\ \A v \in Workers \ {w} : job'[v] = job[v]
  BY <1>1
<1>3. JobShape(j)
  BY <1>1 DEF JobShape
<1> QED
  BY <1>2, <1>3 DEF Moves, Closing, Pending

\* A join: the session leaves its room and enters the other one.
LEMMA JoinMoves ==
  ASSUME IInv, NEW w \in Workers, JoinEnter(w)
  PROVE  IInv'
<1> DEFINE s == job[w].s
           r == job[w].room
           n == user[s]
           old == curRoom[s]
           moves == old # None /\ old # r /\ rooms[old] # {}
           members == Without(old, s)
           left == IF moves THEN [rooms EXCEPT ![old] = members] ELSE rooms
<1>e. /\ job[w].op = "join" /\ s \in authed /\ UNCHANGED <<link, logins, status, authed, user>>
      /\ curRoom' = [curRoom EXCEPT ![s] = r]
      /\ rooms' = [left EXCEPT ![r] = @ \union {s}]
      /\ \E o \in IF moves /\ old # Lobby THEN NextOwners(old, members, n) ELSE {None} :
           owners' = [q \in Rooms |-> IF q = r /\ owners[q] = None THEN n
                                      ELSE IF moves /\ q = old THEN o ELSE owners[q]]
      /\ \E pc : job' = [job EXCEPT ![w].pc = pc, ![w].name = n, ![w].prev = old]
  BY DEF JoinEnter, At, clientVars
<1>1. job[w].op = "join" /\ s \in authed /\ UNCHANGED <<link, logins, status, authed, user>>
  BY <1>e
<1>m. members = Live(rooms[old]) \ {s} /\ members \subseteq rooms[old]
  BY DEF Without, Live
<1> HIDE DEF members
<1>2. /\ s \in Sessions /\ Holds(s) /\ Alive(s) /\ n \in Names /\ old \in AllRooms
      /\ s \in rooms[old] /\ r \in AllRooms /\ n # None
  BY <1>1, Requester, RoomsAssumption DEF IInv, JInv, JobsOK, JobShape
<1>3. Moves(w)
  <2>1. PICK pc : job' = [job EXCEPT ![w].pc = pc, ![w].name = n, ![w].prev = old]
    BY <1>e
  <2> DEFINE j == [job[w] EXCEPT !.pc = pc, !.name = n, !.prev = old]
  <2>2. job' = [job EXCEPT ![w] = j]
    BY <2>1
  <2>3. DOMAIN j = DOMAIN Idle /\ j.op = job[w].op /\ j.s = job[w].s /\ j.room = job[w].room
    BY DEF IInv, JInv, JobsOK, JobShape, Idle
  <2> HIDE DEF j
  <2> QED
    BY <1>1, <2>2, <2>3, LocalsMove DEF IInv
<1>t. rooms \in [AllRooms -> SUBSET Sessions] /\ owners \in [Rooms -> Names \union {None}]
      /\ RInv /\ curRoom \in [Sessions -> AllRooms \union {None}]
  BY DEF IInv, RInv, RoomTypes
<1>c. moves <=> old # r
  BY <1>2, RoomsAssumption
<1>r. rooms' = [left EXCEPT ![r] = @ \union {s}] /\ curRoom' = [curRoom EXCEPT ![s] = r]
  BY <1>e
<1> HIDE DEF s, r, n, old, moves
<1>l. left \in [AllRooms -> SUBSET Sessions]
  BY <1>2, <1>m, <1>t
<1>4. \A q \in AllRooms :
        rooms'[q] = IF q = r THEN rooms[r] \union {s}
                    ELSE IF q = old THEN members ELSE rooms[q]
  BY <1>2, <1>c, <1>l, <1>r, <1>t
<1>5. DOMAIN rooms' = AllRooms /\ rooms' \in [AllRooms -> SUBSET Sessions]
  <2> HIDE DEF left
  <2> QED
    BY <1>2, <1>l, <1>r
<1>6. Relocated({s}, r)
  <2>1. curRoom' = [t \in Sessions |-> IF t \in {s} THEN r ELSE curRoom[t]]
    BY <1>2, <1>r, <1>t
  <2>2. ASSUME NEW q \in AllRooms, NEW t \in Sessions
        PROVE  /\ t \in {s} => (t \in rooms'[q] <=> q = r)
               /\ t \notin {s} => /\ t \in rooms'[q] => t \in rooms[q]
                                  /\ t \in rooms[q] /\ Alive(t) => t \in rooms'[q]
    <3>1. CASE t = s
      <4>1. t \in rooms[q] => q = old
        BY <1>t, <3>1 DEF RInv, Within, old
      <4> QED
        BY <1>4, <1>m, <3>1, <4>1
    <3>2. CASE t # s
      BY <1>4, <1>m, <3>2 DEF Live
    <3> QED
      BY <3>1, <3>2
  <2> QED
    BY <1>5, <2>1, <2>2 DEF Relocated
<1>7. /\ owners' \in [Rooms -> Names \union {None}]
      /\ Owned'
  <2>1. PICK o \in IF old # r /\ old # Lobby THEN NextOwners(old, members, n) ELSE {None} :
          owners' = [q \in Rooms |-> IF q = r /\ owners[q] = None THEN n
                                     ELSE IF old # r /\ q = old THEN o ELSE owners[q]]
    BY <1>e, <1>c
  <2>2. ASSUME old # r, old \in Rooms
        PROVE  o \in Names \union {None} /\ (o # None => \E m \in members : user[m] = o)
    <3>1. o \in NextOwners(old, members, n)
      BY <1>2, <2>1, <2>2, RoomsAssumption DEF AllRooms
    <3>2. \A t \in rooms[old] \ members : user[t] = n
      BY <1>m, <1>t, <2>2, RoomAlive DEF n
    <3> QED
      BY SMT, <1>m, <1>t, <2>2, <3>1, <3>2, OwnerPasses
  <2>3. ASSUME NEW q \in Rooms
        PROVE  /\ owners'[q] \in Names \union {None}
               /\ owners'[q] # None => \E t \in rooms'[q] : user[t] = owners'[q]
    <3>0. q \in AllRooms
      BY DEF AllRooms
    <3>1. CASE q = r /\ owners[q] = None
      BY <1>2, <1>4, <2>1, <3>0, <3>1 DEF n
    <3>2. CASE ~(q = r /\ owners[q] = None) /\ q = old /\ old # r
      <4>1. owners'[q] = o
        BY <1>2, <2>1, <3>2, RoomsAssumption
      <4> QED
        BY <1>4, <2>2, <3>0, <3>2, <4>1
    <3>3. CASE ~(q = r /\ owners[q] = None) /\ ~(q = old /\ old # r)
      <4>1. owners'[q] = owners[q]
        BY <2>1, <3>3
      <4>2. rooms[q] \subseteq rooms'[q]
        BY <1>4, <3>0, <3>3
      <4> QED
        BY <1>t, <4>1, <4>2 DEF RInv, Owned
    <3> QED
      BY <3>1, <3>2, <3>3
  <2>4. owners' \in [Rooms -> Names \union {None}]
    BY <2>1, <2>3
  <2> QED
    BY <1>1, <2>3, <2>4 DEF Owned
<1> QED
  BY <1>1, <1>2, <1>3, <1>6, <1>7, Relocate DEF s
\* LeftTo passes the ownership of r on and touches no other room.
LEMMA LeftOwners ==
  ASSUME RInv, NEW r \in AllRooms, NEW members, NEW n, LeftTo(r, members, n),
         r \in Rooms => members \subseteq rooms[r] /\ \A t \in rooms[r] \ members : user[t] = n
  PROVE  /\ owners' \in [Rooms -> Names \union {None}]
         /\ \A q \in Rooms \ {r} : owners'[q] = owners[q]
         /\ r \in Rooms => (owners'[r] # None => \E m \in members : user[m] = owners'[r])
<1>1. owners \in [Rooms -> Names \union {None}]
  BY DEF RInv, RoomTypes
<1>2. CASE r = Lobby
  BY <1>1, <1>2, RoomsAssumption DEF LeftTo
<1>3. CASE r # Lobby
  <2>1. r \in Rooms
    BY <1>3 DEF AllRooms
  <2>2. PICK o \in NextOwners(r, members, n) : owners' = [owners EXCEPT ![r] = o]
    BY <1>3 DEF LeftTo
  <2>3. o \in Names \union {None} /\ (o # None => \E m \in members : user[m] = o)
    BY SMT, <2>1, <2>2, OwnerPasses
  <2> QED
    BY <1>1, <2>1, <2>2, <2>3
<1> QED
  BY <1>2, <1>3

\* A leave: the session goes to the lobby.
LEMMA LeaveMoves ==
  ASSUME IInv, NEW w \in Workers, LeaveRoom(w)
  PROVE  IInv'
<1> DEFINE s == job[w].s
           r == curRoom[s]
           members == Without(r, s)
<1>1. job[w].op = "leave" /\ s \in authed /\ UNCHANGED <<link, logins, status, authed, user>>
  BY DEF LeaveRoom, At, clientVars
<1>2. s \in Sessions /\ Alive(s) /\ r \in AllRooms /\ s \in rooms[r] /\ Lobby \in AllRooms
  BY <1>1, Requester DEF AllRooms
<1>3. Moves(w)
  <2> DEFINE j == [job[w] EXCEPT !.pc = "ensure", !.room = r, !.name = user[s]]
  <2>2. job' = [job EXCEPT ![w] = j]
    BY DEF LeaveRoom
  <2>3. DOMAIN j = DOMAIN Idle /\ j.op = job[w].op /\ j.s = job[w].s
    BY DEF IInv, JInv, JobsOK, JobShape, Idle
  <2> HIDE DEF j
  <2> QED
    BY <1>1, <2>2, <2>3, LocalsMove DEF IInv
<1>t. rooms \in [AllRooms -> SUBSET Sessions] /\ RInv
      /\ curRoom \in [Sessions -> AllRooms \union {None}]
  BY DEF IInv, RInv, RoomTypes
<1>m. members = Live(rooms[r]) \ {s} /\ members \subseteq rooms[r] /\ members \in SUBSET Sessions
  BY <1>2, <1>t DEF Without, Live
<1>4. /\ rooms' = [[rooms EXCEPT ![r] = members] EXCEPT ![Lobby] = @ \union {s}]
      /\ curRoom' = [curRoom EXCEPT ![s] = Lobby] /\ LeftTo(r, members, user[s])
  BY DEF LeaveRoom
<1> HIDE DEF s, r, members
<1>5. /\ rooms' \in [AllRooms -> SUBSET Sessions]
      /\ \A q \in AllRooms :
           rooms'[q] = (IF q = r THEN members ELSE rooms[q]) \union
                       (IF q = Lobby THEN {s} ELSE {})
  BY <1>2, <1>4, <1>m, <1>t
<1>6. Relocated({s}, Lobby)
  <2>1. curRoom' = [t \in Sessions |-> IF t \in {s} THEN Lobby ELSE curRoom[t]]
    BY <1>2, <1>4, <1>t
  <2>2. ASSUME NEW q \in AllRooms, NEW t \in Sessions
        PROVE  /\ t \in {s} => (t \in rooms'[q] <=> q = Lobby)
               /\ t \notin {s} => /\ t \in rooms'[q] => t \in rooms[q]
                                  /\ t \in rooms[q] /\ Alive(t) => t \in rooms'[q]
    <3>1. CASE t = s
      <4>1. t \in rooms[q] => q = r
        BY <1>t, <3>1 DEF RInv, Within, r
      <4> QED
        BY <1>5, <1>m, <3>1, <4>1
    <3>2. CASE t # s
      BY <1>5, <1>m, <3>2 DEF Live
    <3> QED
      BY <3>1, <3>2
  <2> QED
    BY <1>5, <2>1, <2>2 DEF Relocated
<1>7. r \in Rooms => \A t \in rooms[r] \ members : user[t] = user[s]
  BY <1>m, <1>t, RoomAlive
<1>8. /\ owners' \in [Rooms -> Names \union {None}]
      /\ \A q \in Rooms \ {r} : owners'[q] = owners[q]
      /\ r \in Rooms => (owners'[r] # None => \E m \in members : user[m] = owners'[r])
  BY <1>2, <1>4, <1>7, <1>m, <1>t, LeftOwners
<1>9. Owned'
  <2>1. ASSUME NEW q \in Rooms, owners'[q] # None
        PROVE  \E t \in rooms'[q] : user[t] = owners'[q]
    <3>0. q \in AllRooms
      BY DEF AllRooms
    <3>1. CASE q = r
      BY <1>5, <1>8, <2>1, <3>0, <3>1
    <3>2. CASE q # r
      BY <1>5, <1>8, <1>t, <2>1, <3>0, <3>2 DEF RInv, Owned
    <3> QED
      BY <3>1, <3>2
  <2> QED
    BY <1>1, <2>1 DEF Owned
<1> QED
  BY <1>1, <1>2, <1>3, <1>6, <1>8, <1>9, Relocate, RoomsAssumption DEF s

\* /kick: every session of the name that is in the room goes to the lobby.
LEMMA KickMoves ==
  ASSUME IInv, NEW w \in Workers, Kick(w)
  PROVE  IInv'
<1> DEFINE r == job[w].room
           n == job[w].name
           K == {t \in ByUser(n) : curRoom[t] = r}
           members == rooms[r] \ K
<1>1. job[w].op = "kick" /\ job[w].pc = "apply" /\ Done(w)
      /\ UNCHANGED <<link, logins, status, authed, user>>
  BY DEF Kick, At, clientVars
<1>2. r \in Rooms /\ r \in AllRooms /\ Lobby \in AllRooms /\ r # Lobby
  BY <1>1, RoomsAssumption DEF IInv, JInv, JobsOK, JobShape, AllRooms
<1>3. Moves(w)
  BY <1>1, DoneMoves DEF IInv, Closing
<1>t. rooms \in [AllRooms -> SUBSET Sessions] /\ RInv
      /\ curRoom \in [Sessions -> AllRooms \union {None}]
  BY DEF IInv, RInv, RoomTypes
<1>4. /\ rooms' = [rooms EXCEPT ![r] = members, ![Lobby] = @ \union K]
      /\ curRoom' = [t \in Sessions |-> IF t \in K THEN Lobby ELSE curRoom[t]]
      /\ rooms[r] # {} => LeftTo(r, members, n)
      /\ rooms[r] = {} => owners' = owners
  BY DEF Kick
<1>k. \A t \in K : t \in Sessions /\ user[t] = n /\ curRoom[t] = r /\ t \in authed
  <2>1. \A t \in K : t \in Sessions /\ user[t] = n /\ curRoom[t] = r
    BY DEF ByUser
  <2> QED
    BY <1>2, <1>t, <2>1, RoomsAssumption DEF RInv, Placing, InPlace
<1> HIDE DEF r, n, K
<1>5. /\ rooms' \in [AllRooms -> SUBSET Sessions]
      /\ \A q \in AllRooms :
           rooms'[q] = (IF q = r THEN members ELSE rooms[q]) \union
                       (IF q = Lobby THEN K ELSE {})
  <2>1. members \in SUBSET Sessions /\ K \in SUBSET Sessions
    BY <1>2, <1>k, <1>t
  <2> HIDE DEF members
  <2> QED
    BY <1>2, <1>4, <1>t, <2>1
<1>6. Relocated(K, Lobby)
  <2>2. ASSUME NEW q \in AllRooms, NEW t \in Sessions
        PROVE  /\ t \in K => (t \in rooms'[q] <=> q = Lobby)
               /\ t \notin K => (t \in rooms'[q] <=> t \in rooms[q])
    <3>1. CASE t \in K
      <4>1. t \in rooms[q] => q = r
        BY <1>t, <1>k, <3>1 DEF RInv, Within
      <4> QED
        BY <1>5, <3>1, <4>1
    <3>2. CASE t \notin K
      BY <1>5, <3>2
    <3> QED
      BY <3>1, <3>2
  <2> QED
    BY <1>4, <1>5, <2>2 DEF Relocated
<1>8. /\ owners' \in [Rooms -> Names \union {None}]
      /\ \A q \in Rooms \ {r} : owners'[q] = owners[q]
      /\ owners'[r] # None => \E m \in members : user[m] = owners'[r]
  <2>1. CASE rooms[r] = {}
    BY <1>2, <1>4, <1>t, <2>1 DEF RInv, RoomTypes, Owned
  <2>2. CASE rooms[r] # {}
    <3>1. LeftTo(r, members, n) /\ members \subseteq rooms[r]
          /\ \A t \in rooms[r] \ members : user[t] = n
      BY <1>4, <1>k, <2>2
    <3> HIDE DEF members
    <3> QED
      BY <1>2, <1>t, <3>1, LeftOwners
  <2> QED
    BY <2>1, <2>2
<1>9. Owned'
  <2>1. ASSUME NEW q \in Rooms, owners'[q] # None
        PROVE  \E t \in rooms'[q] : user[t] = owners'[q]
    <3>0. q \in AllRooms
      BY DEF AllRooms
    <3>1. CASE q = r
      BY <1>5, <1>8, <2>1, <3>0, <3>1
    <3>2. CASE q # r
      BY <1>5, <1>8, <1>t, <2>1, <3>0, <3>2 DEF RInv, Owned
    <3> QED
      BY <3>1, <3>2
  <2> QED
    BY <1>1, <2>1 DEF Owned
<1>10. K \in SUBSET authed
  BY <1>k
<1> QED
  BY <1>1, <1>2, <1>3, <1>6, <1>8, <1>9, <1>10, Relocate, RoomsAssumption

\* /room remove, and the pruning of rooms nobody is in.
LEMMA RemoveMoves ==
  ASSUME IInv, NEW w \in Workers, RemoveRoom(w) \/ PruneRooms(w)
  PROVE  IInv'
<1>1. UNCHANGED <<link, logins, status, authed, user>> /\ Lobby \in AllRooms /\ Lobby \notin Rooms
  BY RoomsAssumption DEF RemoveRoom, PruneRooms, clientVars, AllRooms
<1>2. Moves(w)
  BY DoneMoves, GotoMoves DEF IInv, RemoveRoom, PruneRooms, At, Closing
<1>t. rooms \in [AllRooms -> SUBSET Sessions] /\ RInv
      /\ curRoom \in [Sessions -> AllRooms \union {None}]
      /\ owners \in [Rooms -> Names \union {None}]
  BY DEF IInv, RInv, RoomTypes
<1>3. CASE RemoveRoom(w)
  <2> DEFINE r == job[w].room
             K == rooms[r]
  <2>1. r \in Rooms /\ r \in AllRooms /\ r # Lobby
    BY <1>1, <1>3 DEF IInv, JInv, JobsOK, JobShape, RemoveRoom, At, AllRooms
  <2>2. Live(K) = K /\ K \in SUBSET Sessions
    BY <1>t, <2>1, RoomAlive
  <2>3. /\ rooms' = [rooms EXCEPT ![r] = {}, ![Lobby] = @ \union K]
        /\ curRoom' = [t \in Sessions |-> IF t \in K THEN Lobby ELSE curRoom[t]]
        /\ owners' = [owners EXCEPT ![r] = None]
    BY <1>3, <2>2 DEF RemoveRoom
  <2>k. \A q \in AllRooms : \A t \in rooms[q] : t \in authed /\ curRoom[t] = q
    BY <1>t DEF RInv, Within
  <2>l. K \in SUBSET authed /\ \A t \in K : curRoom[t] = r
    BY <2>1, <2>k
  <2>m. \A q \in AllRooms : \A t \in rooms[q] : t \in K => q = r
    BY SMT, <2>k, <2>l
  <2>e. \A t : t \in K <=> t \in rooms[r]
    OBVIOUS
  <2> HIDE DEF r, K
  <2>4. /\ rooms' \in [AllRooms -> SUBSET Sessions]
        /\ \A q \in AllRooms :
             rooms'[q] = (IF q = r THEN {} ELSE rooms[q]) \union (IF q = Lobby THEN K ELSE {})
    BY <1>1, <1>t, <2>1, <2>2, <2>3
  <2>5. Relocated(K, Lobby)
    BY <2>3, <2>4, <2>e, <2>m DEF Relocated
  <2>6. owners' \in [Rooms -> Names \union {None}]
        /\ owners'[r] = None /\ \A q \in Rooms \ {r} : owners'[q] = owners[q]
    BY <1>t, <2>1, <2>3
  <2>7. Owned'
    BY <1>1, <1>t, <2>4, <2>6 DEF RInv, Owned, AllRooms
  <2> QED
    BY <1>1, <1>2, <2>5, <2>6, <2>7, <2>l, Relocate
<1>4. CASE PruneRooms(w)
  <2>1. rooms' = [r \in AllRooms |-> Live(rooms[r])] /\ UNCHANGED <<curRoom, owners>>
    BY <1>4 DEF PruneRooms
  <2>2. \A q \in AllRooms : rooms'[q] = {t \in rooms[q] : Alive(t)}
    BY <2>1 DEF Live
  <2>3. rooms' \in [AllRooms -> SUBSET Sessions]
    BY <1>t, <2>1, <2>2
  <2>4. Relocated({}, Lobby)
    BY <1>t, <2>1, <2>2, <2>3 DEF Relocated
  <2>5. \A q \in Rooms : rooms'[q] = rooms[q]
    BY <1>t, <2>1, RoomAlive DEF AllRooms
  <2>6. Owned'
    BY <1>1, <1>t, <2>1, <2>5 DEF RInv, Owned
  <2> QED
    BY <1>1, <1>2, <1>t, <2>1, <2>4, <2>6, Relocate
<1> QED
  BY <1>3, <1>4
-----------------------------------------------------------------------------
(* Logins and closes. *)

\* The login commits: a session that is nowhere enters the lobby.
LEMMA CommitStep ==
  ASSUME IInv, NEW w \in Workers, LoginCommit(w)
  PROVE  IInv'
<1> DEFINE s == job[w].s
<1>1. /\ Pending(job[w]) /\ job[w].op = "login" /\ ~Closing(job[w])
      /\ authed' = authed \union {s} /\ UNCHANGED <<link, logins, status, owners>>
      /\ user' = [user EXCEPT ![s] = job[w].name]
      /\ curRoom' = [curRoom EXCEPT ![s] = Lobby]
      /\ rooms' = [rooms EXCEPT ![Lobby] = @ \union {s}]
      /\ Goto(w, "reply")
  BY DEF LoginCommit, At, Pending, Closing, clientVars
<1>2. /\ JobShape(job[w]) /\ JobOK(job[w]) /\ s \in Sessions /\ job[w].name \in Names
      /\ s \notin authed /\ s \notin status /\ logins[s] # 0
  BY <1>1 DEF IInv, JInv, JobsOK, JobShape, JobOK
<1>3. Moves(w) /\ job'[w].pc = "reply"
  <2>1. Moves(w)
    BY <1>1, GotoMoves DEF IInv
  <2> QED
    BY <1>1, <1>2, <2>1 DEF Goto, IInv, JInv, Types, JobShape, Idle
<1>4. \A t \in Sessions : (Holds(t) <=> Holds(t)') /\ (Alive(t)' => Alive(t))
  BY <1>1, <1>3, MoveHolds DEF IInv
<1>h. \A t \in Sessions : HoldsIn(link', job', t) <=> HoldsIn(link, job, t)
  BY <1>4 DEF Holds
<1>5. \A v \in Workers \ {w} :
        /\ job'[v] = job[v] /\ JobShape(job[v]) /\ JobOK(job[v])
        /\ job[v].op = "login" => job[v].s # s
        /\ job[v].op \notin {"idle", "login", "close"} => job[v].s # s
  BY <1>1, <1>2, <1>3 DEF IInv, JInv, JobsOK, LoginsOK, JobOK, Moves
<1>6. /\ JobShape(job'[w]) /\ ~Pending(job'[w])
      /\ job'[w].op = "idle" \/ (job'[w].op = "login" /\ job'[w].s = s)
  BY <1>1, <1>3 DEF Moves, Pending
<1> HIDE DEF s
<1>7. ASSUME NEW v \in Workers
      PROVE  JobShape(job'[v]) /\ JobOK(job[v])'
  <2>1. CASE v = w
    BY <1>1, <1>2, <1>6, <2>1 DEF JobOK, Pending
  <2>2. CASE v # w
    <3>1. job[v].op # "idle" => job[v].s \in Sessions
      BY <1>5, <2>2 DEF JobShape
    <3> QED
      BY <1>1, <1>5, <1>h, <2>2, <3>1 DEF JobOK, Pending, Holds
  <2> QED
    BY <2>1, <2>2
<1>8. LoginsOK'
  BY SMT, <1>1, <1>3 DEF IInv, JInv, LoginsOK, Moves
<1>9. Types' /\ SessionsOK'
  BY <1>1, <1>2, <1>3 DEF IInv, JInv, Types, SessionsOK, Moves
<1>10. JInv'
  BY <1>7, <1>8, <1>9 DEF JInv, JobsOK
<1>t. /\ rooms \in [AllRooms -> SUBSET Sessions] /\ user \in [Sessions -> Names \union {None}]
      /\ curRoom \in [Sessions -> AllRooms \union {None}] /\ Lobby \in AllRooms
      /\ Lobby \notin Rooms /\ RInv /\ owners \in [Rooms -> Names \union {None}]
  BY RoomsAssumption DEF IInv, RInv, RoomTypes, AllRooms
<1>11. RoomTypes'
  BY <1>1, <1>2, <1>t DEF RoomTypes
<1>12. /\ \A q \in AllRooms : rooms'[q] = IF q = Lobby THEN rooms[q] \union {s} ELSE rooms[q]
       /\ user'[s] \in Names /\ curRoom'[s] = Lobby
       /\ \A t \in Sessions \ {s} : user'[t] = user[t] /\ curRoom'[t] = curRoom[t]
  BY <1>1, <1>2, <1>t
<1>13. \A q \in AllRooms : s \notin rooms[q]
  BY <1>2, <1>t DEF RInv, Within
<1>14. ASSUME NEW t \in Sessions
       PROVE  InPlace(t)'
  <2>1. CASE t = s
    BY <1>1, <1>12, <1>t, <2>1 DEF InPlace
  <2>2. CASE t # s
    <3>1. InPlace(t)
      BY <1>t DEF RInv, Placing
    <3> QED
      BY SMT, <1>1, <1>4, <1>12, <2>2, <3>1 DEF InPlace
  <2> QED
    BY <2>1, <2>2
<1>15. Within'
  BY SMT, <1>1, <1>12, <1>13, <1>t DEF RInv, Within
<1>16. \A q \in Rooms : rooms'[q] = rooms[q] /\ rooms[q] \subseteq Sessions /\ s \notin rooms[q]
  <2>1. ASSUME NEW q \in Rooms
        PROVE  rooms'[q] = rooms[q] /\ rooms[q] \subseteq Sessions /\ s \notin rooms[q]
    <3>1. q \in AllRooms /\ q # Lobby
      BY <1>t DEF AllRooms
    <3>2. rooms'[q] = rooms[q]
      BY <1>12, <3>1
    <3>3. rooms[q] \subseteq Sessions
      BY ONLY <1>t, <3>1
    <3> QED
      BY <1>13, <3>1, <3>2, <3>3
  <2> QED
    BY <2>1
<1>17. Held'
  BY <1>4, <1>16, <1>t DEF RInv, Held
<1>18. Owned'
  BY SMT, <1>1, <1>12, <1>16, <1>t DEF RInv, Owned
<1> QED
  BY <1>10, <1>11, <1>14, <1>15, <1>17, <1>18 DEF IInv, RInv, Placing

\* The reply sets the status of the session.
LEMMA ReplyStep ==
  ASSUME IInv, NEW w \in Workers, LoginReply(w)
  PROVE  IInv'
<1> DEFINE s == job[w].s
<1>1. /\ job[w].op = "login" /\ job[w].pc = "reply" /\ ~Closing(job[w])
      /\ status' = status \union {s}
      /\ UNCHANGED <<link, logins, authed, user, curRoom, rooms, owners>> /\ Goto(w, "presence")
  BY DEF LoginReply, At, Closing, stateVars
<1>2. JobShape(job[w]) /\ JobOK(job[w]) /\ s \in Sessions /\ logins[s] # 0
  BY <1>1 DEF IInv, JInv, JobsOK, JobShape, JobOK
<1>3. Moves(w) /\ job'[w].pc = "presence"
  <2>1. Moves(w)
    BY <1>1, GotoMoves DEF IInv
  <2> QED
    BY <1>1, <1>2, <2>1 DEF Goto, IInv, JInv, Types, JobShape, Idle
<1>4. \A t \in Sessions : (Holds(t) <=> Holds(t)') /\ (Alive(t)' => Alive(t))
  BY <1>1, <1>3, MoveHolds DEF IInv
<1>h. \A t \in Sessions : HoldsIn(link', job', t) <=> HoldsIn(link, job, t)
  BY <1>4 DEF Holds
<1>5. \A v \in Workers \ {w} :
        /\ job'[v] = job[v] /\ JobShape(job[v]) /\ JobOK(job[v])
        /\ job[v].op = "login" => job[v].s # s
  BY <1>1, <1>3 DEF IInv, JInv, JobsOK, LoginsOK, Moves
<1>6. /\ JobShape(job'[w]) /\ ~Pending(job'[w])
      /\ job'[w].op = "idle" \/ (job'[w].op = "login" /\ job'[w].s = s)
  BY <1>1, <1>3 DEF Moves, Pending
<1> HIDE DEF s
<1>7. ASSUME NEW v \in Workers
      PROVE  JobShape(job'[v]) /\ JobOK(job[v])'
  <2>1. CASE v = w
    BY <1>1, <1>2, <1>6, <2>1 DEF JobOK, Pending
  <2>2. CASE v # w
    <3>1. job[v].op # "idle" => job[v].s \in Sessions
      BY <1>5, <2>2 DEF JobShape
    <3> QED
      BY <1>1, <1>5, <1>h, <2>2, <3>1 DEF JobOK, Pending, Holds
  <2> QED
    BY <2>1, <2>2
<1>8. LoginsOK'
  BY SMT, <1>1, <1>3 DEF IInv, JInv, LoginsOK, Moves
<1>9. Types' /\ SessionsOK'
  BY <1>1, <1>2, <1>3 DEF IInv, JInv, Types, SessionsOK, Moves
<1>10. JInv'
  BY <1>7, <1>8, <1>9 DEF JInv, JobsOK
<1>11. RInv'
  <2>1. RInv /\ RoomsStay /\ authed \subseteq Sessions
    BY <1>1, StateStays DEF IInv, JInv, Types
  <2> QED
    BY <1>4, <2>1, StayRooms
<1> QED
  BY <1>10, <1>11 DEF IInv

\* on_session_close takes the session out of its room and out of state_.
LEMMA CloseMoves ==
  ASSUME IInv, NEW w \in Workers, CloseSession(w)
  PROVE  IInv'
<1> DEFINE s == job[w].s
           r == curRoom[s]
           members == Without(r, s)
<1>1. /\ Closing(job[w]) /\ job[w].op = "close" /\ authed' = authed \ {s}
      /\ UNCHANGED <<link, logins, status>>
      /\ user' = [user EXCEPT ![s] = None] /\ curRoom' = [curRoom EXCEPT ![s] = None]
  BY DEF CloseSession, At, Closing, clientVars
<1>2. JobShape(job[w]) /\ s \in Sessions
  BY <1>1 DEF IInv, JInv, JobsOK, JobShape
<1>t. /\ rooms \in [AllRooms -> SUBSET Sessions] /\ user \in [Sessions -> Names \union {None}]
      /\ curRoom \in [Sessions -> AllRooms \union {None}] /\ RInv /\ JInv
      /\ owners \in [Rooms -> Names \union {None}] /\ DOMAIN job = Workers
      /\ authed \subseteq Sessions
  BY DEF IInv, RInv, RoomTypes, JInv, Types
<1>3. /\ DOMAIN job' = Workers /\ \A v \in Workers \ {w} : job'[v] = job[v]
      /\ JobShape(job'[w]) /\ job'[w].op \in {"idle", "close"}
      /\ job'[w].op = "close" => job'[w].s = s
  <2>1. CASE Done(w)
    <3>1. /\ DOMAIN job' = Workers /\ job'[w] = Idle
          /\ \A v \in Workers \ {w} : job'[v] = job[v]
      BY <1>t, <2>1 DEF Done
    <3>2. JobShape(Idle) /\ Idle.op = "idle"
      BY DEF JobShape, Idle
    <3> QED
      BY <3>1, <3>2
  <2>2. CASE job' = [job EXCEPT ![w].pc = "ensure", ![w].room = r, ![w].name = user[s]]
    <3>1. /\ DOMAIN job' = Workers /\ \A v \in Workers \ {w} : job'[v] = job[v]
          /\ job'[w] = [job[w] EXCEPT !.pc = "ensure", !.room = r, !.name = user[s]]
      BY <1>t, <2>2
    <3>2. DOMAIN job'[w] = DOMAIN Idle /\ job'[w].op = "close" /\ job'[w].s = s
      BY <1>1, <1>2, <3>1 DEF JobShape, Idle
    <3>3. JobShape(job'[w])
      BY <1>2, <3>2 DEF JobShape
    <3> QED
      BY <3>1, <3>2, <3>3
  <2> QED
    BY <2>1, <2>2 DEF CloseSession
<1>4. /\ r = None => UNCHANGED <<rooms, owners>>
      /\ r # None => rooms' = [rooms EXCEPT ![r] = members] /\ LeftTo(r, members, user[s])
  BY DEF CloseSession
<1>m. members = Live(rooms[r]) \ {s} /\ members \subseteq rooms[r]
  BY DEF Without, Live
<1>w. \A q \in AllRooms : s \in rooms[q] => q = r
  BY <1>t DEF RInv, Within
<1> HIDE DEF s, r, members
<1>5. \A t \in Sessions : (t # s => (Holds(t) => Holds(t)')) /\ (Alive(t)' => Alive(t))
  <2>1. ASSUME NEW t \in Sessions
        PROVE  (t # s => (Holds(t) => Holds(t)')) /\ (Alive(t)' => Alive(t))
    <3>1. t # s => (Holds(t) => Holds(t)')
      BY <1>1, <1>3 DEF Holds, HoldsIn, s
    <3>2. \A v \in Workers : job'[v].s = t => job[v].s = t
      BY <1>3, RoomsAssumption DEF JobShape, s
    <3>3. Alive(t)' => Alive(t)
      BY <1>1, <3>2 DEF Alive
    <3> QED
      BY <3>1, <3>3
  <2> QED
    BY <2>1
<1>h. \A t \in Sessions : t # s => (HoldsIn(link, job, t) => HoldsIn(link', job', t))
  BY <1>5 DEF Holds
<1>6. ASSUME NEW v \in Workers
      PROVE  JobShape(job'[v]) /\ JobOK(job[v])'
  <2>1. CASE v = w
    BY <1>3, <2>1 DEF JobOK, Pending
  <2>2. CASE v # w
    <3>1. job'[v] = job[v] /\ JobShape(job[v]) /\ JobOK(job[v])
      BY <1>3, <2>2 DEF IInv, JInv, JobsOK
    <3>2. job[v].op # "idle" => job[v].s \in Sessions
      BY <3>1 DEF JobShape
    <3> QED
      BY <1>1, <1>h, <3>1, <3>2 DEF JobOK, Holds
  <2> QED
    BY <2>1, <2>2
<1>7. LoginsOK'
  BY <1>3 DEF IInv, JInv, LoginsOK
<1>8. Types' /\ SessionsOK'
  BY <1>1, <1>3 DEF IInv, JInv, Types, SessionsOK
<1>9. JInv'
  BY <1>6, <1>7, <1>8 DEF JInv, JobsOK
<1>10. /\ rooms' \in [AllRooms -> SUBSET Sessions]
       /\ \A q \in AllRooms : rooms'[q] = IF q = r THEN members ELSE rooms[q]
  <2>1. CASE r = None
    BY <1>4, <1>t, <2>1, RoomsAssumption
  <2>2. CASE r # None
    <3>1. r \in AllRooms
      BY <1>2, <1>t, <2>2 DEF r
    <3>2. members \in SUBSET Sessions
      BY <1>m, <1>t, <3>1
    <3> QED
      BY <1>4, <1>t, <2>2, <3>1, <3>2
  <2> QED
    BY <2>1, <2>2
<1>11. \A q \in AllRooms : s \notin rooms'[q] /\ rooms'[q] \subseteq rooms[q]
  BY <1>10, <1>m, <1>w
<1>12. /\ user'[s] = None /\ curRoom'[s] = None
       /\ \A t \in Sessions \ {s} : user'[t] = user[t] /\ curRoom'[t] = curRoom[t]
  BY <1>1, <1>2, <1>t DEF s
<1>13. ASSUME NEW t \in Sessions
       PROVE  InPlace(t)'
  <2>1. CASE t = s
    BY <1>1, <1>12, <2>1 DEF InPlace, s
  <2>2. CASE t # s
    <3>1. InPlace(t)
      BY <1>t DEF RInv, Placing
    <3>2. t \in authed /\ Alive(t)' => t \in rooms'[curRoom[t]]
      BY <1>5, <1>10, <1>m, <2>2, <3>1 DEF InPlace, Live
    <3> QED
      BY <1>1, <1>12, <2>2, <3>1, <3>2 DEF InPlace, s
  <2> QED
    BY <2>1, <2>2
<1>14. ASSUME NEW q \in AllRooms, NEW t \in rooms'[q]
       PROVE  /\ t \in Sessions /\ t # s /\ t \in authed' /\ curRoom'[t] = q
              /\ q \in Rooms => Holds(t)
  <2>1. t \in rooms[q] /\ t # s /\ t \in Sessions
    BY <1>11, <1>t
  <2> QED
    BY <1>1, <1>12, <1>t, <2>1 DEF RInv, Within, Held, s
<1>15. Within' /\ Held'
  BY <1>5, <1>14 DEF Within, Held, AllRooms
<1>16. /\ owners' \in [Rooms -> Names \union {None}]
       /\ \A q \in Rooms \ {r} : owners'[q] = owners[q]
       /\ r \in Rooms => (owners'[r] # None => \E m \in members : user[m] = owners'[r])
  <2>1. CASE r = None
    BY <1>4, <1>t, <2>1, RoomsAssumption DEF AllRooms
  <2>2. CASE r # None
    <3>1. r \in AllRooms
      BY <1>2, <1>t, <2>2 DEF r
    <3>2. r \in Rooms => \A t \in rooms[r] \ members : user[t] = user[s]
      BY <1>m, <1>t, RoomAlive
    <3> QED
      BY <1>4, <1>m, <1>t, <2>2, <3>1, <3>2, LeftOwners
  <2> QED
    BY <2>1, <2>2
<1>17. ASSUME NEW q \in Rooms, owners'[q] # None
       PROVE  \E t \in rooms'[q] : user'[t] = owners'[q]
  <2>0. q \in AllRooms
    BY DEF AllRooms
  <2>1. \E t \in rooms'[q] : user[t] = owners'[q]
    <3>1. CASE q = r
      BY <1>10, <1>16, <1>17, <2>0, <3>1
    <3>2. CASE q # r
      BY <1>10, <1>16, <1>17, <1>t, <2>0, <3>2 DEF RInv, Owned
    <3> QED
      BY <3>1, <3>2
  <2> QED
    BY <1>12, <1>14, <2>0, <2>1
<1>18. RoomTypes'
  BY <1>1, <1>2, <1>10, <1>16, <1>t DEF RoomTypes, s
<1> QED
  BY <1>9, <1>13, <1>15, <1>17, <1>18 DEF IInv, RInv, Placing, Owned
-----------------------------------------------------------------------------
(* The clients. *)

\* A job begins at a worker that was free.
LEMMA Begun ==
  ASSUME JInv, NEW w \in Workers, NEW s \in Sessions, NEW op, NEW r, NEW p, NEW n,
         Begin(w, s, op, r, p, n), op # "idle"
  PROVE  /\ DOMAIN job' = Workers /\ \A v \in Workers \ {w} : job'[v] = job[v]
         /\ job[w].op = "idle" /\ job[w].s = None /\ ~Closing(job[w])
         /\ DOMAIN job'[w] = DOMAIN Idle /\ job'[w].op = op /\ job'[w].pc = "start"
         /\ job'[w].s = s /\ job'[w].room = r /\ job'[w].name = n
<1>1. DOMAIN job = Workers /\ JobShape(job[w]) /\ job[w].op = "idle"
  BY DEF Begin, FreeWorker, JInv, Types, JobsOK
<1>2. /\ DOMAIN job' = Workers /\ \A v \in Workers \ {w} : job'[v] = job[v]
      /\ job'[w] = [Idle EXCEPT !.op = op, !.pc = "start", !.s = s,
                                !.room = r, !.pass = p, !.name = n]
  BY <1>1 DEF Begin
<1>3. job[w].s = None /\ ~Closing(job[w])
  BY <1>1 DEF JobShape, Closing
<1>4. /\ DOMAIN job'[w] = DOMAIN Idle /\ job'[w].op = op /\ job'[w].pc = "start"
      /\ job'[w].s = s /\ job'[w].room = r /\ job'[w].name = n
  BY <1>2 DEF Idle
<1> QED
  BY <1>1, <1>2, <1>3, <1>4

\* The links of other sessions stay, that of s is or was there, and a job of s
\* may begin: no session is let go and none comes back.
LEMMA ClientHolds ==
  ASSUME JInv, NEW w \in Workers, NEW s \in Sessions, NEW op, NEW r, NEW p, NEW n,
         Begin(w, s, op, r, p, n), op # "idle", link[s] \in {"up", "closing"},
         \/ UNCHANGED link
         \/ op = "close" /\ link' = [link EXCEPT ![s] = "gone"]
  PROVE  /\ \A t \in Sessions : (Holds(t) => Holds(t)') /\ (Alive(t)' => Alive(t))
         /\ \A t \in Sessions : HoldsIn(link, job, t) => HoldsIn(link', job', t)
<1>1. /\ DOMAIN job' = Workers /\ \A v \in Workers \ {w} : job'[v] = job[v]
      /\ job[w].op = "idle" /\ job[w].s = None /\ ~Closing(job[w])
      /\ job'[w].op = op /\ job'[w].pc = "start" /\ job'[w].s = s
  BY SMT, Begun
<1>2. link \in [Sessions -> {"new", "up", "closing", "gone"}]
  BY DEF JInv, Types
<1>3. ASSUME NEW t \in Sessions
      PROVE  (HoldsIn(link, job, t) => HoldsIn(link', job', t)) /\ (Alive(t)' => Alive(t))
  <2>1. ASSUME HoldsIn(link, job, t)
        PROVE  HoldsIn(link', job', t)
    <3>1. CASE t = s
      <4>1. CASE UNCHANGED link
        BY <3>1, <4>1 DEF HoldsIn
      <4>2. CASE op = "close" /\ link' = [link EXCEPT ![s] = "gone"]
        BY <1>1, <3>1, <4>2 DEF HoldsIn, Closing
      <4> QED
        BY <4>1, <4>2
    <3>2. CASE t # s
      <4>1. link'[t] = link[t]
        BY <1>2, <3>2
      <4> QED
        BY <1>1, <2>1, <4>1 DEF HoldsIn
    <3> QED
      BY <3>1, <3>2
  <2>2. ASSUME Alive(t)'
        PROVE  Alive(t)
    <3>1. CASE t = s
      BY <3>1 DEF Alive
    <3>2. CASE t # s
      <4>1. link'[t] = link[t]
        BY <1>2, <3>2
      <4> QED
        BY SMT, <1>1, <2>2, <3>2, <4>1 DEF Alive
    <3> QED
      BY <3>1, <3>2
  <2> QED
    BY <2>1, <2>2
<1> QED
  BY <1>3 DEF Holds

\* A request or a close that begins as the invariant allows it.
LEMMA BeginStep ==
  ASSUME IInv, NEW w \in Workers, NEW s \in Sessions, NEW op, NEW r, NEW p, NEW n,
         Begin(w, s, op, r, p, n), op \notin {"idle", "login"},
         op = "join" => r \in AllRooms, op \in {"kick", "remove"} => r \in Rooms,
         op # "close" => s \in status /\ link[s] = "up" /\ UNCHANGED link,
         op = "close" => link[s] = "closing" /\ link' = [link EXCEPT ![s] = "gone"],
         UNCHANGED <<logins, status, authed, user, curRoom, rooms, owners>>
  PROVE  IInv'
<1>1. /\ DOMAIN job' = Workers /\ \A v \in Workers \ {w} : job'[v] = job[v]
      /\ DOMAIN job'[w] = DOMAIN Idle /\ job'[w].op = op
      /\ job'[w].s = s /\ job'[w].room = r
  BY SMT, Begun DEF IInv
<1>2. /\ \A t \in Sessions : (Holds(t) => Holds(t)') /\ (Alive(t)' => Alive(t))
      /\ \A t \in Sessions : HoldsIn(link, job, t) => HoldsIn(link', job', t)
  BY ClientHolds DEF IInv
<1>3. ASSUME NEW v \in Workers
      PROVE  JobShape(job'[v]) /\ JobOK(job[v])'
  <2>1. CASE v = w
    <3>1. JobShape(job'[w])
      BY <1>1 DEF JobShape
    <3>2. op # "close" => HoldsIn(link', job', s)
      BY DEF HoldsIn
    <3> QED
      BY <1>1, <2>1, <3>1, <3>2 DEF JobOK, Pending, Holds
  <2>2. CASE v # w
    <3>1. job'[v] = job[v] /\ JobShape(job[v]) /\ JobOK(job[v])
      BY <1>1, <2>2 DEF IInv, JInv, JobsOK
    <3>2. job[v].op # "idle" => job[v].s \in Sessions
      BY <3>1 DEF JobShape
    <3> QED
      BY <1>2, <3>1, <3>2 DEF JobOK, Holds
  <2> QED
    BY <2>1, <2>2
<1>4. LoginsOK'
  BY <1>1 DEF IInv, JInv, LoginsOK
<1>5. Types' /\ SessionsOK'
  BY <1>1 DEF IInv, JInv, Types, SessionsOK
<1>6. RInv'
  <2>1. RInv /\ RoomsStay /\ authed \subseteq Sessions
    BY StateStays DEF IInv, JInv, Types
  <2> QED
    BY <1>2, <2>1, StayRooms
<1> QED
  BY <1>3, <1>4, <1>5, <1>6 DEF IInv, JInv, JobsOK

\* A login of a client begins.
LEMMA LoginBegins ==
  ASSUME NoRelogin, IInv, NEW w \in Workers, NEW s \in Sessions, NEW n \in Names,
         RequestLogin(w, s, n)
  PROVE  IInv'
<1>1. /\ link[s] = "up" /\ logins' = [logins EXCEPT ![s] = @ + 1]
      /\ Begin(w, s, "login", Lobby, None, n)
      /\ UNCHANGED <<link, status, authed, user, curRoom, rooms, owners>>
  BY DEF RequestLogin, stateVars
<1>t. logins \in [Sessions -> Nat]
  BY DEF IInv, JInv, Types
<1>2. logins'[s] # 0 /\ \A t \in Sessions \ {s} : logins'[t] = logins[t]
  BY SMT, <1>1, <1>t
<1>3. /\ s \notin authed /\ s \notin status
      /\ \A v \in Workers : job[v].op = "login" => job[v].s # s
  BY DEF RequestLogin, NoRelogin, LoggedOut
<1>4. /\ DOMAIN job' = Workers /\ \A v \in Workers \ {w} : job'[v] = job[v]
      /\ DOMAIN job'[w] = DOMAIN Idle /\ job'[w].op = "login"
      /\ job'[w].s = s /\ job'[w].name = n
  BY SMT, <1>1, Begun DEF IInv
<1>5. /\ \A t \in Sessions : (Holds(t) => Holds(t)') /\ (Alive(t)' => Alive(t))
      /\ \A t \in Sessions : HoldsIn(link, job, t) => HoldsIn(link', job', t)
  BY <1>1, ClientHolds DEF IInv
<1>6. ASSUME NEW v \in Workers
      PROVE  JobShape(job'[v]) /\ JobOK(job[v])'
  <2>1. CASE v = w
    <3>1. JobShape(job'[w])
      BY <1>4 DEF JobShape
    <3> QED
      BY SMT, <1>1, <1>2, <1>3, <1>4, <2>1, <3>1 DEF JobOK
  <2>2. CASE v # w
    <3>1. job'[v] = job[v] /\ JobShape(job[v]) /\ JobOK(job[v])
      BY <1>4, <2>2 DEF IInv, JInv, JobsOK
    <3>2. job[v].op # "idle" => job[v].s \in Sessions
      BY <3>1 DEF JobShape
    <3>3. job[v].op = "login" => logins'[job[v].s] = logins[job[v].s]
      BY <1>2, <1>3, <3>2
    <3> QED
      BY <1>1, <1>5, <3>1, <3>2, <3>3 DEF JobOK, Holds
  <2> QED
    BY <2>1, <2>2
<1>7. LoginsOK'
  BY SMT, <1>3, <1>4 DEF IInv, JInv, LoginsOK
<1>8. Types' /\ SessionsOK'
  <2>1. logins' \in [Sessions -> Nat]
    BY SMT, <1>1, <1>t
  <2> QED
    BY <1>1, <1>2, <1>4, <2>1 DEF IInv, JInv, Types, SessionsOK
<1>9. RInv'
  <2>1. RInv /\ RoomsStay /\ authed \subseteq Sessions
    BY <1>1, StateStays DEF IInv, JInv, Types
  <2> QED
    BY <1>5, <2>1, StayRooms
<1> QED
  BY <1>6, <1>7, <1>8, <1>9 DEF IInv, JInv, JobsOK

\* A connection opens or ends.
LEMMA LinkStep ==
  ASSUME IInv, NEW s \in Sessions, Connect(s) \/ Disconnect(s)
  PROVE  IInv'
<1>1. /\ UNCHANGED <<status, logins, authed, user, curRoom, rooms, owners, job>>
      /\ \/ link[s] = "new" /\ link' = [link EXCEPT ![s] = "up"]
         \/ link[s] = "up" /\ link' = [link EXCEPT ![s] = "closing"]
  BY DEF Connect, Disconnect, stateVars
<1>t. link \in [Sessions -> {"new", "up", "closing", "gone"}] /\ authed \subseteq Sessions
  BY DEF IInv, JInv, Types
<1>2. /\ link'[s] \in {"up", "closing"} /\ (link[s] = "new" => s \notin authed)
      /\ \A t \in Sessions \ {s} : link'[t] = link[t]
  BY <1>1, <1>t DEF IInv, JInv, SessionsOK
<1>3. \A t \in Sessions : HoldsIn(link, job, t) => HoldsIn(link', job', t)
  BY <1>1, <1>2 DEF HoldsIn
<1>4. \A t \in Sessions : Holds(t) => Holds(t)'
  BY <1>3 DEF Holds
<1>5. \A t \in authed : Alive(t)' => Alive(t)
  BY <1>1, <1>2, <1>t DEF Alive
<1>6. JobsOK'
  <2>1. ASSUME NEW v \in Workers
        PROVE  JobShape(job'[v]) /\ JobOK(job[v])'
    <3>1. job'[v] = job[v] /\ JobShape(job[v]) /\ JobOK(job[v])
      BY <1>1 DEF IInv, JInv, JobsOK
    <3>2. job[v].op # "idle" => job[v].s \in Sessions
      BY <3>1 DEF JobShape
    <3> QED
      BY <1>1, <1>3, <3>1, <3>2 DEF JobOK, Holds
  <2> QED
    BY <2>1 DEF JobsOK
<1>7. LoginsOK' /\ Types' /\ SessionsOK'
  BY <1>1, <1>2, <1>t DEF IInv, JInv, LoginsOK, Types, SessionsOK
<1>8. RInv'
  <2>1. RInv /\ RoomsStay
    BY <1>1, StateStays DEF IInv
  <2> QED
    BY <1>4, <1>5, <2>1, StayRooms
<1> QED
  BY <1>6, <1>7, <1>8 DEF IInv, JInv

\* The requests of a client and the begin of its close.
LEMMA RequestSteps ==
  ASSUME IInv, NEW w \in Workers, NEW s \in Sessions,
         \/ RequestJoin(w, s) \/ RequestLeave(w, s) \/ RequestInvite(w, s)
         \/ RequestKick(w, s) \/ RequestRemove(w, s) \/ RequestRooms(w, s)
         \/ BeginClose(w, s)
  PROVE  IInv'
<1>1. CASE BeginClose(w, s)
  <2>1. /\ link[s] = "closing" /\ link' = [link EXCEPT ![s] = "gone"]
        /\ Begin(w, s, "close", None, None, None)
        /\ UNCHANGED <<logins, status, authed, user, curRoom, rooms, owners>>
    BY <1>1 DEF BeginClose, stateVars
  <2> DEFINE op == "close"
  <2>2. /\ op \notin {"idle", "login"} /\ op # "join" /\ op \notin {"kick", "remove"}
        /\ ~(op # "close") /\ Begin(w, s, op, None, None, None)
    BY <2>1
  <2> HIDE DEF op
  <2> QED
    BY <2>1, <2>2, BeginStep
<1>2. CASE ~BeginClose(w, s)
  <2>1. PICK op, r, p, n :
          /\ op \in {"join", "leave", "invite", "kick", "remove", "rooms"}
          /\ Request(w, s, op, r, p, n)
          /\ op = "join" => r \in AllRooms
          /\ op \in {"kick", "remove"} => r \in Rooms
    BY SMT, <1>2 DEF RequestJoin, RequestLeave, RequestInvite, RequestKick, RequestRemove,
                RequestRooms, AllRooms
  <2>2. /\ link[s] = "up" /\ s \in status /\ Begin(w, s, op, r, p, n) /\ UNCHANGED link
        /\ UNCHANGED <<logins, status, authed, user, curRoom, rooms, owners>>
    BY <2>1 DEF Request, stateVars
  <2> QED
    BY <2>1, <2>2, BeginStep
<1> QED
  BY <1>1, <1>2

-----------------------------------------------------------------------------
(* The theorems. *)

\* At the start nobody is connected and no job runs.
LEMMA RoomsInit ==
  ASSUME Init
  PROVE  IInv
<1>1. JobShape(Idle) /\ Idle.op = "idle"
  BY DEF JobShape, Idle
<1>2. JInv
  BY <1>1 DEF Init, JInv, Types, JobsOK, LoginsOK, SessionsOK, JobOK, Pending
<1>3. RInv
  BY DEF Init, RInv, RoomTypes, Placing, InPlace, Within, Held, Owned, AllRooms
<1> QED
  BY <1>2, <1>3 DEF IInv

\* Every step of a client or of a worker keeps the invariant.
LEMMA RoomsStep ==
  ASSUME NoRelogin, IInv, [Next]_vars
  PROVE  IInv'
<1>1. ASSUME NEW s \in Sessions, Client(s)
      PROVE  IInv'
  BY <1>1, LinkStep, LoginBegins, RequestSteps DEF Client
<1>2. ASSUME NEW w \in Workers, WorkerStep(w)
      PROVE  IInv'
  <2>1. CASE Aside(w)
    BY <2>1, QuietStep DEF Aside
  <2>2. CASE LoginStep(w)
    BY <2>1, <2>2, LoginAside, CommitStep, ReplyStep DEF LoginStep
  <2>3. CASE JoinStep(w) \/ LeaveStep(w) \/ CloseStep(w)
    BY <2>1, <2>3, RequestAside, JoinMoves, LeaveMoves, CloseMoves DEF JoinStep, LeaveStep, CloseStep
  <2>4. CASE SharedStep(w)
    BY <2>1, <2>4, SharedAside
  <2>5. CASE CommandStep(w)
    BY <2>1, <2>5, CommandAside, KickMoves, RemoveMoves DEF CommandStep
  <2> QED
    BY <1>2, <2>2, <2>3, <2>4, <2>5 DEF WorkerStep
<1>3. CASE UNCHANGED vars
  BY <1>3 DEF vars, clientVars, stateVars, IInv, JInv, Types, JobsOK, LoginsOK, SessionsOK, JobOK,
              Holds, RInv, RoomTypes, Placing, InPlace, Within, Held, Owned, Alive
<1> QED
  BY <1>1, <1>2, <1>3 DEF Next

\* The inductive invariant of rooms, sessions and jobs in flight.
THEOREM RoomsInvariant ==
  ASSUME NoRelogin
  PROVE  Spec => []IInv
<1>1. Init => IInv
  BY RoomsInit
<1>2. IInv /\ [Next]_vars => IInv'
  BY RoomsStep
<1> QED
  BY <1>1, <1>2, PTL DEF Spec

\* However the lock blocks of joins, leaves, kicks, removals and closes
\* interleave, an authenticated session that is alive is in the room cur_room
\* names and in no other.
THEOREM EveryonePlaced ==
  ASSUME NoRelogin
  PROVE  Spec => []Placed
<1>1. IInv => Placed
  BY SMT, RoomsAssumption DEF IInv, JInv, Types, RInv, Placing, InPlace, Within, Placed
<1> QED
  BY <1>1, RoomsInvariant, PTL

\* The owner of a room is the name of a live session in the room, whoever
\* leaves, is kicked or is disconnected.
THEOREM OwnersInside ==
  ASSUME NoRelogin
  PROVE  Spec => []OwnerIsMember
<1>1. IInv => OwnerIsMember
  BY HoldsAlive DEF IInv, RInv, Held, Owned, OwnerIsMember
<1> QED
  BY <1>1, RoomsInvariant, PTL
=============================================================================
