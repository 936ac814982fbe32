------------------------------ MODULE LoadGen ------------------------------
(***************************************************************************)
(* The load generator (tools/loadgen): run_scenario sets the sessions up   *)
(* one after another on the main thread, then one worker thread per        *)
(* session runs its workload until the deadline.  A session is a           *)
(* TcpSessionClient, alone or with a UDP bind or a RUDP attach; its io     *)
(* thread turns frames into events, and the thread that asked waits on the *)
(* condition variable for a matching event, an error, a disconnect or the  *)
(* timeout.  The server answers each request, refuses it, or stays silent. *)
(***************************************************************************)
EXTENDS Integers, Sequences, FiniteSets, SequencesExt, FiniteSetsExt

CONSTANTS
    Plans,      \* scenarios: sequences of [transport, mode, join]
    MaxOps,     \* chats or pings per session (bound)
    MaxNoise    \* events nobody waits for, per run (bound)

Transports == {"tcp", "udp", "rudp"}
Modes == {"chat", "ping", "login_only"}

(* validate_group: UDP and RUDP sessions only log in.                      *)
Valid(a) ==
    /\ a.transport \in Transports /\ a.mode \in Modes
    /\ a.transport # "tcp" => a.mode = "login_only" /\ ~a.join

(* load_scenario refuses an empty scenario and a group that is not valid.  *)
Loaded(p) == p # <<>> /\ \A k \in DOMAIN p : Valid(p[k])

VARIABLES
    plan,       \* the scenario
    main,       \* main thread: [pc, cur]
    work,       \* work[i]: pc of the worker of session i
    sock,       \* sock[i]: the connect in progress or its result
    connected, closing, auth,   \* the flags of the client, per session
    asked,      \* requests the server has not answered: set of [kind, tag]
    events,     \* events_ of session i: sequence of [kind, tag]
    req,        \* request the thread of session i waits for, tag 0 if none
    ops,        \* operations started
    over,       \* run_deadline has passed
    noise,      \* events of nobody so far
    count,      \* MetricsCollector and TransportStats
    failed,     \* history: sessions whose set-up or workload failed
    foreign     \* history: an answer was taken for another request

vars == <<plan, main, work, sock, connected, closing, auth, asked, events,
          req, ops, over, noise, count, failed, foreign>>
net == <<asked, events>>

Sessions == DOMAIN plan
Kinds == {"login", "ticket", "join", "chat", "ping"}
Setup == {"connect", "connecting", "login", "ticket", "bind", "attach", "join"}

(* expand_assignments, record_session_planned, run_deadline.               *)
NoCounts == [connected |-> 0, connect_failures |-> 0, authenticated |-> 0,
             login_failures |-> 0, attach_failures |-> 0, joined |-> 0,
             join_failures |-> 0, success |-> 0, errors |-> 0, op_errors |-> 0,
             binds |-> 0, bind_ok |-> 0, bind_failed |-> 0,
             attaches |-> 0, attach_ok |-> 0, fallbacks |-> 0]

Init ==
    /\ plan \in Plans
    /\ main = [pc |-> "connect", cur |-> 1]
    /\ work = [i \in Sessions |-> "none"]
    /\ sock = [i \in Sessions |-> "none"]
    /\ connected = [i \in Sessions |-> FALSE]
    /\ closing = [i \in Sessions |-> FALSE]
    /\ auth = [i \in Sessions |-> FALSE]
    /\ asked = [i \in Sessions |-> {}]
    /\ events = [i \in Sessions |-> <<>>]
    /\ req = [i \in Sessions |-> [kind |-> "none", tag |-> 0]]
    /\ ops = [i \in Sessions |-> 0]
    /\ over = FALSE /\ noise = 0
    /\ count = NoCounts
    /\ failed = {} /\ foreign = FALSE

Add(c, fields) == [f \in DOMAIN c |-> IF f \in fields THEN c[f] + 1 ELSE c[f]]

cur == main.cur
At(pc) == main.pc = pc

(* The next session, or, after the last one, the join of the workers.      *)
NextSession ==
    main' = IF cur < Len(plan) THEN [pc |-> "connect", cur |-> cur + 1]
                               ELSE [main EXCEPT !.pc = "join_workers"]

-----------------------------------------------------------------------------
(* The io thread and the server.                                           *)

(* async_resolve and async_connect complete: the handler sets connected_,  *)
(* whatever the main thread has done meanwhile, while the io thread runs.  *)
ConnectHandler(i) ==
    /\ sock[i] = "connecting"
    /\ \/ /\ sock' = [sock EXCEPT ![i] = "open"]
          /\ connected' = [connected EXCEPT ![i] = TRUE]
       \/ sock' = [sock EXCEPT ![i] = "refused"] /\ UNCHANGED connected
    /\ UNCHANGED <<plan, main, work, closing, auth, net, req, ops, over, noise, count, failed, foreign>>

Push(i, e) == events' = [events EXCEPT ![i] = Append(@, e)]

(* What handle_frame makes of the answer to a request: the event of its   *)
(* kind, an error event for MSG_ERR, and for MSG_UDP_BIND_RES a ticket, a  *)
(* refusal, or an error event when the payload does not parse.             *)
EventsOf(kind) == {kind, "error"} \cup (IF kind = "ticket" THEN {"refusal"} ELSE {})

(* The gateway sends the bind ticket after the login of its own accord.    *)
Promised(i, r) ==
    IF r.kind = "login" /\ plan[i].transport # "tcp"
      THEN {[kind |-> "ticket", tag |-> r.tag]} ELSE {}

ServerAnswers(i) ==
    /\ connected[i] /\ sock[i] = "open"
    /\ \E r \in asked[i] :
        /\ asked' = [asked EXCEPT ![i] = (@ \ {r}) \cup Promised(i, r)]
        /\ \E kind \in EventsOf(r.kind) : Push(i, [kind |-> kind, tag |-> r.tag])
    /\ UNCHANGED <<plan, main, work, sock, connected, closing, auth, req, ops, over, noise, count, failed, foreign>>

(* A snapshot, a notice of the room: events nobody waits for.              *)
Noise(i) ==
    /\ noise < MaxNoise
    /\ connected[i] /\ sock[i] = "open"
    /\ noise' = noise + 1
    /\ \E kind \in {"snapshot", "error"} : Push(i, [kind |-> kind, tag |-> 0])
    /\ UNCHANGED <<plan, main, work, sock, connected, closing, auth, asked, req, ops, over, count, failed, foreign>>

(* handle_disconnect: a failed read or write while the client is in use.   *)
Disconnect(i) ==
    /\ sock[i] = "open" /\ ~closing[i] /\ connected[i]
    /\ connected' = [connected EXCEPT ![i] = FALSE]
    /\ asked' = [asked EXCEPT ![i] = {}]
    /\ UNCHANGED <<plan, main, work, sock, closing, auth, events, req, ops, over, noise, count, failed, foreign>>

-----------------------------------------------------------------------------
(* Waiting.                                                                *)

(* enqueue_packet: dropped when the connection is gone.                    *)
Request(i, kind) ==
    LET r == [kind |-> kind, tag |-> req[i].tag + 1] IN
    /\ req' = [req EXCEPT ![i] = r]
    /\ asked' = IF connected[i] THEN [asked EXCEPT ![i] = @ \cup {r}] ELSE asked

WithoutAt(s, k) == SubSeq(s, 1, k - 1) \o SubSeq(s, k + 1, Len(s))

(* wait_for_event: the first event that matches is taken.                  *)
Matching(i, kinds) == {k \in DOMAIN events[i] : events[i][k].kind \in kinds}
Errors(i) == Matching(i, {"error"})

WaitMatches(i, kinds) ==
    /\ Matching(i, kinds) # {}
    /\ LET k == Min(Matching(i, kinds)) IN
        /\ events' = [events EXCEPT ![i] = WithoutAt(@, k)]
        /\ foreign' = (foreign \/ events[i][k].tag # req[i].tag)

(* No match: an error event is consumed, or the connection is gone.  The   *)
(* timeout is reported without another look at the events: an answer that  *)
(* came meanwhile stays behind.                                            *)
WaitFails(i, kinds) ==
    /\ foreign' = foreign
    /\ \/ /\ Matching(i, kinds) = {} /\ Errors(i) # {}
          /\ events' = [events EXCEPT ![i] = WithoutAt(@, Min(Errors(i)))]
       \/ UNCHANGED events

-----------------------------------------------------------------------------
(* Set-up, on the main thread.                                             *)

(* connect: close, reset_state, async_resolve, start the io thread.        *)
StartConnect ==
    /\ At("connect")
    /\ main' = [main EXCEPT !.pc = "connecting"]
    /\ sock' = [sock EXCEPT ![cur] = "connecting"]
    /\ UNCHANGED <<plan, work, connected, closing, auth, net, req, ops, over, noise, count, failed, foreign>>

(* The future is ready, without an error; a UDP or RUDP client opens its   *)
(* UDP socket as well.                                                     *)
ConnectOk ==
    /\ At("connecting") /\ sock[cur] = "open"
    /\ main' = [main EXCEPT !.pc = "login"]
    /\ Request(cur, "login")
    /\ count' = Add(count, {"connected"})
    /\ UNCHANGED <<plan, work, sock, connected, closing, auth, events, ops, over, noise, failed, foreign>>

(* The error or the timeout, of the connection or, once that is open, of   *)
(* the UDP socket.  The client is closed in two steps, for the connect     *)
(* handler may run between them.                                           *)
ConnectFails ==
    /\ At("connecting")
    /\ main' = [main EXCEPT !.pc = "close"]
    /\ closing' = [closing EXCEPT ![cur] = TRUE]
    /\ connected' = [connected EXCEPT ![cur] = FALSE]
    /\ failed' = failed \cup {cur}
    /\ count' = Add(count, {"connect_failures", "errors"})
    /\ UNCHANGED <<plan, work, sock, auth, net, req, ops, over, noise, foreign>>

(* close, second half: the socket is closed and the io thread joined.      *)
CloseFailed ==
    /\ At("close")
    /\ sock' = [sock EXCEPT ![cur] = "closed"]
    /\ asked' = [asked EXCEPT ![cur] = {}]
    /\ NextSession
    /\ UNCHANGED <<plan, work, connected, closing, auth, events, req, ops, over, noise, count, failed, foreign>>

(* A set-up step failed: the failure is recorded and the client closed.    *)
SetupFails(fields) ==
    /\ main' = [main EXCEPT !.pc = "close"]
    /\ closing' = [closing EXCEPT ![cur] = TRUE]
    /\ connected' = [connected EXCEPT ![cur] = FALSE]
    /\ failed' = failed \cup {cur}
    /\ count' = Add(count, fields \cup {"errors"})

(* The workload of the session starts on its own thread.                   *)
SpawnWorker ==
    /\ work' = [work EXCEPT ![cur] = "run"]
    /\ NextSession

LoginOk ==
    /\ At("login")
    /\ WaitMatches(cur, {"login"})
    /\ auth' = [auth EXCEPT ![cur] = TRUE]
    /\ \/ /\ plan[cur].transport # "tcp"
          /\ main' = [main EXCEPT !.pc = "ticket"]
          /\ UNCHANGED <<work, asked, req, count>>
       \/ /\ plan[cur].transport = "tcp" /\ plan[cur].join
          /\ main' = [main EXCEPT !.pc = "join"]
          /\ Request(cur, "join")
          /\ count' = Add(count, {"authenticated"})
          /\ UNCHANGED work
       \/ /\ plan[cur].transport = "tcp" /\ ~plan[cur].join
          /\ SpawnWorker
          /\ count' = Add(count, {"authenticated"})
          /\ UNCHANGED <<asked, req>>
    /\ UNCHANGED <<plan, sock, connected, closing, ops, over, noise, failed>>

LoginFails ==
    /\ At("login")
    /\ WaitFails(cur, {"login"})
    /\ SetupFails({"login_failures"})
    /\ UNCHANGED <<plan, work, sock, auth, asked, req, ops, over, noise>>

(* run_scenario after a login that failed past authentication.             *)
AttachFailure == {"authenticated", "attach_failures"}

(* wait_for_udp_bind_ticket: a ticket, and the bind request is sent, or    *)
(* sending it fails; a refusal; no ticket.                                 *)
TicketOk ==
    /\ At("ticket")
    /\ WaitMatches(cur, {"ticket"})
    /\ \/ /\ main' = [main EXCEPT !.pc = "bind"]
          /\ count' = Add(count, {"binds"})
          /\ UNCHANGED <<connected, closing, failed>>
       \/ SetupFails(AttachFailure \cup {"binds", "bind_failed"})
    /\ UNCHANGED <<plan, work, sock, auth, asked, req, ops, over, noise>>

TicketFails ==
    /\ At("ticket")
    /\ WaitMatches(cur, {"refusal"}) \/ WaitFails(cur, {"ticket", "refusal"})
    /\ SetupFails(AttachFailure)
    /\ UNCHANGED <<plan, work, sock, auth, asked, req, ops, over, noise>>

(* The answer to the bind request: a UDP session is set up, a RUDP session *)
(* goes on to the attach.                                                  *)
UdpBindOk ==
    /\ At("bind") /\ plan[cur].transport = "udp"
    /\ SpawnWorker
    /\ count' = Add(count, {"bind_ok", "authenticated"})
    /\ UNCHANGED <<plan, sock, connected, closing, auth, net, req, ops, over, noise, failed, foreign>>

RudpBindOk ==
    /\ At("bind") /\ plan[cur].transport = "rudp"
    /\ main' = [main EXCEPT !.pc = "attach"]
    /\ count' = Add(count, {"bind_ok", "attaches"})
    /\ UNCHANGED work
    /\ UNCHANGED <<plan, sock, connected, closing, auth, net, req, ops, over, noise, failed, foreign>>

BindFailure == {"bind_failed"}

(* wait_for_udp_bind_response: datagrams that are short, of another length,*)
(* opcode or sequence number are skipped; a refusal, a payload that does   *)
(* not parse, a socket error or the timeout ends the wait.                 *)
BindFails ==
    /\ At("bind")
    /\ SetupFails(AttachFailure \cup BindFailure)
    /\ UNCHANGED <<plan, work, sock, auth, net, req, ops, over, noise, foreign>>

UdpBindFails == plan[cur].transport = "udp" /\ BindFails
RudpBindFails == plan[cur].transport = "rudp" /\ BindFails

(* wait_for_rudp_attach_result: the engine reports the handshake           *)
(* established, or a fallback, or the time is over, which is a fallback    *)
(* too; all three count as attached.                                       *)
AttachEnds ==
    /\ At("attach")
    /\ SpawnWorker
    /\ \E result \in {"attach_ok", "fallbacks"} : count' = Add(count, {result, "authenticated"})
    /\ UNCHANGED <<plan, sock, connected, closing, auth, net, req, ops, over, noise, failed, foreign>>

(* The Hello or an answer cannot be sent, or the socket reports an error.  *)
AttachFails ==
    /\ At("attach")
    /\ SetupFails(AttachFailure)
    /\ UNCHANGED <<plan, work, sock, auth, net, req, ops, over, noise, foreign>>

JoinOk ==
    /\ At("join")
    /\ WaitMatches(cur, {"join"})
    /\ SpawnWorker
    /\ count' = Add(count, {"joined"})
    /\ UNCHANGED <<plan, sock, connected, closing, auth, asked, req, ops, over, noise, failed>>

JoinFails ==
    /\ At("join")
    /\ WaitFails(cur, {"join"})
    /\ SetupFails({"join_failures"})
    /\ UNCHANGED <<plan, work, sock, auth, asked, req, ops, over, noise>>

-----------------------------------------------------------------------------
(* run_session_workload, on the worker thread.                             *)

EndWork(i) == work' = [work EXCEPT ![i] = "ended"]

(* login_only: the connection is looked at every 250 ms.                   *)
Idle(i) ==
    /\ work[i] = "run" /\ plan[i].mode = "login_only"
    /\ \/ /\ over
          /\ UNCHANGED <<count, failed>>
       \/ /\ ~over /\ ~connected[i]
          /\ count' = Add(count, {"op_errors", "errors"})
          /\ failed' = failed \cup {i}
    /\ EndWork(i)
    /\ UNCHANGED <<plan, main, sock, connected, closing, auth, net, req, ops, over, noise, foreign>>

StartOp(i) ==
    /\ work[i] = "run" /\ plan[i].mode # "login_only" /\ ~over
    /\ ops[i] < MaxOps
    /\ ops' = [ops EXCEPT ![i] = @ + 1]
    /\ work' = [work EXCEPT ![i] = "wait"]
    /\ Request(i, plan[i].mode)
    /\ UNCHANGED <<plan, main, sock, connected, closing, auth, events, over, noise, count, failed, foreign>>

OpOk(i) ==
    /\ work[i] = "wait"
    /\ WaitMatches(i, {plan[i].mode})
    /\ work' = [work EXCEPT ![i] = "run"]
    /\ count' = Add(count, {"success"})
    /\ UNCHANGED <<plan, main, sock, connected, closing, auth, asked, req, ops, over, noise, failed>>

(* After a failed operation the workload ends: an answer that comes late   *)
(* finds nobody.                                                           *)
AfterFailureGoOn == "run"

AfterFailure == "ended"

OpFails(i) ==
    /\ work[i] = "wait"
    /\ WaitFails(i, {plan[i].mode})
    /\ work' = [work EXCEPT ![i] = AfterFailure]
    /\ count' = Add(count, {"op_errors", "errors"})
    /\ failed' = failed \cup {i}
    /\ UNCHANGED <<plan, main, sock, connected, closing, auth, asked, req, ops, over, noise>>

WorkOver(i) ==
    /\ work[i] = "run" /\ plan[i].mode # "login_only" /\ over
    /\ EndWork(i)
    /\ UNCHANGED <<plan, main, sock, connected, closing, auth, net, req, ops, over, noise, count, failed, foreign>>

(* The deadline of the run passes.                                         *)
Deadline ==
    /\ ~over
    /\ over' = TRUE
    /\ UNCHANGED <<plan, main, work, sock, connected, closing, auth, net, req, ops, noise, count, failed, foreign>>

-----------------------------------------------------------------------------
(* The workers are joined, every client is closed, the summary is made.    *)
Finalize ==
    /\ At("join_workers")
    /\ \A i \in Sessions : work[i] \in {"none", "ended"}
    /\ main' = [main EXCEPT !.pc = "done"]
    /\ closing' = [i \in Sessions |-> TRUE]
    /\ connected' = [i \in Sessions |-> FALSE]
    /\ sock' = [i \in Sessions |-> "closed"]
    /\ asked' = [i \in Sessions |-> {}]
    /\ UNCHANGED <<plan, work, auth, events, req, ops, over, noise, count, failed, foreign>>

Done == At("done") /\ UNCHANGED vars

Setups ==
    \/ StartConnect \/ ConnectOk \/ ConnectFails \/ CloseFailed
    \/ LoginOk \/ LoginFails \/ TicketOk \/ TicketFails
    \/ UdpBindOk \/ UdpBindFails \/ RudpBindOk \/ RudpBindFails
    \/ AttachEnds \/ AttachFails \/ JoinOk \/ JoinFails
    \/ Finalize
Works(i) == Idle(i) \/ OpOk(i) \/ OpFails(i) \/ WorkOver(i)

Next ==
    \/ Setups \/ Deadline \/ Done
    \/ \E i \in Sessions :
        \/ ConnectHandler(i) \/ ServerAnswers(i) \/ Noise(i)
        \/ Disconnect(i) \/ StartOp(i) \/ Works(i)

Spec == Init /\ [][Next]_vars

-----------------------------------------------------------------------------
(* The variables have their types.                                         *)
TypeOK ==
    /\ main.cur \in Sessions
    /\ main.pc \in Setup \cup {"close", "join_workers", "done"}
    /\ \A i \in Sessions :
        /\ work[i] \in {"none", "run", "wait", "ended"}
        /\ sock[i] \in {"none", "connecting", "open", "refused", "closed"}
        /\ {connected[i], closing[i], auth[i]} \subseteq BOOLEAN
        /\ \A r \in asked[i] : r.kind \in Kinds /\ r.tag \in 1 .. req[i].tag
        /\ ops[i] \in 0 .. MaxOps
    /\ failed \subseteq Sessions

(* The answer a thread takes is the answer to the request it made: a late  *)
(* answer to an earlier request is never taken for it (wait_for_event      *)
(* compares only the kind of the event).                                   *)
AnswersMatch == ~foreign
=============================================================================
