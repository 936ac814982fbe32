------------------------------ MODULE Gateway ------------------------------
(***************************************************************************)
(* One gateway process (gateway/src/gateway_app.cpp,                       *)
(* gateway/src/gateway_connection.cpp): admission of client connections,   *)
(* the login handshake, the backend connection with its connect timer,     *)
(* retries and send queue, the circuit breaker, retry budget and token     *)
(* bucket they share, and the UDP side of a session: bind ticket, bind     *)
(* request, abuse guard, sequenced datagrams and the RUDP fallback flag.   *)
(*                                                                         *)
(* GatewayApp::run calls hive_->run() on one thread, so a completion       *)
(* handler is one atomic step and the interleaving is that of the handlers *)
(* waiting in the io_context.  Cancelling a timer does not recall a        *)
(* handler that is already queued, and closing a socket queues the connect *)
(* handler with operation_aborted: both are kept.                          *)
(***************************************************************************)
EXTENDS Integers, Sequences, FiniteSets

CONSTANTS
    Conns,          \* client TCP connections, each accepted at most once
    Endpoints,      \* UDP endpoints of clients
    Menus,          \* what a behaviour exercises: [kinds, conns, time,
                    \* sends] bound the kinds of input, the connections accepted,
                    \* the clock and the chunks sent after a login
    MaxSeq,         \* sequence numbers of UNRELIABLE_SEQUENCED datagrams
    MaxSessions,    \* ingress_max_active_sessions_
    Burst,          \* burst of the ingress token bucket
    FailThreshold, OpenFor,        \* backend_circuit_breaker_
    RetryBudget, BudgetWindow,     \* backend_retry_budget_
    QMax,           \* send_queue_max_bytes_, a chunk is one unit
    PreMax,         \* kMaxHandshakeBytes, in frames
    BackoffBase, BackoffMax,       \* backend connect and UDP bind backoff
    BindAttempts,   \* udp_bind_retry_max_attempts_
    TicketTtl,      \* udp_bind_ttl_ms_
    FailWindow, FailLimit, BlockFor, \* udp_bind_abuse_guard_
    MaxCharges      \* failed binds charged to an endpoint between two good ones

(* configure_gateway: the values the environment may set, as the parser    *)
(* bounds them (parse_env_u32_bounded falls back to the default outside    *)
(* its range) and as the clamps that follow correct them.                  *)
BackendConfigured ==
    /\ {QMax, FailThreshold, OpenFor, MaxSessions, Burst} \subseteq Nat \ {0}
    /\ {RetryBudget, BudgetWindow, PreMax} \subseteq Nat
    /\ BackoffBase \in Nat \ {0} /\ BackoffMax \in Nat /\ BackoffMax >= BackoffBase
UdpConfigured ==
    /\ {TicketTtl, FailWindow, BlockFor, BindAttempts} \subseteq Nat \ {0}
    /\ FailLimit \in Nat /\ FailLimit >= 2
    /\ MaxSeq \in Nat

ASSUME GatewayAssumption == BackendConfigured /\ UdpConfigured

VARIABLES
    menu,       \* the inputs of this behaviour
    now,        \* the clock, from 1 (0 means "unset" throughout the code)
    running,    \* the io_context runs
    healthy,    \* app_host_ ready and healthy, fed by the Redis probe
    bucket,     \* ingress_token_bucket_
    breaker,    \* backend_circuit_breaker_
    budget,     \* backend_retry_budget_
    conn,       \* phase of each GatewayConnection
    pre,        \* frames in prebuffer_ before the login
    back,       \* the BackendConnection of each connection in sessions_
    sent,       \* chunks the client has handed to the gateway for the backend
    wrote,      \* chunks whose write to the present backend socket completed, in order
    lost,       \* how many chunks went to backend sockets that were closed since
    udp,        \* UDP part of SessionState
    guard,      \* udp_bind_abuse_guard_ entries
    faults,     \* per endpoint, when it was charged a failed bind, since its last good one
    passed      \* sequence numbers forwarded since the last bind

tcpvars == <<bucket, breaker, budget, conn, pre, back, sent, wrote, lost>>
udpvars == <<udp, guard, faults, passed>>
vars == <<menu, now, running, healthy, tcpvars, udpvars>>

Asks(kind) == running /\ kind \in menu.kinds

Min2(a, b) == IF a < b THEN a ELSE b

NoBack == [st |-> "none", timer |-> "off", aborted |-> FALSE, attempt |-> 0,
           at |-> 0, queue |-> <<>>, writing |-> FALSE, late |-> {}, cut |-> FALSE]
NoUdp == [expires |-> 0, bound |-> FALSE, ep |-> "none", fails |-> 0, after |-> 0,
          seq |-> -1, rudp |-> FALSE, fallback |-> FALSE]

(* sessions_: create_backend_connection adds the entry, and only the       *)
(* disconnect of the client connection (or stop) erases it.                *)
Sessions == {c \in Conns : back[c].st # "none"}

(***************************************************************************)
(* resilience_controls.hpp.                                                *)
(***************************************************************************)

(* TokenBucket::refill_locked: one token per tick up to the burst; the     *)
(* first call only starts the clock.                                       *)
Refilled(b) ==
    IF b.last = 0 THEN [b EXCEPT !.last = now]
    ELSE IF now <= b.last THEN b
    ELSE [tokens |-> Min2(Burst, b.tokens + (now - b.last)), last |-> now]

(* RetryBudget::roll_window_locked: a fixed window, restarted by the first *)
(* consume after it has ended.                                             *)
Rolled(b) ==
    IF b.start = 0 THEN [b EXCEPT !.start = now]
    ELSE IF now - b.start >= BudgetWindow THEN [start |-> now, used |-> 0]
    ELSE b

(* CircuitBreaker::is_open and allow: an elapsed open window is cleared by *)
(* the call that looks.                                                    *)
IsOpen(b) == b.until # 0 /\ now < b.until
Cooled(b) == IF b.until # 0 /\ now >= b.until THEN [fails |-> 0, until |-> 0] ELSE b

(* CircuitBreaker::record_failure: ignored while open, opens at the        *)
(* threshold.                                                              *)
Failed(b) ==
    IF IsOpen(b) THEN b
    ELSE IF Cooled(b).fails + 1 >= FailThreshold
    THEN [fails |-> 0, until |-> now + OpenFor]
    ELSE [Cooled(b) EXCEPT !.fails = @ + 1]

(* backend_retry_delay and udp_bind_retry_delay_ms: doubling from the      *)
(* base, at most eight doublings, capped.                                  *)
Backoff(attempt) ==
    Min2(BackoffBase * 2^(IF attempt = 0 THEN 0 ELSE Min2(attempt, 8) - 1), BackoffMax)

(***************************************************************************)
(* The end of a client connection.                                         *)
(***************************************************************************)

(* stop() of the client connection runs on_disconnect inline:              *)
(* close_backend_connection erases the session and closes the backend      *)
(* connection, which drops its queue, cancels its timers and turns every   *)
(* handler still queued for it into a no-op.  (When the client's strand is *)
(* busy this waits for it, as a ClientGone that comes later does.)         *)
EndForgotten(c) ==
    /\ conn' = [conn EXCEPT ![c] = "gone"]
    /\ pre' = [pre EXCEPT ![c] = 0]
    /\ UNCHANGED <<back, udp, passed>>
End(c) ==
    /\ conn' = [conn EXCEPT ![c] = "gone"]
    /\ pre' = [pre EXCEPT ![c] = 0]
    /\ back' = [back EXCEPT ![c] = NoBack]
    /\ udp' = [udp EXCEPT ![c] = NoUdp]
    /\ passed' = [passed EXCEPT ![c] = <<>>]

(***************************************************************************)
(* Accepting and the handshake.                                            *)
(***************************************************************************)

(* admit_ingress_connection, in the order of its checks.                   *)
Admission ==
    IF ~healthy THEN "not_ready"
    ELSE IF IsOpen(breaker) THEN "circuit_open"
    ELSE IF MaxSessions > 0 /\ Cardinality(Sessions) >= MaxSessions THEN "session_limit"
    ELSE IF Refilled(bucket).tokens < 1 THEN "rate_limited"
    ELSE "accept"

(* GatewayConnection::on_connect.                                          *)
OnConnect(c) ==
    /\ Asks("conn") /\ conn[c] = "none"
    /\ Cardinality({d \in Conns : conn[d] # "none"}) < menu.conns
    /\ conn' = [conn EXCEPT ![c] = IF Admission = "accept" THEN "login" ELSE "gone"]
    /\ breaker' = IF healthy THEN Cooled(breaker) ELSE breaker
    /\ bucket' = CASE Admission = "accept" -> [Refilled(bucket) EXCEPT !.tokens = @ - 1]
                   [] Admission = "rate_limited" -> Refilled(bucket)
                   [] OTHER -> bucket
    /\ UNCHANGED <<menu, now, running, healthy, budget, pre, back, sent, wrote, lost, udpvars>>

(* on_read while waiting for the login: a frame that does not complete the *)
(* handshake (part of a frame) stays in the prebuffer, and the buffer limit*)
(* ends the connection.  PING and PONG are answered and erased.            *)
ReadPartial(c) ==
    /\ Asks("partial") /\ conn[c] = "login"
    /\ IF pre[c] + 1 > PreMax
       THEN End(c)
       ELSE pre' = [pre EXCEPT ![c] = @ + 1] /\ UNCHANGED <<conn, back, udp, passed>>
    /\ UNCHANGED <<menu, now, running, healthy, bucket, breaker, budget, sent, wrote, lost, guard, faults>>

(* A first frame that is not a login, a login that does not parse or does  *)
(* not authenticate, or an anonymous login where none is allowed.          *)
ReadRefused(c) ==
    /\ Asks("refuse") /\ conn[c] = "login"
    /\ End(c)
    /\ UNCHANGED <<menu, now, running, healthy, bucket, breaker, budget, sent, wrote, lost, guard, faults>>

(* start_handshake_deadline: the 3 s timer.                                *)
HandshakeTimeout(c) ==
    /\ running /\ conn[c] = "login"
    /\ End(c)
    /\ UNCHANGED <<menu, now, running, healthy, bucket, breaker, budget, sent, wrote, lost, guard, faults>>

(* make_udp_bind_ticket_frame: issued in the same handler as the login; the*)
(* rollout policy decides whether the session may use RUDP.                *)
Ticket(rudp) ==
    [NoUdp EXCEPT !.expires = now + TicketTtl, !.rudp = rudp]

(* The chunks before it and the login itself go to the backend as one      *)
(* payload: send() refuses what does not fit the queue and closes.         *)
Fits(queue) == QMax = 0 \/ Len(queue) < QMax

(* try_finish_handshake with a good login: open_backend_connection asks    *)
(* the circuit and select_best_server, creates the session and starts to   *)
(* resolve; the raw bytes wait in the send queue.                          *)
FinishHandshake(c) ==
    /\ Asks("login") /\ conn[c] = "login"
    /\ breaker' = Cooled(breaker)
    /\ \/ /\ IsOpen(breaker)
          /\ End(c)
          /\ UNCHANGED <<sent, wrote, lost>>
       \/ /\ ~IsOpen(breaker) /\ "noserver" \in menu.kinds   \* none ready, or over the queue limit
          /\ End(c)
          /\ UNCHANGED <<sent, wrote, lost>>
       \/ /\ ~IsOpen(breaker)
          /\ \E rudp \in IF "rudp" \in menu.kinds THEN BOOLEAN ELSE {FALSE} :
                udp' = [udp EXCEPT ![c] = Ticket(rudp)]
          /\ conn' = [conn EXCEPT ![c] = "bridge"]
          /\ pre' = [pre EXCEPT ![c] = 0]
          /\ back' = [back EXCEPT ![c] = [NoBack EXCEPT !.st = "resolving", !.queue = <<1>>]]
          /\ sent' = [sent EXCEPT ![c] = 1]
          /\ UNCHANGED <<wrote, lost, passed>>
    /\ UNCHANGED <<menu, now, running, healthy, bucket, budget, guard, faults>>

(* The client closes or its socket fails: stop() and on_disconnect.        *)
ClientGone(c) ==
    /\ Asks("leave") /\ conn[c] \in {"login", "bridge"}
    /\ End(c)
    /\ UNCHANGED <<menu, now, running, healthy, bucket, breaker, budget, sent, wrote, lost, guard, faults>>

(***************************************************************************)
(* BackendConnection.                                                      *)
(***************************************************************************)

(* schedule_connect_retry: with budget left, the socket is closed (which   *)
(* aborts a connect still pending), the queue is kept and the retry timer  *)
(* is set; without it handle_backend_close ends the client connection.     *)
RetryScheduledEmpty(b, late) ==
    [b EXCEPT !.st = "retry", !.attempt = @ + 1, !.at = now + Backoff(b.attempt + 1),
              !.writing = FALSE, !.aborted = @ \/ b.st = "connecting", !.late = @ \cup late,
              !.queue = <<>>]
RetryScheduled(b, late) ==
    [b EXCEPT !.st = "retry", !.attempt = @ + 1, !.at = now + Backoff(b.attempt + 1),
              !.writing = FALSE, !.aborted = @ \/ b.st = "connecting", !.late = @ \cup late]

(* What may be queued already when the socket is closed: the completion of *)
(* the write in progress ("wrote"), and that of a read, after which        *)
(* do_read fails on the closed socket ("broken").  A read or a write that  *)
(* is still pending is aborted, and its handler does nothing.              *)
Completed(b) ==
    IF b.st = "up"
    THEN SUBSET ({"broken"} \cup {x \in {"wrote"} : b.writing})
    ELSE {{}}

RetryOrEnd(c, b) ==
    /\ breaker' = Failed(breaker)
    /\ IF Rolled(budget).used >= RetryBudget
       THEN budget' = Rolled(budget) /\ End(c) /\ UNCHANGED <<wrote, lost>>
       ELSE /\ budget' = [Rolled(budget) EXCEPT !.used = @ + 1]
            /\ \E late \in Completed(b) : back' = [back EXCEPT ![c] = RetryScheduled(b, late)]
            /\ wrote' = [wrote EXCEPT ![c] = <<>>]
            /\ lost' = [lost EXCEPT ![c] = @ + Len(wrote[c])]
            /\ UNCHANGED <<conn, pre, udp, passed>>
    /\ UNCHANGED <<menu, now, running, healthy, bucket, sent, guard, faults>>

(* The resolve handler: failure, or the connect timer and async_connect    *)
(* start together.                                                         *)
ResolveFails(c) ==
    /\ Asks("fail") /\ back[c].st = "resolving"
    /\ RetryOrEnd(c, back[c])
ResolveDone(c) ==
    /\ Asks("dial") /\ back[c].st = "resolving"
    /\ back' = [back EXCEPT ![c].st = "connecting", ![c].timer = "armed"]
    /\ UNCHANGED <<menu, now, running, healthy, bucket, breaker, budget, conn, pre, sent, wrote, lost, udpvars>>

(* connect_timer_ expires: its handler is queued and can no longer be      *)
(* recalled by cancel().                                                   *)
ConnectTimerExpires(c) ==
    /\ running /\ back[c].timer = "armed"
    /\ back' = [back EXCEPT ![c].timer = "queued"]
    /\ UNCHANGED <<menu, now, running, healthy, bucket, breaker, budget, conn, pre, sent, wrote, lost, udpvars>>

(* on_connect_timeout runs whatever the state of the connection is by then,*)
(* unless it was closed: one that is established is cut.                   *)
OnConnectTimeout(c) ==
    /\ running /\ back[c].timer = "queued"
    /\ RetryOrEnd(c, [back[c] EXCEPT !.timer = "off", !.cut = @ \/ back[c].st = "up"])

Cancelled(timer) == IF timer = "armed" THEN "off" ELSE timer

(* The connect handler with an error, the abort of a socket that           *)
(* schedule_connect_retry closed included: the code does not tell them     *)
(* apart.                                                                  *)
ConnectFails(c) ==
    /\ Asks("fail") /\ back[c].st = "connecting"
    /\ RetryOrEnd(c, [back[c] EXCEPT !.timer = Cancelled(@), !.st = "failed"])
ConnectAborted(c) ==
    /\ running /\ back[c].aborted
    /\ RetryOrEnd(c, [back[c] EXCEPT !.timer = Cancelled(@), !.aborted = FALSE])

(* The connect handler without an error: connected, the queue is flushed,  *)
(* the breaker closes, the sticky mapping is committed (module Routing).   *)
ConnectDone(c) ==
    /\ running /\ back[c].st = "connecting"
    /\ back' = [back EXCEPT ![c] = [back[c] EXCEPT !.st = "up", !.timer = Cancelled(@),
                                                   !.attempt = 0,
                                                   !.writing = back[c].queue # <<>>]]
    /\ breaker' = [fails |-> 0, until |-> 0]
    /\ UNCHANGED <<menu, now, running, healthy, bucket, budget, conn, pre, sent, wrote, lost, udpvars>>

(* retry_timer_ fires: do_connect.  The handlers queued when the socket was*)
(* closed run before a timer that is set later.                            *)
RetryFires(c) ==
    /\ running /\ back[c].st = "retry" /\ now >= back[c].at
    /\ ~back[c].aborted /\ back[c].timer # "queued" /\ back[c].late = {}
    /\ back' = [back EXCEPT ![c].st = "resolving"]
    /\ UNCHANGED <<menu, now, running, healthy, bucket, breaker, budget, conn, pre, sent, wrote, lost, udpvars>>

(* BackendConnection::send from a bridging client: queue, and write when   *)
(* connected and idle; overflow ends the client connection.                *)
QueuedIdle(b, chunk) == [b EXCEPT !.queue = Append(@, chunk)]
Queued(b, chunk) ==
    [b EXCEPT !.queue = Append(@, chunk), !.writing = @ \/ b.st = "up"]
Forward(c, u, p) ==
    IF Fits(back[c].queue)
    THEN /\ back' = [back EXCEPT ![c] = Queued(@, sent[c] + 1)]
         /\ sent' = [sent EXCEPT ![c] = @ + 1]
         /\ udp' = [udp EXCEPT ![c] = u]
         /\ passed' = [passed EXCEPT ![c] = p]
         /\ UNCHANGED <<conn, pre>>
    ELSE End(c) /\ UNCHANGED sent
ClientSends(c) ==
    /\ Asks("send") /\ conn[c] = "bridge" /\ sent[c] <= menu.sends
    /\ Forward(c, udp[c], passed[c])
    /\ UNCHANGED <<menu, now, running, healthy, bucket, breaker, budget, wrote, lost, guard, faults>>

(* do_write's handler: pop the front and write the next.                   *)
WriteDone(c) ==
    /\ running /\ back[c].st = "up" /\ back[c].writing
    /\ wrote' = [wrote EXCEPT ![c] = Append(@, Head(back[c].queue))]
    /\ back' = [back EXCEPT ![c] = [back[c] EXCEPT !.queue = Tail(@),
                                                   !.writing = Len(back[c].queue) > 1]]
    /\ UNCHANGED <<menu, now, running, healthy, bucket, breaker, budget, conn, pre, sent, lost, udpvars>>

(* The same handler for a write that had completed when the socket was     *)
(* closed: the chunk is popped although the next socket has not seen it,   *)
(* and the write of a further one fails on the closed socket.              *)
LateWrite(c) ==
    /\ running /\ "wrote" \in back[c].late
    /\ lost' = [lost EXCEPT ![c] = @ + 1]
    /\ back' = [back EXCEPT ![c] =
                  [back[c] EXCEPT !.queue = Tail(@),
                                  !.late = IF Len(back[c].queue) > 1 THEN {"broken"}
                                           ELSE @ \ {"wrote"}]]
    /\ UNCHANGED <<menu, now, running, healthy, bucket, breaker, budget, conn, pre, sent, wrote, udpvars>>

(* A read or a write on the closed socket fails: handle_backend_close.     *)
LateError(c) ==
    /\ running /\ "broken" \in back[c].late
    /\ End(c)
    /\ UNCHANGED <<menu, now, running, healthy, bucket, breaker, budget, sent, wrote, lost, guard, faults>>

(* A write error or the end of the backend's stream (on_read):             *)
(* handle_backend_close.  A connection that was up is not retried.         *)
BackendLost(c) ==
    /\ Asks("lost") /\ back[c].st = "up"
    /\ End(c)
    /\ UNCHANGED <<menu, now, running, healthy, bucket, breaker, budget, sent, wrote, lost, guard, faults>>

(***************************************************************************)
(* UDP datagrams (do_udp_receive).                                         *)
(***************************************************************************)

Blocked(e) == guard[e].until > now

(* UdpBindAbuseGuard::record_failure.                                      *)
Guilty(g) ==
    LET fresh == g.start = 0 \/ now < g.start \/ now - g.start > FailWindow
        start == IF fresh THEN now ELSE g.start
        fails == (IF fresh THEN 0 ELSE g.fails) + 1
    IN IF fails < FailLimit THEN [g EXCEPT !.start = start, !.fails = fails]
       ELSE [start |-> 0, fails |-> 0, until |-> now + BlockFor]
Charge(e) ==
    /\ guard' = [guard EXCEPT ![e] = Guilty(@)]
    /\ faults' = [faults EXCEPT ![e] = Append(@, now)]

(* apply_retry_backoff of apply_udp_bind_request.                          *)
Delayed(u) ==
    LET attempt == Min2(u.fails + 1, BindAttempts)
    IN [u EXCEPT !.fails = attempt, !.after = now + Backoff(attempt)]

(* A bind request that does not parse, or names a session that is gone.    *)
BindInvalid(e) ==
    /\ Asks("badbind") /\ ~Blocked(e) /\ Len(faults[e]) < MaxCharges
    /\ Charge(e)
    /\ UNCHANGED <<menu, now, running, healthy, tcpvars, udp, passed>>

(* MSG_UDP_BIND_REQ for the session of c, from endpoint e, with the ticket *)
(* issued to it (own) or with another one or a wrong token: it may be      *)
(* early, late or repeated, and may come from a second endpoint of the     *)
(* client.  A blocked endpoint is answered and nothing changes.            *)
Bind(c, e) ==
    [udp[c] EXCEPT !.bound = TRUE, !.ep = e, !.seq = -1, !.fails = 0, !.after = 0,
                   !.fallback = FALSE]
BindVerdict(c, e, own) ==
    IF udp[c].after > now THEN "busy"
    ELSE IF udp[c].expires < now \/ ~own \/ (udp[c].bound /\ udp[c].ep # e) THEN "refused"
    ELSE "bound"
BindRequest(c, e, own) ==
    /\ Asks(IF own THEN "bind" ELSE "badbind") /\ c \in Sessions /\ ~Blocked(e)
    /\ Len(faults[e]) < MaxCharges
    /\ \/ /\ BindVerdict(c, e, own) = "busy"
          /\ Charge(e)
          /\ UNCHANGED <<udp, passed>>
       \/ /\ BindVerdict(c, e, own) = "refused"
          /\ Charge(e)
          /\ udp' = [udp EXCEPT ![c] = Delayed(@)]
          /\ UNCHANGED passed
       \/ /\ BindVerdict(c, e, own) = "bound"
          /\ udp' = [udp EXCEPT ![c] = Bind(c, e)]
          /\ passed' = [passed EXCEPT ![c] = <<>>]
          /\ guard' = [guard EXCEPT ![e].start = 0, ![e].fails = 0]
          /\ faults' = [faults EXCEPT ![e] = <<>>]
    /\ UNCHANGED <<menu, now, running, healthy, tcpvars>>

(* The session a datagram of e is taken for: the first entry of the map    *)
(* that is bound to e, any of them as the map is unordered.                *)
BoundTo(e) == {c \in Sessions : udp[c].bound /\ udp[c].ep = e}

(* UdpSequencedMetrics::on_packet.                                         *)
AcceptsRepeat(u, seq) == u.seq = -1 \/ seq >= u.seq
Accepts(u, seq) == u.seq = -1 \/ seq > u.seq

(* A datagram of an allowed opcode: a stale one of an                      *)
(* UNRELIABLE_SEQUENCED opcode is dropped, the others go to the backend    *)
(* queue like a TCP chunk.                                                 *)
Datagram(e, seq) ==
    /\ Asks("datagram")
    /\ \E c \in BoundTo(e) :
          /\ sent[c] <= menu.sends
          /\ \/ /\ Accepts(udp[c], seq)
                /\ Forward(c, [udp[c] EXCEPT !.seq = seq], Append(passed[c], seq))
             \/ "plain" \in menu.kinds /\ Forward(c, udp[c], passed[c])
    /\ UNCHANGED <<menu, now, running, healthy, bucket, breaker, budget, wrote, lost, guard, faults>>

(* A RUDP datagram: a session that was not selected, or has fallen back,   *)
(* is fixed to TCP; otherwise the engine (module Rudp) returns a frame to  *)
(* forward or asks for the fallback, as an inner frame outside the         *)
(* allowlist does.                                                         *)
RudpDatagram(e) ==
    /\ Asks("rudp")
    /\ \E c \in BoundTo(e) :
          /\ sent[c] <= menu.sends
          /\ \/ /\ udp' = [udp EXCEPT ![c].fallback = TRUE]
                /\ UNCHANGED <<conn, pre, back, sent, passed>>
             \/ /\ udp[c].rudp /\ ~udp[c].fallback
                /\ Forward(c, udp[c], passed[c])
    /\ UNCHANGED <<menu, now, running, healthy, bucket, breaker, budget, wrote, lost, guard, faults>>

(***************************************************************************)
(* The process.                                                            *)
(***************************************************************************)

(* start_infrastructure_probe: the probe thread records Redis' health.     *)
Probe ==
    /\ Asks("probe")
    /\ healthy' = ~healthy
    /\ UNCHANGED <<menu, now, running, tcpvars, udpvars>>

(* GatewayApp::stop: every backend connection is closed, sessions_ is      *)
(* cleared and the io_context stops; the client connections, which stop()  *)
(* does not touch, end with the process.                                   *)
Stop ==
    /\ Asks("stop")
    /\ running' = FALSE /\ healthy' = FALSE
    /\ back' = [c \in Conns |-> NoBack]
    /\ udp' = [c \in Conns |-> NoUdp]
    /\ conn' = [c \in Conns |-> IF conn[c] = "none" THEN "none" ELSE "gone"]
    /\ pre' = [c \in Conns |-> 0]
    /\ passed' = [c \in Conns |-> <<>>]
    /\ UNCHANGED <<menu, now, bucket, breaker, budget, sent, wrote, lost, guard, faults>>

Tick ==
    /\ running /\ now < menu.time
    /\ now' = now + 1
    /\ UNCHANGED <<menu, running, healthy, tcpvars, udpvars>>

Init ==
    /\ menu \in Menus
    /\ now = 1 /\ running = TRUE /\ healthy = TRUE
    /\ bucket = [tokens |-> Burst, last |-> 0]
    /\ breaker = [fails |-> 0, until |-> 0]
    /\ budget = [start |-> 0, used |-> 0]
    /\ conn = [c \in Conns |-> "none"]
    /\ pre = [c \in Conns |-> 0]
    /\ back = [c \in Conns |-> NoBack]
    /\ sent = [c \in Conns |-> 0]
    /\ wrote = [c \in Conns |-> <<>>]
    /\ lost = [c \in Conns |-> 0]
    /\ udp = [c \in Conns |-> NoUdp]
    /\ guard = [e \in Endpoints |-> [start |-> 0, fails |-> 0, until |-> 0]]
    /\ faults = [e \in Endpoints |-> <<>>]
    /\ passed = [c \in Conns |-> <<>>]

Next ==
    \/ \E c \in Conns :
          \/ OnConnect(c) \/ ReadPartial(c) \/ ReadRefused(c) \/ HandshakeTimeout(c)
          \/ FinishHandshake(c) \/ ClientGone(c)
          \/ ResolveFails(c) \/ ResolveDone(c) \/ ConnectTimerExpires(c)
          \/ OnConnectTimeout(c) \/ ConnectFails(c) \/ ConnectAborted(c) \/ ConnectDone(c)
          \/ RetryFires(c) \/ ClientSends(c) \/ WriteDone(c) \/ BackendLost(c)
          \/ LateWrite(c) \/ LateError(c)
    \/ \E e \in Endpoints :
          \/ BindInvalid(e) \/ RudpDatagram(e)
          \/ \E c \in Conns, own \in BOOLEAN : BindRequest(c, e, own)
          \/ \E seq \in 0..MaxSeq : Datagram(e, seq)
    \/ Probe \/ Stop \/ Tick

Spec == Init /\ [][Next]_vars

-----------------------------------------------------------------------------

TypeOK ==
    /\ now \in 1..menu.time /\ running \in BOOLEAN /\ healthy \in BOOLEAN
    /\ bucket.tokens \in 0..Burst
    /\ breaker.fails \in 0..FailThreshold - 1 /\ breaker.until \in 0..menu.time + OpenFor
    /\ budget.used \in 0..RetryBudget
    /\ \A c \in Conns :
          /\ conn[c] \in {"none", "login", "bridge", "gone"}
          /\ pre[c] \in 0..PreMax
          /\ back[c].st \in {"none", "resolving", "connecting", "retry", "up"}
          /\ QMax > 0 => Len(back[c].queue) <= QMax
          /\ back[c].writing => back[c].st = "up" /\ back[c].queue # <<>>
          /\ back[c].late \subseteq {"wrote", "broken"} /\ lost[c] \in 0..sent[c]

(* A session exists in sessions_ exactly as long as its client connection  *)
(* is bridging: whichever of the racing handlers ends it (timeout, abort,  *)
(* refused retry, overflow, lost backend, stop), no backend connection and *)
(* no UDP binding outlives the client and no bridging client is left       *)
(* without a backend connection.                                           *)
SessionsFollowClients ==
    \A c \in Conns : /\ back[c].st # "none" <=> conn[c] = "bridge"
                     /\ udp[c].bound => conn[c] = "bridge"

(* What a client hands over reaches a backend connection in order, nothing *)
(* skipped and nothing twice, and from the client's first chunk on: the    *)
(* chunks written to the present socket followed by the chunks still       *)
(* queued are all the chunks taken.  Only a connect timer whose handler    *)
(* runs after the connection was established takes chunks away (lost): the *)
(* connection is cut, and the next one goes on behind what it was sent.    *)
InOrderToBackend ==
    \A c \in Conns : back[c].st # "none" =>
        /\ wrote[c] \o back[c].queue = [i \in 1..sent[c] - lost[c] |-> lost[c] + i]
        /\ lost[c] > 0 => back[c].cut

(* Every backend connection of a session is given the client's stream from *)
(* its first chunk, the login: what a late connect timer breaks.           *)
StreamFromTheStart == \A c \in Conns : back[c].st # "none" => lost[c] = 0

(* A bridge that is connected never stalls: with chunks queued and the     *)
(* backend up there is a write in flight, so the next completion sends the *)
(* rest.                                                                   *)
NoStalledWrite ==
    \A c \in Conns : back[c].st = "up" => back[c].writing = (back[c].queue # <<>>)

(* The abuse guard: between two good binds, an endpoint is charged within  *)
(* any FailWindow with at most 2 * FailLimit - 2 failed ones, because each *)
(* window of the guard ends in a block at FailLimit and, with the default  *)
(* settings, a block outlasts a window.                                    *)
AbuseBounded ==
    \A e \in Endpoints : \A i \in 1..Len(faults[e]) :
        Cardinality({j \in i..Len(faults[e]) : faults[e][j] - faults[e][i] <= FailWindow})
            <= 2 * FailLimit - 2

(* Sequenced datagrams of a session are forwarded in strictly increasing   *)
(* order of their numbers between two binds, whatever the network repeats  *)
(* or reorders.                                                            *)
SequencedOnce ==
    \A c \in Conns : \A i \in 1..Len(passed[c]) - 1 : passed[c][i] < passed[c][i + 1]
=============================================================================
