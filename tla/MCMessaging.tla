---------------------------- MODULE MCMessaging ----------------------------
(***************************************************************************)
(* What clients exchange, each part on its own: the messages of a chat     *)
(* room, and the RUDP engines that may carry frames.  part names the one   *)
(* that runs; the RUDP engines keep their initial state and the variables  *)
(* of ChatMessages a blank while they do not run.                          *)
(***************************************************************************)
EXTENDS Rudp, Sequences, TLC

CONSTANTS
    Workers, None, Early, u1, u2, n1, n2, RecentLimit, FetchFactor, MaxListLen, MaxMessages,
    MaxOther, MaxOps

VARIABLES
    part, present, ops, blocked, said, kind, outcome, db, lastSeen, recent, payload, fan, job,
    heard, snap, shown, since, shunned

talkVars == <<present, ops, blocked, said, kind, outcome, db, lastSeen, recent, payload, fan, job,
              heard, snap, shown, since, shunned>>

FromClient(c, g) == [p \in Peers |-> IF p = "client" THEN c ELSE g]

Stray(p, type, c, num) ==
    [to |-> p, type |-> type, conn |-> c, num |-> num,
     largest |-> 1, mask |-> {1}, ackonly |-> FALSE]

\* The Hello and a frame of an earlier connection, the gateway's answer,
\* and a Ping.
OldTraffic ==
    {Stray("gateway", "hello", Old, 0), Stray("gateway", "data", Old, 1),
     Stray("client", "helloack", Old, 0),
     [Stray("gateway", "ping", NoConn, 0) EXCEPT !.largest = 0, !.mask = {}]}

Menu(strays, sends, time, kinds) ==
    [strays |-> strays, sends |-> sends, time |-> time, kinds |-> kinds]

\* Four frames, more than the window is wide; frames in both directions
\* while the clock runs; the traffic of an earlier connection; faults.
RudpMenus ==
    {Menu({}, FromClient(4, 0), 1, {}), Menu({}, FromClient(2, 1), 2, {}),
     Menu(OldTraffic, FromClient(1, 1), 1, {}), Menu({}, FromClient(1, 0), 3, {"malformed", "close"})}

\* Two users on two instances; one may block the other.
Talk == INSTANCE ChatMessages
            WITH Users <- {u1, u2}, Nodes <- {n1, n2}, Home <- (u1 :> n1 @@ u2 :> n2),
                 Gw <- [n \in {n1, n2} |-> n], Blocks <- {<<u2, u1>>}, sent <- said, got <- heard

NoTalk ==
    /\ present = "off" /\ ops = "off" /\ blocked = "off" /\ said = "off" /\ kind = "off"
    /\ outcome = "off" /\ db = "off" /\ lastSeen = "off" /\ recent = "off" /\ payload = "off"
    /\ fan = "off" /\ job = "off" /\ heard = "off" /\ snap = "off" /\ shown = "off" /\ since = "off"
    /\ shunned = "off"

\* The engines at rest.
NoRudp == Init /\ menu = Menu({}, FromClient(4, 0), 1, {})

MsgInit ==
    \/ part = "talk" /\ Talk!Init /\ NoRudp
    \/ part = "rudp" /\ Init /\ NoTalk

TalkNext == part = "talk" /\ Talk!Next /\ UNCHANGED <<part, vars>>
RudpNext == part = "rudp" /\ Next /\ UNCHANGED <<part, talkVars>>

MsgSpec == MsgInit /\ [][TalkNext \/ RudpNext]_<<part, talkVars, vars>>

\* Worker threads are interchangeable.
Symmetry == Permutations(Workers)

----------------------------------------------------------------------------

\* ChatMessages: no message is pushed to a user twice.
NoDoubleDelivery == part = "talk" => Talk!NoDoubleDelivery

\* ChatMessages: a snapshot shows messages of the room, once, up to the limit.
SnapshotSound == part = "talk" => Talk!SnapshotSound

\* ChatMessages: who blocked the sender is not pushed the message.
BlockRespected == part = "talk" => Talk!BlockRespected

\* ChatMessages: only messages that were persisted are cached.
CachedWasPersisted == part = "talk" => Talk!CachedWasPersisted
============================================================================
