------------------------------ MODULE MCEdge ------------------------------
(***************************************************************************)
(* The edge of the stack, each part on its own: one gateway process, and   *)
(* the routing of clients over several gateways.  part names the one that  *)
(* runs; the gateway keeps its initial state and the variables of Routing  *)
(* a blank while the other one does.                                       *)
(***************************************************************************)
EXTENDS Gateway

CONSTANTS g1, g2, c1, c2, b1, b2, NoServer

VARIABLES
    part,
    \* Routing
    scenario, listed, serving, redis, changes, outages, cache, due, loading, binding, local, at,
    seen, target

routeVars == <<scenario, listed, serving, redis, changes, outages, cache, due, loading, binding,
               local, at, seen, target>>
edgeVars == <<part, vars, routeVars>>

Menu(kinds, n, sends, time) == [kinds |-> kinds, conns |-> n, sends |-> sends, time |-> time]

\* The handshake and the process; the backend connections of two clients; a
\* bridge under load; UDP binds of one and of two clients; UDP data; RUDP.
GateMenus ==
    {Menu({"conn", "partial", "refuse", "login", "noserver", "leave", "probe", "stop"}, 2, 1, 2),
     Menu({"conn", "login", "dial", "fail", "leave"}, 2, 1, 3),
     Menu({"conn", "login", "dial", "fail", "send", "lost", "stop"}, 1, 3, 3),
     Menu({"conn", "login", "bind", "badbind"}, 1, 1, 4),
     Menu({"conn", "login", "bind", "leave"}, 2, 1, 2),
     Menu({"conn", "login", "bind", "datagram", "plain"}, 1, 3, 2),
     Menu({"conn", "login", "dial", "bind", "rudp"}, 1, 2, 2)}

Scenario(attempts, servers, n, m) ==
    [attempts |-> attempts, movers |-> servers, changes |-> n, outages |-> m]

\* One client at two gateways while a server comes or goes, two clients at
\* one gateway, and one client while both servers change and Redis fails.
RouteMenus ==
    {Scenario({<<g1, c1>>, <<g2, c1>>}, {b1}, 1, 0),
     Scenario({<<g1, c1>>, <<g1, c2>>}, {}, 0, 0),
     Scenario({<<g1, c1>>}, {b1, b2}, 2, 1)}

Route == INSTANCE Routing
             WITH Menus <- RouteMenus, Gateways <- {g1, g2}, Clients <- {c1, c2}, Servers <- {b1, b2},
                  menu <- scenario

\* The gateway before its first connection.
NoGate == Init /\ menu = CHOOSE m \in Menus : TRUE
NoRoute ==
    /\ scenario = "off" /\ listed = "off" /\ serving = "off" /\ redis = "off" /\ changes = "off"
    /\ outages = "off" /\ cache = "off" /\ due = "off" /\ loading = "off" /\ binding = "off"
    /\ local = "off" /\ at = "off" /\ seen = "off" /\ target = "off"

EdgeInit ==
    \/ part = "gate" /\ Init /\ NoRoute
    \/ part = "route" /\ Route!Init /\ NoGate

GateStep(A) == part = "gate" /\ A /\ UNCHANGED <<part, routeVars>>
RouteStep(A) == part = "route" /\ A /\ UNCHANGED <<part, vars>>
EdgeNext == GateStep(Next) \/ RouteStep(Route!Next)

\* The fairness of Routing, whose liveness is checked.
RouteFair ==
    /\ \A a \in {g1, g2} \X {c1, c2} : WF_edgeVars(RouteStep(Route!Goes(a)))
    /\ \A g \in {g1, g2} : WF_edgeVars(RouteStep(Route!IntervalPasses(g)))
    /\ WF_edgeVars(RouteStep(Route!RedisRecovers))

EdgeSpec == EdgeInit /\ [][EdgeNext]_edgeVars /\ RouteFair

----------------------------------------------------------------------------
\* Routing: nobody takes a binding away from another attempt.
BindingsRespected == [][part = "route" => Route!BindingKept]_edgeVars

\* Routing: a client that keeps trying is served again and again.
KeepsBeingServed ==
    <>[](part = "route" /\ Route!ListTrue)
        => \A a \in {g1, g2} \X {c1, c2} : []<>(part = "route" /\ a \in scenario.attempts => at[a] = "connected")
===========================================================================
