---------------------------- MODULE MCLuaHooks ----------------------------
EXTENDS LuaHooks

Scenario(start, places, removes, n, qualities, locks, hooks, queries, denies, k) ==
    [start |-> start, places |-> places, removes |-> removes, edits |-> n, qualities |-> qualities,
     locks |-> locks, hooks |-> hooks, queries |-> queries, denies |-> denies, calls |-> k]

\* The shipped scripts: on_join_policy.lua and on_login_welcome.lua ask the
\* host.
MCShipped == {Scenario({"primary"}, {}, FALSE, 0, {}, FALSE, {"on_join", "on_login"}, TRUE, FALSE, 1)}
============================================================================
