------------------------------- MODULE MCSession --------------------------------
(* Constants of Session for TLC: one range and two messages, so that a second worker
   could exist, and an attempt to connect that may fail after a handler served it. *)
EXTENDS Session

CONSTANTS r1

MCRanges == {r1}
MCWriters == 0 .. 2
MCServerMessages == {[kind |-> "connection_response"],
                     [kind |-> "shard_update_request", unassigned |-> {}, assigned |-> {r1}],
                     [kind |-> "shard_forward_request", forwarded |-> {r1}]}

Fields(s, a, r) == [stopped |-> s, hasAuthenticated |-> a, isReading |-> r]
MCGarbage == {Fields(FALSE, FALSE, FALSE), Fields(FALSE, TRUE, TRUE)}

================================================================================
