---------------------------- MODULE MCSolvingManager ----------------------------
(* Constants of SolvingManager for TLC: keys of five bits and the lower half of them
   cut into any number of ranges, as the code cuts the lower half of 2^64 keys. *)
EXTENDS SolvingManager

CONSTANTS s1, s2

MCServices == {s1, s2}
Call(a, b, n) == [start |-> a, end |-> b, numShards |-> n]
MCCalls == {Call(0, 15, n) : n \in 2 .. 7} \cup {Call(2, 9, n) : n \in 1 .. 9}

================================================================================
