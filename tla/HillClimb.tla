------------------------------- MODULE HillClimb -------------------------------
(***************************************************************************)
(* What the placer promises, without weights, trees or trials: starting     *)
(* from some arrangement of the shards, every step moves one shard, that    *)
(* was never moved before, to another bin, and makes the arrangement        *)
(* strictly better.  README.md:3-5.                                         *)
(***************************************************************************)
EXTENDS Integers

CONSTANTS Shards, Bins, Score(_)

VARIABLES arrangement, moved

Init == /\ arrangement \in [Shards -> Bins]
        /\ moved = {}

Move(s, b) == /\ s \notin moved
              /\ b # arrangement[s]
              /\ Score([arrangement EXCEPT ![s] = b]) < Score(arrangement)
              /\ arrangement' = [arrangement EXCEPT ![s] = b]
              /\ moved' = moved \cup {s}

Next == \E s \in Shards, b \in Bins : Move(s, b)

Spec == Init /\ [][Next]_<<arrangement, moved>>

================================================================================
