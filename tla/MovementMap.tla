------------------------------ MODULE MovementMap ------------------------------
(***************************************************************************)
(* The placer's MovementMap (psychopomp/placer/MovementMap): the planned    *)
(* moves of shards to bins.  A map is a record with the object's two        *)
(* indexes: next is shardToNextBinMap_ (NoBin where the shard has no        *)
(* entry), incoming is binToIncomingShardMap_ (an absent bin and an empty   *)
(* set cannot be told apart by the class's own operations).                 *)
(***************************************************************************)
EXTENDS Naturals, FiniteSets

CONSTANTS Shards, Bins, NoBin

ASSUME NoBinAssumption == NoBin \notin Bins

MovementMaps == [next : [Shards -> Bins \cup {NoBin}],
                 incoming : [Bins -> SUBSET Shards]]

\* What a newly built object holds, and what clearMovements leaves.
EmptyMovements == [next |-> [s \in Shards |-> NoBin],
                   incoming |-> [b \in Bins |-> {}]]

\* Plausible slip: the movements of the previous trial are kept.
ClearMovementsForgotten(m) == m

ClearMovements(m) == EmptyMovements

AddMovement(m, s, b) ==
    [next |-> [m.next EXCEPT ![s] = b],
     incoming |-> [m.incoming EXCEPT ![b] = @ \cup {s}]]

\* getAllMovements: the shards that have a next bin.
MovedShards(m) == {s \in Shards : m.next[s] # NoBin}

\* Plausible slip: only the shard's next bin is copied.
AddMovementsNextOnly(m, new) ==
    [m EXCEPT !.next = [s \in Shards |->
        IF new.next[s] = NoBin THEN m.next[s] ELSE new.next[s]]]

\* addMovement for every entry of the other map (the order is irrelevant:
\* the entries have distinct shards).
AddMovements(m, new) ==
    [next |-> [s \in Shards |->
        IF new.next[s] = NoBin THEN m.next[s] ELSE new.next[s]],
     incoming |-> [b \in Bins |->
        m.incoming[b] \cup {s \in Shards : new.next[s] = b}]]

================================================================================
