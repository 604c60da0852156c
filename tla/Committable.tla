------------------------------ MODULE Committable ------------------------------
(***************************************************************************)
(* The placer's two-layer values (psychopomp/placer/utils/Committable.h).   *)
(* A CommittableMap is a record of two functions whose domains are the keys *)
(* present in canaryMap_ and committedMap_; the nested maps of the template *)
(* are one function on the tuple of keys.  A CommittableKey holds its two   *)
(* folly::Optional values as sets of at most one element.                   *)
(***************************************************************************)
EXTENDS Integers

EmptyMap == [committed |-> <<>>, canary |-> <<>>]

MapHas(m, k) == k \in DOMAIN m.canary \/ k \in DOMAIN m.committed

\* get(k).value_or(default): the canary layer hides the committed one.
MapGetOr(m, k, default) == IF k \in DOMAIN m.canary THEN m.canary[k]
                           ELSE IF k \in DOMAIN m.committed THEN m.committed[k]
                           ELSE default

\* getFromCommittedMap(k).value_or(default)
MapCommittedOr(m, k, default) ==
    IF k \in DOMAIN m.committed THEN m.committed[k] ELSE default

\* setMap of every f[k] into one layer.
SetMap(layer, f) == [k \in DOMAIN f \cup DOMAIN layer |->
                        IF k \in DOMAIN f THEN f[k] ELSE layer[k]]

\* set(true, f[k], k) for every k in the domain of f.
MapSetCanary(m, f) == [m EXCEPT !.canary = SetMap(@, f)]

MapClear(m) == [m EXCEPT !.canary = <<>>]

\* Every entry of the canary layer overwrites the committed one.
CopyChanges(canary, committed) == SetMap(committed, canary)

\* Plausible slip: commit without the clear.
MapCommitKeepsCanary(m) == [m EXCEPT !.committed = CopyChanges(m.canary, @)]

\* commit: copyChanges, then clear.
MapCommit(m) == MapClear([m EXCEPT !.committed = CopyChanges(m.canary, @)])

EmptyKey == [committed |-> {}, canary |-> {}]

KeyGetOr(k, default) == LET layer == IF k.canary # {} THEN k.canary ELSE k.committed
                        IN  IF layer = {} THEN default ELSE CHOOSE v \in layer : TRUE

KeySetCanary(k, v) == [k EXCEPT !.canary = {v}]

KeyClear(k) == [k EXCEPT !.canary = {}]

KeyCommit(k) == [committed |-> IF k.canary # {} THEN k.canary ELSE k.committed,
                 canary |-> {}]

================================================================================
