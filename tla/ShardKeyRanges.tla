------------------------------ MODULE ShardKeyRanges ----------------------------
(***************************************************************************)
(* generateShardKeyRangeMap: the key space from start to end is cut into    *)
(* about numShards ranges, first those that are one key longer, then the    *)
(* rest, until the last one reaches end.  One step per loop iteration.      *)
(* Keys are unsigned and wrap at KeyLimit, 2^64 in the code.                *)
(***************************************************************************)
EXTENDS Integers, Sequences

CONSTANTS KeyLimit,   \* one more than the largest ShardKey
          Calls       \* the arguments the function is called with

\* Enough room above end that no range wraps.  With the arguments of the one call,
\* (0, 2^63 - 1, 100), there is half the key space.
ASSUME CallsAssumption ==
    /\ KeyLimit \in Nat \ {0}
    /\ Calls \subseteq [start : Nat, end : Nat, numShards : Nat \ {0}]
    /\ \A c \in Calls : /\ c.start <= c.end
                        /\ c.end + 2 * c.numShards + (c.end - c.start) \div c.numShards < KeyLimit

VARIABLES
    args,     \* the arguments
    genAt,    \* where the function is
    start,    \* its parameter start, which the first loop advances
    index,    \* i
    ranges    \* shardKeyRangeMap

genVars == <<args, genAt, start, index, ranges>>

Wrap(k) == k % KeyLimit

\* range, for arguments c and for those of this call
RangeOf(c) == Wrap(c.end - c.start) \div c.numShards
range == RangeOf(args)

BackSecond == ranges[Len(ranges)][2]

GenInit == /\ args \in Calls
           /\ genAt = "begin"
           /\ start = args.start
           /\ index = 0
           /\ ranges = <<>>

\* The first range, which the loop below emits once more if it runs at all.
Begin == /\ genAt = "begin"
         /\ \/ /\ range <= 0
               /\ genAt' = "returned"
               /\ UNCHANGED ranges
            \/ /\ range > 0
               /\ genAt' = "spread"
               /\ ranges' = <<<<start, Wrap(start + range + 1)>>>>
         /\ UNCHANGED <<args, start, index>>

\* Plausible slip: the next range starts where the last one ends.
SpreadOverlapping ==
    /\ genAt = "spread"
    /\ index < args.numShards % range
    /\ ranges' = Append(ranges, <<start, Wrap(start + range + 1)>>)
    /\ start' = Wrap(start + range + 1)
    /\ index' = index + 1
    /\ UNCHANGED <<args, genAt>>

Spread == /\ genAt = "spread"
          /\ index < args.numShards % range
          /\ ranges' = Append(ranges, <<start, Wrap(start + range + 1)>>)
          /\ start' = Wrap(start + range + 2)
          /\ index' = index + 1
          /\ UNCHANGED <<args, genAt>>

EndSpread == /\ genAt = "spread"
             /\ index >= args.numShards % range
             /\ genAt' = "fill"
             /\ UNCHANGED <<args, start, index, ranges>>

\* Plausible slip: the ranges that follow are one key shorter.
FillShort ==
    /\ genAt = "fill"
    /\ BackSecond < args.end
    /\ ranges' = Append(ranges, <<Wrap(BackSecond + 1), Wrap(BackSecond + range)>>)
    /\ UNCHANGED <<args, genAt, start, index>>

\* Plausible slip: a key is left out between two ranges.
FillWithGap ==
    /\ genAt = "fill"
    /\ BackSecond < args.end
    /\ ranges' = Append(ranges, <<Wrap(BackSecond + 2), Wrap(BackSecond + 2 + range)>>)
    /\ UNCHANGED <<args, genAt, start, index>>

Fill == /\ genAt = "fill"
        /\ BackSecond < args.end
        /\ ranges' = Append(ranges, <<Wrap(BackSecond + 1), Wrap(BackSecond + 1 + range)>>)
        /\ UNCHANGED <<args, genAt, start, index>>

EndFill == /\ genAt = "fill"
           /\ BackSecond >= args.end
           /\ genAt' = "returned"
           /\ UNCHANGED <<args, start, index, ranges>>

GenNext == Begin \/ Spread \/ EndSpread \/ Fill \/ EndFill

GenSpec == GenInit /\ [][GenNext]_genVars

--------------------------------------------------------------------------------

\* Key k is in range r.
In(k, r) == r[1] <= k /\ k <= r[2]

(* generateShardKeyRangeMap returns no ranges at all, or ranges that hold every key
   from start to end. *)
KeysCovered ==
    genAt = "returned" /\ ranges # <<>> =>
       \A k \in args.start .. args.end : \E i \in DOMAIN ranges : In(k, ranges[i])

(* The ranges come in ascending order and do not overlap, except that the first one may
   be there twice. *)
RangesAscend ==
    \A i \in 2 .. Len(ranges) :
       \/ ranges[i - 1][2] < ranges[i][1]
       \/ i = 2 /\ ranges[2] = ranges[1]

(* There is at most one range more than shards were asked for, the doubled one. *)
RangesBounded == Len(ranges) <= args.numShards + 1

================================================================================
