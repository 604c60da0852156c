-------------------------- MODULE SolvingManagerProofs --------------------------
(***************************************************************************)
(* Theorems about generateShardKeyRangeMap and populateShardMap, for any    *)
(* services, any key width and any arguments that leave room above end      *)
(* (CallsAssumption): the ranges hold every key, ascend, and are at most    *)
(* one more than the shards asked for; and every service keeps them all.    *)
(*                                                                          *)
(* None of the four is inductive.  GenInv says how far the first loop has   *)
(* advanced start, so that nothing wraps, that every range follows on the   *)
(* last one, and that each of them but one has at least range + 1 keys.     *)
(* ManagerInv adds that the temporary mapping holds the ranges visited so   *)
(* far, of this service and of no other.                                    *)
(***************************************************************************)
EXTENDS SolvingManager, SequenceTheorems, TLAPS

Pairs == Nat \X Nat

GenTypeOK == /\ args \in Calls
             /\ genAt \in {"begin", "spread", "fill", "returned"}
             /\ start \in Nat
             /\ index \in Nat
             /\ ranges \in Seq(Pairs)

\* Every range follows on the one before it, or is the first one again.
Contiguous == \A i \in 2 .. Len(ranges) :
                 \/ ranges[i][1] = ranges[i - 1][2] + 1
                 \/ i = 2 /\ ranges[2] = ranges[1]

\* Every range has a key, ends no later than the last one, and starts after all
\* those before it, but for the first one if it is there twice.
Sorted == \A j \in 1 .. Len(ranges) :
             /\ ranges[j][1] <= ranges[j][2]
             /\ ranges[j][2] <= BackSecond
             /\ \A i \in 1 .. j - 1 : \/ ranges[i][2] < ranges[j][1]
                                      \/ i = 1 /\ j = 2 /\ ranges[2] = ranges[1]

\* The keys up to the end of the last range are held.
CoveredSoFar == \A k \in args.start .. BackSecond : \E i \in DOMAIN ranges : In(k, ranges[i])

\* The ranges but one have at least range + 1 keys each.
LongEnough == (Len(ranges) - 1) * (range + 1) + args.start <= BackSecond + 1

\* Where the first loop is.
Spreading == /\ start = args.start + index * (range + 2)
             /\ Len(ranges) = index + 1
             /\ index <= args.numShards % range
             /\ index = 0 => ranges = <<<<args.start, args.start + range + 1>>>>
             /\ index > 0 => BackSecond + 1 = start

Built == /\ range > 0
         /\ Contiguous
         /\ Sorted
         /\ CoveredSoFar
         /\ LongEnough
         /\ RangesBounded

\* The inductive invariant.
GenInv == /\ GenTypeOK
          /\ genAt = "begin" => start = args.start /\ index = 0 /\ ranges = <<>>
          /\ ranges # <<>> => Built
          /\ genAt \in {"spread", "fill"} => ranges # <<>>
          /\ genAt = "spread" => Spreading
          /\ genAt = "returned" /\ ranges # <<>> => BackSecond >= args.end

--------------------------------------------------------------------------------

(* Multiplication is monotone. *)
LEMMA TimesMonotone ==
  ASSUME NEW a \in Nat, NEW b \in Nat, NEW c \in Nat, a <= b
  PROVE  a * c <= b * c /\ a * c \in Nat /\ b * c \in Nat
  OBVIOUS

(* What integer division returns. *)
LEMMA DivBounds ==
  ASSUME NEW d \in Nat, NEW n \in Nat \ {0}
  PROVE  /\ d \div n \in Nat
         /\ (d \div n) * n <= d
         /\ d < (d \div n + 1) * n
  OBVIOUS

(* A factor can be cancelled. *)
LEMMA TimesCancel ==
  ASSUME NEW a \in Nat, NEW b \in Nat, NEW c \in Nat \ {0}, a * c < b * c
  PROVE  a < b
  <1>1. b <= a => b * c <= a * c
    BY TimesMonotone
  <1> QED BY <1>1

(* What the first loop multiplies. *)
LEMMA Products ==
  ASSUME NEW a \in Nat, NEW b \in Nat
  PROVE  /\ a * (b + 2) \in Nat /\ b * a \in Nat
         /\ a * (b + 2) = b * a + 2 * a
         /\ (a + 1) * (b + 2) = a * (b + 2) + b + 2
  OBVIOUS

(* Keys below the limit do not wrap. *)
LEMMA NoWrap ==
  ASSUME NEW k \in Nat, k < KeyLimit
  PROVE  Wrap(k) = k
  BY CallsAssumption DEF Wrap

(* A remainder is no larger than what is divided. *)
LEMMA ModBound ==
  ASSUME NEW n \in Nat, NEW r \in Nat \ {0}
  PROVE  n % r \in Nat /\ n % r <= n
  OBVIOUS

(* The arguments and range as numbers. *)
LEMMA CallFacts ==
  ASSUME NEW c \in Calls
  PROVE  /\ c.start \in Nat /\ c.end \in Nat /\ c.numShards \in Nat \ {0}
         /\ c.start <= c.end
         /\ RangeOf(c) \in Nat
         /\ RangeOf(c) * c.numShards <= c.end - c.start
         /\ c.end - c.start < (RangeOf(c) + 1) * c.numShards
         /\ c.end + 2 * c.numShards + RangeOf(c) < KeyLimit
  <1>1. /\ c.start \in Nat /\ c.end \in Nat /\ c.numShards \in Nat \ {0}
        /\ c.start <= c.end
        /\ c.end + 2 * c.numShards + (c.end - c.start) \div c.numShards < KeyLimit
        /\ KeyLimit \in Nat
    BY CallsAssumption
  <1>2. c.end - c.start \in Nat
    BY <1>1
  <1> DEFINE d == c.end - c.start
  <1>3. /\ d \div c.numShards \in Nat
        /\ (d \div c.numShards) * c.numShards <= d
        /\ d < (d \div c.numShards + 1) * c.numShards
    BY <1>1, <1>2, DivBounds
  <1>4. d < KeyLimit
    BY <1>1, <1>2, <1>3
  <1>5. Wrap(c.end - c.start) = d
    BY <1>2, <1>4, NoWrap
  <1> QED BY <1>1, <1>3, <1>5 DEF RangeOf

(* Pushing a range to the back: the new back, and the ranges before it. *)
LEMMA PushBack ==
  ASSUME ranges \in Seq(Pairs), NEW p \in Pairs, ranges' = Append(ranges, p)
  PROVE  /\ ranges' \in Seq(Pairs) /\ ranges' # <<>>
         /\ Len(ranges) \in Nat /\ Len(ranges') = Len(ranges) + 1
         /\ \A i \in 1 .. Len(ranges) : ranges'[i] = ranges[i]
         /\ ranges'[Len(ranges) + 1] = p
         /\ BackSecond' = p[2]
  <1>1. /\ ranges' \in Seq(Pairs)
        /\ ranges' # <<>>
        /\ Len(ranges') = Len(ranges) + 1
        /\ \A i \in 1 .. Len(ranges) : ranges'[i] = ranges[i]
        /\ ranges'[Len(ranges) + 1] = p
    BY AppendProperties
  <1>2. Len(ranges) \in Nat
    BY LenProperties
  <1> QED BY <1>1, <1>2 DEF BackSecond

(* A range that is pushed to the back keeps what was there contiguous if it follows on the
   last one or is the first one again. *)
LEMMA PushContiguous ==
  ASSUME ranges \in Seq(Pairs), ranges # <<>>, Contiguous, NEW p \in Pairs,
         ranges' = Append(ranges, p),
         \/ p[1] = BackSecond + 1
         \/ ranges = <<p>>
  PROVE  Contiguous'
  <1> DEFINE len == Len(ranges)
  <1>1. /\ len \in Nat /\ Len(ranges') = len + 1
        /\ \A i \in 1 .. len : ranges'[i] = ranges[i]
        /\ ranges'[len + 1] = p
    BY PushBack
  <1>2. len > 0
    BY <1>1, EmptySeq, LenProperties
  <1>3. SUFFICES ASSUME NEW i \in 2 .. len + 1
                 PROVE  \/ ranges'[i][1] = ranges'[i - 1][2] + 1
                        \/ i = 2 /\ ranges'[2] = ranges'[1]
    BY <1>1 DEF Contiguous
  <1>4. CASE i <= len
    <2>1. i \in 2 .. len /\ i - 1 \in 1 .. len /\ i \in 1 .. len /\ 1 \in 1 .. len
      BY <1>1, <1>4
    <2>2. \/ ranges[i][1] = ranges[i - 1][2] + 1
          \/ i = 2 /\ ranges[2] = ranges[1]
      BY <2>1 DEF Contiguous
    <2>3. ranges'[i] = ranges[i] /\ ranges'[i - 1] = ranges[i - 1] /\ ranges'[1] = ranges[1]
      BY <1>1, <2>1
    <2> QED BY <2>2, <2>3
  <1>5. CASE i = len + 1
    <2>1. ranges'[i] = p /\ ranges'[i - 1] = ranges[len] /\ ranges'[1] = ranges[1]
      BY <1>1, <1>2, <1>5
    <2>2. CASE p[1] = BackSecond + 1
      BY <2>1, <2>2 DEF BackSecond
    <2>3. CASE ranges = <<p>>
      <3>1. len = 1 /\ ranges[1] = p
        BY <2>3
      <3> QED BY <2>1, <3>1, <1>5
    <2> QED BY <2>2, <2>3
  <1> QED BY <1>1, <1>3, <1>4, <1>5

(* The same for the order of all the ranges. *)
LEMMA PushSorted ==
  ASSUME ranges \in Seq(Pairs), ranges # <<>>, Sorted, NEW p \in Pairs,
         ranges' = Append(ranges, p), p[1] <= p[2],
         \/ p[1] = BackSecond + 1
         \/ ranges = <<p>>
  PROVE  Sorted'
  <1> DEFINE len == Len(ranges)
  <1>1. /\ len \in Nat /\ Len(ranges') = len + 1
        /\ \A i \in 1 .. len : ranges'[i] = ranges[i]
        /\ ranges'[len + 1] = p
        /\ BackSecond' = p[2]
    BY PushBack
  <1>2. len > 0
    BY <1>1, EmptySeq, LenProperties
  <1>3. p[1] \in Nat /\ p[2] \in Nat /\ \A i \in 1 .. len : ranges[i][1] \in Nat /\ ranges[i][2] \in Nat
    <2>1. \A i \in 1 .. len : ranges[i] \in Pairs
      BY ElementOfSeq
    <2> QED BY <2>1 DEF Pairs
  <1>4. BackSecond \in Nat /\ BackSecond <= p[2]
    <2>1. BackSecond \in Nat
      BY <1>1, <1>2, <1>3 DEF BackSecond
    <2>2. CASE ranges = <<p>>
      BY <1>3, <2>2 DEF BackSecond
    <2> QED BY <1>3, <2>1, <2>2
  <1>5. SUFFICES ASSUME NEW j \in 1 .. len + 1
                 PROVE  /\ ranges'[j][1] <= ranges'[j][2]
                        /\ ranges'[j][2] <= p[2]
                        /\ \A i \in 1 .. j - 1 : \/ ranges'[i][2] < ranges'[j][1]
                                                 \/ i = 1 /\ j = 2 /\ ranges'[2] = ranges'[1]
    BY <1>1 DEF Sorted
  <1>6. CASE j <= len
    <2>1. j \in 1 .. len /\ (\A i \in 1 .. j - 1 : i \in 1 .. len) /\ 1 \in 1 .. len
      BY <1>1, <1>2, <1>6
    <2>2. /\ ranges[j][1] <= ranges[j][2]
          /\ ranges[j][2] <= BackSecond
          /\ \A i \in 1 .. j - 1 : \/ ranges[i][2] < ranges[j][1]
                                   \/ i = 1 /\ j = 2 /\ ranges[2] = ranges[1]
      BY <2>1 DEF Sorted
    <2>3. ranges[j][2] <= p[2]
      BY <1>3, <1>4, <2>1, <2>2
    <2> QED BY <1>1, <2>1, <2>2, <2>3
  <1>7. CASE j = len + 1
    <2>1. ranges'[j] = p /\ j - 1 = len
      BY <1>1, <1>7
    <2>2. CASE p[1] = BackSecond + 1
      <3>1. \A i \in 1 .. len : ranges[i][2] <= BackSecond
        BY DEF Sorted
      <3>2. \A i \in 1 .. len : ranges[i][2] < p[1]
        BY <1>3, <1>4, <2>2, <3>1
      <3> QED BY <1>1, <1>3, <2>1, <3>2
    <2>3. CASE ranges = <<p>>
      <3>1. len = 1 /\ ranges[1] = p
        BY <2>3
      <3> QED BY <1>1, <1>3, <1>7, <2>1, <3>1
    <2> QED BY <2>2, <2>3
  <1> QED BY <1>1, <1>6, <1>7

(* The keys up to the end of a range that is pushed to the back are held if those before
   the start of that range were. *)
LEMMA PushCovered ==
  ASSUME GenTypeOK, ranges # <<>>, CoveredSoFar, args' = args, NEW p \in Pairs,
         ranges' = Append(ranges, p), p[1] <= BackSecond + 1, BackSecond \in Nat
  PROVE  CoveredSoFar'
  <1> DEFINE len == Len(ranges)
  <1>1. /\ len \in Nat /\ Len(ranges') = len + 1 /\ ranges' \in Seq(Pairs)
        /\ \A i \in 1 .. len : ranges'[i] = ranges[i]
        /\ ranges'[len + 1] = p
        /\ BackSecond' = p[2]
    BY PushBack DEF GenTypeOK
  <1>2. DOMAIN ranges' = 1 .. len + 1 /\ DOMAIN ranges = 1 .. len
    BY <1>1, LenProperties DEF GenTypeOK
  <1>3. args.start \in Nat
    BY CallFacts DEF GenTypeOK
  <1>4. SUFFICES ASSUME NEW k \in args.start .. p[2]
                 PROVE  \E i \in DOMAIN ranges' : In(k, ranges'[i])
    BY <1>1 DEF CoveredSoFar, In
  <1>5. k \in Nat /\ args.start <= k /\ k <= p[2] /\ p[1] \in Nat /\ p[2] \in Nat
    BY <1>3 DEF Pairs
  <1>6. CASE k <= BackSecond
    <2>1. PICK i \in DOMAIN ranges : In(k, ranges[i])
      BY <1>3, <1>5, <1>6 DEF CoveredSoFar
    <2>2. i \in DOMAIN ranges' /\ ranges'[i] = ranges[i]
      BY <1>1, <1>2
    <2> QED BY <2>1, <2>2
  <1>7. CASE k > BackSecond
    <2>1. In(k, ranges'[len + 1])
      BY <1>1, <1>5, <1>7 DEF In
    <2> QED BY <1>1, <1>2, <2>1
  <1> QED BY <1>5, <1>6, <1>7

(* What both pushes keep: the second range, which is the first one again, and every later
   one, which follows on the last. *)
LEMMA PushBuilt ==
  ASSUME GenTypeOK, Built, ranges # <<>>, args' = args, NEW p \in Pairs,
         ranges' = Append(ranges, p), Len(ranges) <= args.numShards,
         \/ p[1] = BackSecond + 1 /\ p[2] >= BackSecond + range + 1
         \/ ranges = <<p>> /\ p[1] = args.start /\ p[2] = args.start + range + 1
  PROVE  Built' /\ BackSecond' = p[2] /\ Len(ranges') = Len(ranges) + 1
  <1> DEFINE len == Len(ranges)
  <1>1. /\ len \in Nat /\ Len(ranges') = len + 1 /\ BackSecond' = p[2]
    BY PushBack DEF GenTypeOK
  <1>2. len > 0 /\ BackSecond \in Nat
    <2>1. len > 0
      BY <1>1, EmptySeq, LenProperties DEF GenTypeOK
    <2>2. ranges[len] \in Pairs
      BY <1>1, <2>1, ElementOfSeq DEF GenTypeOK
    <2> QED BY <2>1, <2>2 DEF BackSecond, Pairs
  <1>3. /\ args.start \in Nat /\ args.numShards \in Nat /\ range \in Nat
        /\ p[1] \in Nat /\ p[2] \in Nat
    BY CallFacts DEF GenTypeOK, range, Pairs
  <1>4. range' = range
    BY DEF range
  <1>5. Contiguous'
    BY PushContiguous DEF GenTypeOK, Built
  <1>6. p[1] <= BackSecond + 1
    <2>1. CASE ranges = <<p>> /\ p[1] = args.start /\ p[2] = args.start + range + 1
      <3>1. BackSecond = p[2]
        BY <2>1 DEF BackSecond
      <3> QED BY <2>1, <3>1, <1>3
    <2> QED BY <2>1, <1>2
  <1>7. CoveredSoFar'
    BY <1>2, <1>6, PushCovered DEF Built
  <1>8. LongEnough'
    <2>1. (len - 1) * (range + 1) + args.start <= BackSecond + 1
      BY DEF Built, LongEnough
    <2>2. len * (range + 1) = (len - 1) * (range + 1) + (range + 1)
      BY <1>1, <1>3
    <2>3. CASE p[1] = BackSecond + 1 /\ p[2] >= BackSecond + range + 1
      <3>0. len - 1 \in Nat /\ range + 1 \in Nat
        BY <1>1, <1>2, <1>3
      <3>1. (len - 1) * (range + 1) \in Nat
        BY <3>0, TimesMonotone
      <3>2. len * (range + 1) + args.start <= p[2] + 1
        BY <2>1, <2>2, <2>3, <3>1, <1>2, <1>3
      <3> QED BY <3>2, <1>1, <1>4 DEF LongEnough
    <2>4. CASE ranges = <<p>> /\ p[1] = args.start /\ p[2] = args.start + range + 1
      <3>1. len = 1
        BY <2>4
      <3>2. len * (range + 1) + args.start <= p[2] + 1
        BY <2>4, <3>1, <1>3
      <3> QED BY <3>2, <1>1, <1>4 DEF LongEnough
    <2> QED BY <2>3, <2>4
  <1>9. RangesBounded'
    BY <1>1, <1>3 DEF RangesBounded
  <1>10. Sorted'
    <2>1. p[1] <= p[2]
      BY <1>2, <1>3
    <2> QED BY <2>1, PushSorted DEF GenTypeOK, Built
  <1> QED BY <1>1, <1>4, <1>5, <1>7, <1>8, <1>9, <1>10 DEF Built

--------------------------------------------------------------------------------

(* The empty map is where the function begins. *)
LEMMA GenInvInit == GenInit => GenInv
  <1> SUFFICES ASSUME GenInit PROVE GenInv
    OBVIOUS
  <1>1. args.start \in Nat
    BY CallFacts DEF GenInit
  <1>2. <<>> \in Seq(Pairs)
    BY EmptySeq
  <1> QED BY <1>1, <1>2 DEF GenInit, GenInv, GenTypeOK

(* The first range. *)
LEMMA BeginKeeps == ASSUME GenInv, Begin PROVE GenInv'
  <1> DEFINE last == args.start + range + 1
  <1>1. /\ args.start \in Nat /\ args.end \in Nat /\ args.numShards \in Nat \ {0}
        /\ args.start <= args.end /\ range \in Nat
        /\ args.end + 2 * args.numShards + range < KeyLimit
        /\ start = args.start /\ index = 0 /\ ranges = <<>> /\ args \in Calls
        /\ KeyLimit \in Nat
    BY CallFacts, CallsAssumption DEF GenInv, GenTypeOK, Begin, range
  <1>2. UNCHANGED <<args, start, index, range>>
    BY DEF Begin, range
  <1>3. CASE range <= 0 /\ genAt' = "returned" /\ UNCHANGED ranges
    BY <1>1, <1>2, <1>3 DEF GenInv, GenTypeOK
  <1>4. CASE range > 0 /\ genAt' = "spread" /\ ranges' = <<<<start, Wrap(start + range + 1)>>>>
    <2>0. args.numShards >= 1
      BY <1>1
    <2> DEFINE n == args.numShards
               r == range
    <2>1. last < KeyLimit /\ last \in Nat
      <3>1. /\ args.start \in Nat /\ args.end \in Nat /\ n \in Nat /\ r \in Nat /\ KeyLimit \in Nat
            /\ args.start <= args.end /\ n >= 1 /\ args.end + 2 * n + r < KeyLimit
        BY <1>1, <2>0
      <3>2. args.start + r + 1 < KeyLimit /\ args.start + r + 1 \in Nat
        <4> HIDE DEF n, r
        <4> QED BY <3>1
      <3> QED BY <3>2
    <2>2. ranges' = <<<<args.start, last>>>>
      BY <1>1, <1>4, <2>1, NoWrap
    <2>3. /\ Len(ranges') = 1 /\ ranges'[1] = <<args.start, last>> /\ DOMAIN ranges' = {1}
          /\ ranges' \in Seq(Pairs) /\ ranges' # <<>>
      BY <1>1, <2>1, <2>2 DEF Pairs
    <2>4. BackSecond' = last
      BY <2>3 DEF BackSecond
    <2>5. Contiguous' /\ Sorted'
      BY <1>1, <2>1, <2>3, <2>4 DEF Contiguous, Sorted
    <2>6. CoveredSoFar'
      BY <1>1, <1>2, <2>1, <2>3, <2>4 DEF CoveredSoFar, In
    <2>7. LongEnough' /\ RangesBounded'
      BY SMTT(30), <1>1, <1>2, <2>3, <2>4 DEF LongEnough, RangesBounded
    <2>8. GenTypeOK'
      BY <1>1, <1>2, <1>4, <2>3 DEF GenTypeOK
    <2>9. Spreading'
      <3>0. range \in Nat \ {0}
        BY <1>1, <1>4
      <3>1. args.numShards % range \in Nat
        BY <1>1, <3>0, ModBound
      <3> QED BY <1>1, <1>2, <2>2, <2>3, <3>1 DEF Spreading
    <2> QED BY <1>2, <1>4, <2>3, <2>5, <2>6, <2>7, <2>8, <2>9 DEF GenInv, Built
  <1> QED BY <1>2, <1>3, <1>4 DEF Begin

(* One of the longer ranges: its start is far enough below the limit. *)
LEMMA SpreadKeeps == ASSUME GenInv, Spread PROVE GenInv'
  <1> DEFINE n == args.numShards
             top == start + range + 2
             p == <<start, start + range + 1>>
  <1>1. /\ args.start \in Nat /\ args.end \in Nat /\ n \in Nat \ {0}
        /\ args.start <= args.end /\ range \in Nat
        /\ range * n <= args.end - args.start
        /\ args.end + 2 * n + range < KeyLimit
        /\ start \in Nat /\ index \in Nat /\ args \in Calls
        /\ KeyLimit \in Nat
    BY CallFacts, CallsAssumption DEF GenInv, GenTypeOK, range
  <1>2. UNCHANGED <<args, genAt, range>> /\ index' = index + 1 /\ genAt = "spread"
    BY DEF Spread, range
  <1>3. GenTypeOK /\ Built /\ ranges # <<>> /\ Spreading /\ range > 0
    BY <1>2 DEF GenInv, Built
  <1>4. n % range \in Nat /\ n % range <= n /\ index + 1 <= n % range
    <2>1. range \in Nat \ {0} /\ n \in Nat
      BY <1>1, <1>3
    <2>2. n % range \in Nat /\ n % range <= n
      BY <2>1, ModBound
    <2>3. index < n % range
      BY DEF Spread
    <2> QED BY <1>1, <2>2, <2>3
  <1>5. top <= args.end + 2 * n
    <2>1. (index + 1) * (range + 2) <= n * (range + 2)
      <3>1. index + 1 \in Nat /\ range + 2 \in Nat /\ n \in Nat /\ index + 1 <= n
        BY <1>1, <1>4
      <3> QED BY <3>1, TimesMonotone
    <2>2. n * (range + 2) = range * n + 2 * n
      BY <1>1, Products
    <2>3. (index + 1) * (range + 2) = index * (range + 2) + range + 2
      BY <1>1, Products
    <2>4. start = args.start + index * (range + 2)
      BY <1>3 DEF Spreading
    <2>5. /\ index * (range + 2) \in Int /\ n * (range + 2) \in Int
          /\ range * n \in Int
      BY <1>1, Products
    <2> HIDE DEF n
    <2> QED BY <1>1, <2>1, <2>2, <2>3, <2>4, <2>5
  <1>6. ranges' = Append(ranges, p) /\ start' = top
    <2>1. /\ start + range + 1 \in Nat /\ start + range + 1 < KeyLimit
          /\ top \in Nat /\ top < KeyLimit
      BY <1>1, <1>5
    <2> QED BY <2>1, NoWrap DEF Spread
  <1>7. p \in Pairs /\ p[1] = start /\ p[2] = start + range + 1
    BY <1>1 DEF Pairs
  <1>8. Len(ranges) = index + 1 /\ Len(ranges) <= n
    BY <1>1, <1>3, <1>4 DEF Spreading
  <1>9. \/ p[1] = BackSecond + 1 /\ p[2] >= BackSecond + range + 1
        \/ ranges = <<p>> /\ p[1] = args.start /\ p[2] = args.start + range + 1
    <2>1. CASE index = 0
      <3>1. start = args.start
        BY <1>1, <1>3, <2>1 DEF Spreading
      <3> QED BY <1>3, <1>7, <2>1, <3>1 DEF Spreading
    <2>2. CASE index > 0
      <3>1. BackSecond + 1 = start
        BY <1>3, <2>2 DEF Spreading
      <3>2. BackSecond \in Int
        <4>1. Len(ranges) \in 1 .. Len(ranges) /\ Len(ranges) \in Nat
          BY <1>1, <1>8
        <4>2. ranges[Len(ranges)] \in Pairs
          BY <4>1, <1>3, ElementOfSeq DEF GenTypeOK
        <4> QED BY <4>2 DEF BackSecond, Pairs
      <3> QED BY <1>1, <1>7, <3>1, <3>2
    <2> QED BY <1>1, <2>1, <2>2
  <1> HIDE DEF p
  <1>10. Built' /\ BackSecond' = p[2] /\ Len(ranges') = Len(ranges) + 1
    BY <1>2, <1>3, <1>6, <1>7, <1>8, <1>9, PushBuilt
  <1>11. ranges' \in Seq(Pairs) /\ ranges' # <<>>
    BY <1>3, <1>6, <1>7, PushBack DEF GenTypeOK
  <1>12. GenTypeOK'
    BY <1>1, <1>2, <1>3, <1>6, <1>11 DEF GenTypeOK
  <1>13. Spreading'
    <2>1. start' = args.start + (index + 1) * (range + 2)
      <3>1. start = args.start + index * (range + 2)
        BY <1>3 DEF Spreading
      <3>2. (index + 1) * (range + 2) = index * (range + 2) + range + 2
        BY <1>1, Products
      <3>3. index * (range + 2) \in Nat
        BY <1>1, Products
      <3> DEFINE before == index * (range + 2)
                 after == (index + 1) * (range + 2)
      <3>4. start = args.start + before /\ after = before + range + 2 /\ before \in Nat
        BY <3>1, <3>2, <3>3
      <3> HIDE DEF before, after
      <3>5. start' = args.start + after
        BY SMTT(30), <1>1, <1>6, <3>4
      <3> QED BY <3>5 DEF after
    <2>2. BackSecond' + 1 = start'
      BY <1>1, <1>6, <1>7, <1>10
    <2> QED BY <1>1, <1>2, <1>4, <1>8, <1>10, <2>1, <2>2 DEF Spreading
  <1> QED BY <1>2, <1>10, <1>11, <1>12, <1>13 DEF GenInv

(* One of the ranges that follow: there are fewer than numShards before it. *)
LEMMA FillKeeps == ASSUME GenInv, Fill PROVE GenInv'
  <1> DEFINE n == args.numShards
             len == Len(ranges)
             p == <<BackSecond + 1, BackSecond + 1 + range>>
  <1>1. /\ args.start \in Nat /\ args.end \in Nat /\ n \in Nat \ {0}
        /\ args.start <= args.end /\ range \in Nat
        /\ args.end - args.start < (range + 1) * n
        /\ args.end + 2 * n + range < KeyLimit
        /\ start \in Nat /\ index \in Nat /\ args \in Calls
        /\ KeyLimit \in Nat
    BY CallFacts, CallsAssumption DEF GenInv, GenTypeOK, range
  <1>2. UNCHANGED <<args, genAt, start, index, range>> /\ genAt = "fill"
    BY DEF Fill, range
  <1>3. GenTypeOK /\ Built /\ ranges # <<>>
    BY <1>2 DEF GenInv
  <1>4. len \in Nat /\ len > 0 /\ BackSecond \in Nat
    <2>1. len \in Nat /\ len > 0
      BY <1>3, EmptySeq, LenProperties DEF GenTypeOK
    <2>2. ranges[len] \in Pairs
      BY <1>3, <2>1, ElementOfSeq DEF GenTypeOK
    <2> QED BY <2>1, <2>2 DEF BackSecond, Pairs
  <1>5. BackSecond < args.end
    BY DEF Fill
  <1>6. len <= n
    <2>1. (len - 1) * (range + 1) + args.start <= BackSecond + 1
      BY <1>3 DEF Built, LongEnough
    <2>2. len - 1 \in Nat /\ n \in Nat /\ range + 1 \in Nat \ {0}
      BY <1>1, <1>4
    <2>3. (range + 1) * n = n * (range + 1)
      BY <1>1
    <2>4. (len - 1) * (range + 1) \in Nat /\ n * (range + 1) \in Nat
      BY <2>2, TimesMonotone
    <2>5. (len - 1) * (range + 1) < n * (range + 1)
      <3> HIDE DEF n, len
      <3> QED BY <1>1, <1>4, <1>5, <2>1, <2>3, <2>4
    <2>6. len - 1 < n
      BY <2>2, <2>5, TimesCancel
    <2> QED BY <1>1, <1>4, <2>6
  <1>7. ranges' = Append(ranges, p)
    <2>1. /\ BackSecond + 1 \in Nat /\ BackSecond + 1 < KeyLimit
          /\ BackSecond + 1 + range \in Nat /\ BackSecond + 1 + range < KeyLimit
      BY SMTT(30), <1>1, <1>4, <1>5
    <2> QED BY <2>1, NoWrap DEF Fill
  <1>8. p \in Pairs /\ p[1] = BackSecond + 1 /\ p[2] >= BackSecond + range + 1
    BY SMTT(30), <1>1, <1>4 DEF Pairs
  <1> HIDE DEF p
  <1>9. Built'
    BY <1>2, <1>3, <1>6, <1>7, <1>8, PushBuilt
  <1>10. ranges' \in Seq(Pairs) /\ ranges' # <<>>
    BY <1>3, <1>7, <1>8, PushBack DEF GenTypeOK
  <1>11. GenTypeOK'
    BY <1>1, <1>2, <1>3, <1>10 DEF GenTypeOK
  <1> QED BY <1>2, <1>9, <1>10, <1>11 DEF GenInv

(* The steps that leave the map alone: the ends of the loops, and none. *)
LEMMA EndsKeep == ASSUME GenInv, EndSpread \/ EndFill \/ UNCHANGED genVars PROVE GenInv'
  <1>1. UNCHANGED <<args, start, index, ranges>>
    BY DEF EndSpread, EndFill, genVars
  <1>2. UNCHANGED <<range, BackSecond, Contiguous, Sorted, CoveredSoFar, LongEnough, RangesBounded>>
    BY <1>1 DEF range, BackSecond, Contiguous, Sorted, CoveredSoFar, LongEnough, RangesBounded
  <1>3. UNCHANGED <<Built, Spreading>>
    BY <1>1, <1>2 DEF Built, Spreading
  <1>4. CASE EndSpread
    BY <1>1, <1>2, <1>3, <1>4 DEF EndSpread, GenInv, GenTypeOK
  <1>5. CASE EndFill
    BY <1>1, <1>2, <1>3, <1>5 DEF EndFill, GenInv, GenTypeOK
  <1>6. CASE UNCHANGED genVars
    BY <1>1, <1>2, <1>3, <1>6 DEF genVars, GenInv, GenTypeOK
  <1> QED BY <1>4, <1>5, <1>6

(* GenInv is an invariant of generateShardKeyRangeMap. *)
LEMMA GenStep == ASSUME GenInv, [GenNext]_genVars PROVE GenInv'
  BY BeginKeeps, SpreadKeeps, FillKeeps, EndsKeep DEF GenNext

(* What the end of the last range is when there is one. *)
LEMMA BackIsKey == ASSUME GenInv, ranges # <<>> PROVE BackSecond \in Nat
  <1>1. Len(ranges) \in Nat /\ Len(ranges) > 0 /\ ranges \in Seq(Pairs)
    BY EmptySeq, LenProperties DEF GenInv, GenTypeOK
  <1>2. ranges[Len(ranges)] \in Pairs
    BY <1>1, ElementOfSeq
  <1> QED BY <1>2 DEF BackSecond, Pairs

(* Returned ranges hold every key. *)
LEMMA GenCovers == ASSUME GenInv PROVE KeysCovered
  <1> SUFFICES ASSUME genAt = "returned", ranges # <<>>,
                      NEW k \in args.start .. args.end
               PROVE  \E i \in DOMAIN ranges : In(k, ranges[i])
    BY DEF KeysCovered
  <1>1. args.start \in Nat /\ args.end \in Nat
    BY CallFacts DEF GenInv, GenTypeOK
  <1>2. BackSecond >= args.end /\ CoveredSoFar
    BY DEF GenInv, Built
  <1>3. k \in args.start .. BackSecond
    BY <1>1, <1>2, BackIsKey
  <1> QED BY <1>2, <1>3 DEF CoveredSoFar

(* The ranges ascend. *)
LEMMA GenAscends == ASSUME GenInv PROVE RangesAscend
  <1> SUFFICES ASSUME NEW i \in 2 .. Len(ranges)
               PROVE  \/ ranges[i - 1][2] < ranges[i][1]
                      \/ i = 2 /\ ranges[2] = ranges[1]
    BY DEF RangesAscend
  <1>1. ranges \in Seq(Pairs) /\ Len(ranges) \in Nat
    BY LenProperties DEF GenInv, GenTypeOK
  <1>2. ranges # <<>> /\ i - 1 \in 1 .. Len(ranges)
    BY <1>1
  <1>3. ranges[i - 1][2] \in Nat
    <2>1. ranges[i - 1] \in Pairs
      BY <1>1, <1>2, ElementOfSeq
    <2> QED BY <2>1 DEF Pairs
  <1>4. Contiguous
    BY <1>2 DEF GenInv, Built
  <1> QED BY <1>3, <1>4 DEF Contiguous

(* There are not too many of them. *)
LEMMA GenBounded == ASSUME GenInv PROVE RangesBounded
  <1>1. CASE ranges = <<>>
    <2>1. args.numShards \in Nat
      BY CallFacts DEF GenInv, GenTypeOK
    <2> QED BY <1>1, <2>1 DEF RangesBounded
  <1>2. CASE ranges # <<>>
    BY <1>2 DEF GenInv, Built
  <1> QED BY <1>1, <1>2

(* GenInv is an invariant of generateShardKeyRangeMap. *)
THEOREM GenInvariant == GenSpec => []GenInv
  <1>1. GenInv /\ [GenNext]_genVars => GenInv'
    BY GenStep
  <1> QED BY <1>1, GenInvInit, PTL DEF GenSpec

--------------------------------------------------------------------------------

\* No call of generateShardKeyRangeMap yet.
NotCalled == genAt = "idle" /\ args \in Calls /\ ranges = <<>>

\* A call with a positive range does not return without ranges.
ReturnsRanges == genAt = "returned" /\ range > 0 => ranges # <<>>

\* The temporary mapping is empty between two services and while the ranges are cut.
TempClean == svcId = NoService \/ genAt # "returned" => tempShardMapping = <<>> /\ visited = 0

\* It holds the ranges visited so far, one shard each.
TempFollows == svcId # NoService /\ svcId \notin collided =>
                  /\ tempShardMapping \in Seq(Pairs)
                  /\ Len(tempShardMapping) = visited
                  /\ \A i \in 1 .. visited : tempShardMapping[i] = ranges[i]

\* Every key is in one of these ranges, or in the doubled first one.
HoldsKeys(rs) ==
    \A k \in args.start .. args.end :
       LET holders == {i \in DOMAIN rs : In(k, rs[i])}
       IN  holders # {} /\ (holders \subseteq {1, 2} \/ \E i \in holders : holders = {i})

\* The inductive invariant.
ManagerInv == /\ GenInv \/ NotCalled
              /\ DOMAIN shardMappings = Services
              /\ visited \in Nat
              /\ ReturnsRanges
              /\ TempClean
              /\ TempFollows
              /\ ServiceKeysCovered

(* Sorted ranges up to the end of the key space hold every key once, or in the first two. *)
LEMMA RangesHoldKeys ==
  ASSUME GenInv, genAt = "returned", ranges # <<>>
  PROVE  HoldsKeys(ranges)
  <1> SUFFICES ASSUME NEW k \in args.start .. args.end
               PROVE  LET holders == {i \in DOMAIN ranges : In(k, ranges[i])}
                      IN  holders # {} /\ (holders \subseteq {1, 2} \/ \E i \in holders : holders = {i})
    BY DEF HoldsKeys
  <1> DEFINE holders == {i \in DOMAIN ranges : In(k, ranges[i])}
  <1>1. holders # {}
    BY GenCovers DEF KeysCovered
  <1>2. Sorted /\ ranges \in Seq(Pairs)
    BY DEF GenInv, GenTypeOK, Built
  <1>3. DOMAIN ranges = 1 .. Len(ranges) /\ Len(ranges) \in Nat
    BY <1>2, LenProperties
  <1>4. \A i \in DOMAIN ranges : ranges[i][1] \in Nat /\ ranges[i][2] \in Nat
    <2>1. \A i \in DOMAIN ranges : ranges[i] \in Pairs
      BY <1>2, <1>3, ElementOfSeq
    <2> QED BY <2>1 DEF Pairs
  <1>5. k \in Int
    BY CallFacts DEF GenInv, GenTypeOK
  <1>6. \A i, j \in holders : i < j => i = 1 /\ j = 2
    <2> SUFFICES ASSUME NEW i \in holders, NEW j \in holders, i < j
                 PROVE  i = 1 /\ j = 2
      OBVIOUS
    <2>1. i \in 1 .. j - 1 /\ j \in 1 .. Len(ranges)
      BY <1>3
    <2>2. \/ ranges[i][2] < ranges[j][1]
          \/ i = 1 /\ j = 2
      BY <1>2, <2>1 DEF Sorted
    <2>3. k <= ranges[i][2] /\ ranges[j][1] <= k
      BY DEF In
    <2> QED BY <1>4, <1>5, <2>2, <2>3
  <1>7. PICK i \in holders : TRUE
    BY <1>1
  <1>8. CASE holders = {i}
    BY <1>1, <1>8
  <1>9. CASE holders # {i}
    <2>1. PICK j \in holders : j # i
      BY <1>9
    <2>0. \A h \in holders : h \in Nat
      BY <1>3
    <2> HIDE DEF holders
    <2>2. 1 \in holders /\ 2 \in holders
      BY <1>6, <2>0, <2>1
    <2>3. ASSUME NEW h \in holders PROVE h \in {1, 2}
      <3>1. CASE h < 2
        BY <1>6, <2>2, <3>1
      <3>2. CASE 2 < h
        BY <1>6, <2>2, <3>2
      <3> QED BY <2>0, <3>1, <3>2
    <2>4. holders \subseteq {1, 2}
      BY <2>3
    <2> QED BY <1>1, <2>4 DEF holders
  <1> QED BY <1>8, <1>9

(* A mapping with the same ranges at the same places holds the same keys. *)
LEMMA CopyHoldsKeys ==
  ASSUME HoldsKeys(ranges), ranges \in Seq(Pairs), NEW rs \in Seq(Pairs), Len(rs) = Len(ranges),
         \A i \in 1 .. Len(ranges) : rs[i] = ranges[i]
  PROVE  HoldsKeys(rs)
  <1>1. DOMAIN rs = DOMAIN ranges /\ DOMAIN ranges = 1 .. Len(ranges)
    BY LenProperties
  <1>2. \A k \in args.start .. args.end :
           {i \in DOMAIN rs : In(k, rs[i])} = {i \in DOMAIN ranges : In(k, ranges[i])}
    BY <1>1
  <1> QED BY <1>2 DEF HoldsKeys

(* The properties of the services, by service. *)
LEMMA CoveredByService ==
  ServiceKeysCovered <=> \A s \in Services :
     shardMappings[s] # NoMapping /\ s \notin collided /\ range > 0 => HoldsKeys(shardMappings[s])
  BY DEF ServiceKeysCovered, HoldsKeys

(* No service has its shards at first. *)
LEMMA ManagerInvInit == ManagerInit => ManagerInv
  BY DEF ManagerInit, ManagerInv, NotCalled, ReturnsRanges, TempClean, TempFollows,
         ServiceKeysCovered

(* What a step keeps that changes neither the mappings nor the arguments. *)
LEMMA CoveredKept ==
  ASSUME ServiceKeysCovered, UNCHANGED <<args, shardMappings>>, collided \subseteq collided'
  PROVE  ServiceKeysCovered'
  <1>1. range' = range
    BY DEF range
  <1> QED BY <1>1 DEF ServiceKeysCovered

(* A call for some services, and the services that are skipped. *)
LEMMA VisitsKeep ==
  ASSUME ManagerInv,
         \/ \E ids \in SUBSET Services : PopulateShardMap(ids)
         \/ \E s \in Services : SkipMapped(s)
         \/ UNCHANGED managerVars
  PROVE  ManagerInv'
  <1>1. UNCHANGED <<genVars, shardMappings, svcId, tempShardMapping, visited, collided>>
    BY DEF PopulateShardMap, SkipMapped, managerVars, manager
  <1>2. UNCHANGED <<args, genAt, start, index, ranges>>
    BY <1>1 DEF genVars
  <1>3. GenInv' \/ NotCalled'
    BY <1>1, <1>2, EndsKeep DEF ManagerInv, NotCalled
  <1>4. ServiceKeysCovered'
    BY <1>1, <1>2, CoveredKept DEF ManagerInv
  <1>5. range' = range
    BY <1>2 DEF range
  <1> QED BY <1>1, <1>2, <1>3, <1>4, <1>5 DEF ManagerInv, ReturnsRanges, TempClean, TempFollows

(* The call of generateShardKeyRangeMap. *)
LEMMA GenerateForKeeps ==
  ASSUME ManagerInv, NEW s \in Services, GenerateFor(s)
  PROVE  ManagerInv'
  <1>1. args \in Calls
    BY DEF ManagerInv, GenInv, GenTypeOK, NotCalled
  <1>2. /\ args' = args /\ genAt' = "begin" /\ start' = args.start /\ index' = 0 /\ ranges' = <<>>
        /\ UNCHANGED <<shardMappings, tempShardMapping, visited, collided>>
    BY DEF GenerateFor
  <1>3. GenInv'
    <2>1. args.start \in Nat
      BY <1>1, CallFacts
    <2>2. <<>> \in Seq(Pairs)
      BY EmptySeq
    <2> QED BY <1>1, <1>2, <2>1, <2>2 DEF GenInv, GenTypeOK
  <1>4. tempShardMapping = <<>> /\ visited = 0
    BY DEF GenerateFor, ManagerInv, TempClean
  <1>5. TempFollows'
    BY <1>2, <1>4 DEF TempFollows
  <1>6. ServiceKeysCovered'
    BY <1>2, CoveredKept DEF ManagerInv
  <1> QED BY <1>2, <1>3, <1>4, <1>5, <1>6 DEF ManagerInv, ReturnsRanges, TempClean

(* A step of generateShardKeyRangeMap. *)
LEMMA GenerateKeeps == ASSUME ManagerInv, Generate PROVE ManagerInv'
  <1>1. GenNext /\ UNCHANGED <<shardMappings, serviceIds, svcId, tempShardMapping, visited, collided>>
    BY DEF Generate, manager
  <1>2. genAt \in {"begin", "spread", "fill"} /\ args' = args
    BY <1>1 DEF GenNext, Begin, Spread, EndSpread, Fill, EndFill
  <1>3. GenInv
    BY <1>2 DEF ManagerInv, NotCalled
  <1>4. GenInv'
    BY <1>1, <1>3, GenStep
  <1>5. tempShardMapping = <<>> /\ visited = 0
    BY <1>2 DEF ManagerInv, TempClean
  <1>6. TempClean' /\ TempFollows'
    BY <1>1, <1>5 DEF TempClean, TempFollows
  <1>7. ServiceKeysCovered'
    BY <1>1, <1>2, CoveredKept DEF ManagerInv
  <1>8. ReturnsRanges'
    <2>1. range' = range
      BY <1>2 DEF range
    <2>2. SUFFICES ASSUME genAt' = "returned", range > 0
                   PROVE  ranges' # <<>>
      BY <2>1 DEF ReturnsRanges
    <2>3. EndFill
      <3>1. range \in Nat
        BY <1>3, CallFacts DEF GenInv, GenTypeOK, range
      <3> QED BY <1>1, <1>2, <2>2, <3>1 DEF GenNext, Begin, Spread, EndSpread, Fill
    <2> QED BY <1>3, <2>3 DEF EndFill, GenInv
  <1> QED BY <1>1, <1>4, <1>6, <1>7, <1>8 DEF ManagerInv

(* A shard for the next range, or a lost one. *)
LEMMA AddShardKeeps == ASSUME ManagerInv, AddShard PROVE ManagerInv'
  <1>1. /\ UNCHANGED <<args, genAt, start, index, ranges, shardMappings, svcId>>
        /\ genAt = "returned" /\ svcId # NoService /\ visited < Len(ranges) /\ visited' = visited + 1
    BY DEF AddShard, genVars
  <1>2. GenInv
    BY <1>1 DEF ManagerInv, NotCalled
  <1>3. GenInv' /\ range' = range
    BY <1>1, <1>2, EndsKeep DEF genVars, range
  <1>4. visited \in Nat /\ ranges \in Seq(Pairs) /\ Len(ranges) \in Nat
    BY <1>2, LenProperties DEF ManagerInv, GenInv, GenTypeOK
  <1>5. collided \subseteq collided'
    BY DEF AddShard
  <1>6. TempFollows'
    <2> SUFFICES ASSUME svcId \notin collided'
                 PROVE  TempFollows'
      BY <1>1 DEF TempFollows
    <2>1. tempShardMapping' = Append(tempShardMapping, ranges[visited + 1])
      BY DEF AddShard
    <2>2. /\ tempShardMapping \in Seq(Pairs) /\ Len(tempShardMapping) = visited
          /\ \A i \in 1 .. visited : tempShardMapping[i] = ranges[i]
      BY <1>1, <1>5 DEF ManagerInv, TempFollows
    <2>3. ranges[visited + 1] \in Pairs
      BY <1>1, <1>4, ElementOfSeq
    <2>4. /\ tempShardMapping' \in Seq(Pairs) /\ Len(tempShardMapping') = visited + 1
          /\ \A i \in 1 .. visited : tempShardMapping'[i] = tempShardMapping[i]
          /\ tempShardMapping'[visited + 1] = ranges[visited + 1]
      BY <2>1, <2>2, <2>3, AppendProperties
    <2>5. \A i \in 1 .. visited + 1 : tempShardMapping'[i] = ranges[i]
      BY <1>4, <2>2, <2>4
    <2> QED BY <1>1, <2>4, <2>5 DEF TempFollows
  <1>7. ServiceKeysCovered'
    BY <1>1, <1>5, CoveredKept DEF ManagerInv
  <1> QED BY <1>1, <1>3, <1>4, <1>6, <1>7 DEF ManagerInv, ReturnsRanges, TempClean

(* The mapping that is stored has all the ranges. *)
LEMMA StoreMappingKeeps == ASSUME ManagerInv, StoreMapping PROVE ManagerInv'
  <1>1. /\ UNCHANGED <<args, genAt, start, index, ranges, collided>>
        /\ genAt = "returned" /\ svcId # NoService /\ visited = Len(ranges)
        /\ shardMappings' = [shardMappings EXCEPT ![svcId] = tempShardMapping]
        /\ svcId' = NoService /\ tempShardMapping' = <<>> /\ visited' = 0
    BY DEF StoreMapping, genVars
  <1>2. GenInv
    BY <1>1 DEF ManagerInv, NotCalled
  <1>3. GenInv' /\ range' = range
    BY <1>1, <1>2, EndsKeep DEF genVars, range
  <1>4. ServiceKeysCovered'
    <2>1. SUFFICES ASSUME NEW s \in Services, shardMappings'[s] # NoMapping,
                          s \notin collided, range > 0
                   PROVE  HoldsKeys(shardMappings'[s])
      BY <1>1, <1>3 DEF ServiceKeysCovered, HoldsKeys
    <2>2. CASE s # svcId
      <3>1. shardMappings'[s] = shardMappings[s]
        BY <1>1, <2>2 DEF ManagerInv
      <3> QED BY <2>1, <3>1, CoveredByService DEF ManagerInv
    <2>3. CASE s = svcId
      <3>1. shardMappings'[s] = tempShardMapping
        BY <1>1, <2>3 DEF ManagerInv
      <3>2. HoldsKeys(ranges) /\ ranges \in Seq(Pairs)
        BY <1>1, <1>2, <2>1, RangesHoldKeys DEF ManagerInv, ReturnsRanges, GenInv, GenTypeOK
      <3>3. /\ tempShardMapping \in Seq(Pairs) /\ Len(tempShardMapping) = Len(ranges)
            /\ \A i \in 1 .. Len(ranges) : tempShardMapping[i] = ranges[i]
        BY <1>1, <2>1, <2>3 DEF ManagerInv, TempFollows
      <3> QED BY <3>1, <3>2, <3>3, CopyHoldsKeys
    <2> QED BY <2>2, <2>3
  <1> QED BY <1>1, <1>3, <1>4 DEF ManagerInv, ReturnsRanges, TempClean, TempFollows

(* ManagerInv is an invariant of populateShardMap. *)
THEOREM ManagerInvariant == ManagerSpec => []ManagerInv
  <1>1. ManagerInv /\ [ManagerNext]_managerVars => ManagerInv'
    BY VisitsKeep, GenerateForKeeps, GenerateKeeps, AddShardKeeps, StoreMappingKeeps
       DEF ManagerNext, Populating
  <1> QED BY <1>1, ManagerInvInit, PTL DEF ManagerSpec

(* Every service whose ids did not collide holds every key, once or in the first two shards,
   however often populateShardMap is called and for whatever services. *)
THEOREM ServicesKeepTheirKeys == ManagerSpec => []ServiceKeysCovered
  <1>1. ManagerInv => ServiceKeysCovered
    BY DEF ManagerInv
  <1> QED BY <1>1, ManagerInvariant, PTL

(* The ranges that generateShardKeyRangeMap returns hold every key from start to end. *)
THEOREM AllKeysAreCovered == ManagerSpec => []KeysCovered
  <1>1. ManagerInv => KeysCovered
    BY GenCovers DEF ManagerInv, NotCalled, KeysCovered
  <1> QED BY <1>1, ManagerInvariant, PTL

(* The ranges ascend and do not overlap, but for the first one, which may be there twice. *)
THEOREM AllRangesAscend == ManagerSpec => []RangesAscend
  <1>1. ManagerInv => RangesAscend
    BY GenAscends DEF ManagerInv, NotCalled, RangesAscend
  <1> QED BY <1>1, ManagerInvariant, PTL

(* There is at most one range more than shards were asked for. *)
THEOREM RangesAreBounded == ManagerSpec => []RangesBounded
  <1>1. ManagerInv => RangesBounded
    <2> SUFFICES ASSUME ManagerInv, NotCalled PROVE RangesBounded
      BY GenBounded DEF ManagerInv
    <2>1. args.numShards \in Nat
      BY CallFacts DEF NotCalled
    <2> QED BY <2>1 DEF NotCalled, RangesBounded
  <1> QED BY <1>1, ManagerInvariant, PTL

================================================================================
