---------------------------- MODULE ConstraintUtils ----------------------------
(***************************************************************************)
(* The functions that compute the value of one node of a constraint's tree  *)
(* (constraints/ConstraintUtils.h, LoadBalancingConstraint::calculate).     *)
(*                                                                          *)
(* A constraint is a record of its constructor's arguments:                 *)
(*   kind        : "capacity" (class MetricConstraint), "drain" or "balance"*)
(*                 (class LoadBalancingConstraint)                          *)
(*   domain, ids : the constrained nodes                                    *)
(*   consistency : "BEFORE", "AFTER", "BOTH" or "DURING"                    *)
(*   metric      : the metric that capacity and balance are about           *)
(*   limit       : capacity_ or maxDelta_                                   *)
(*   faultWeight : faultWeight_ or faultWeightMultiplier_ (an integer here) *)
(***************************************************************************)
EXTENDS SparseMappingTree, Committable, FiniteSetsExt

CONSTANTS
    ShardMetric,  \* metricVectors_: [metric][shard], as getShardMetric reads it
    IntLimit      \* one more than the largest int and int32_t: 2^31 in the code

ASSUME IntLimitAssumption == IntLimit \in Nat \ {0}

\* Conversion to int or int32_t, which wraps.
ToInt(x) == ((x + IntLimit) % (2 * IntLimit)) - IntLimit

Magnitude(x) == IF x < 0 THEN -x ELSE x

\* shouldConsiderShard, both overloads: the loop stops at the first map that
\* sends the shard to another bin.
ShouldConsiderShard(consistency, maps, s, b) ==
    LET moving      == \E i \in DOMAIN maps : maps[i].next[s] # NoBin
        futureChild == \A i \in DOMAIN maps : maps[i].next[s] \in {NoBin, b}
    IN  CASE consistency = "BEFORE" -> ~futureChild
          [] consistency = "AFTER"  -> futureChild
          [] consistency = "BOTH"   -> TRUE
          [] consistency = "DURING" -> moving

\* Plausible slip: the two directions of a move are swapped.
SignSwapped(c, maps, s, b) == IF ShouldConsiderShard(c.consistency, maps, s, b) THEN -1 ELSE 1

\* A changed shard is added to the bin's value if it is considered, and
\* subtracted if not.
Sign(c, maps, s, b) == IF ShouldConsiderShard(c.consistency, maps, s, b) THEN 1 ELSE -1

\* The metric that sumOperator reads: its local variable metric, 0 when
\* getShardMetric is called, hides the parameter of that name.
SumMetric(c) == ShardMetric[0]

\* sumOperator
SumOperator(c, t, maps, metrics, d, n, children) ==
    LET delta(k) ==
          IF d = 1 THEN ParentTimes(t, maps, k, n) * Sign(c, maps, k, n) * SumMetric(c)[k]
          ELSE MapGetOr(metrics, <<d - 1, k>>, 0) - MapCommittedOr(metrics, <<d - 1, k>>, 0)
    IN  ToInt(MapGetOr(metrics, <<d, n>>, 0) + SumFunction([k \in children |-> delta(k)]))

\* shardCountOperator: above the bins every changed child counts 1.
ShardCountOperator(c, t, maps, metrics, d, n, children) ==
    LET delta(k) == IF d = 1 THEN ParentTimes(t, maps, k, n) * Sign(c, maps, k, n) ELSE 1
    IN  ToInt(MapGetOr(metrics, <<d, n>>, 0) + SumFunction([k \in children |-> delta(k)]))

\* LoadBalancingConstraint::calculate in the tree e: a bin's load afresh from the
\* assignment tree and the movement maps; above the bins, the extremum of the
\* children that have a value.
BalanceOperator(c, e, t, maps, metrics, d, n) ==
    IF d = 1
    THEN LET load(s) == IF ShouldConsiderShard("AFTER", maps, s, n)
                        THEN ChildTimes(t, maps, n, s) * ShardMetric[c.metric][s] ELSE 0
         IN  ToInt(SumFunction([s \in Shards |-> load(s)]))
    ELSE LET known == {MapGetOr(metrics, <<d - 1, k>>, 0) :
                         k \in {k \in t.nodes[d - 1] : t.up[d - 1][k] = n
                                                       /\ MapHas(metrics, <<d - 1, k>>)}}
         IN  IF known = {} THEN 0 ELSE IF e = "min" THEN Min(known) ELSE Max(known)

\* calcMetricFunc_ of the constraint's tree e: the new value of node <<d, n>>.
Calculate(c, e, t, maps, metrics, d, n, children) ==
    CASE c.kind = "capacity" -> SumOperator(c, t, maps, metrics, d, n, children)
      [] c.kind = "drain"    -> ShardCountOperator(c, t, maps, metrics, d, n, children)
      [] c.kind = "balance"  -> BalanceOperator(c, e, t, maps, metrics, d, n)

================================================================================
