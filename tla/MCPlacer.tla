-------------------------------- MODULE MCPlacer --------------------------------
(* Constants of Placer for TLC: a default bin 0 and three containers, in two
   racks; three shards of which the last is the heaviest.  Placer computes its
   weights, so Weights is left empty; IntLimit is small because TLC's integers
   have 32 bits themselves. *)
EXTENDS Placer

MCShards == 1 .. 3
MCBins == 0 .. 3
MCRacks == <<[b \in MCBins |-> b \div 2]>>
MCMetrics == [m \in 0 .. 1 |-> [s \in MCShards |-> IF m = 0 /\ s = 3 THEN 2 ELSE 1]]

Drain(domain, ids, faultWeight) ==
    [kind |-> "drain", consistency |-> "AFTER", domain |-> domain, ids |-> ids,
     metric |-> 0, limit |-> 0, faultWeight |-> faultWeight]

Capacity(consistency, domain, ids, metric, limit, faultWeight) ==
    [kind |-> "capacity", consistency |-> consistency, domain |-> domain, ids |-> ids,
     metric |-> metric, limit |-> limit, faultWeight |-> faultWeight]

Balance(domain, ids, limit, faultWeight) ==
    [kind |-> "balance", consistency |-> "AFTER", domain |-> domain, ids |-> ids,
     metric |-> 0, limit |-> limit, faultWeight |-> faultWeight]

\* Drain the default bin, a capacity per container and one per rack: every
\* constraint kind whose incremental weight is meant to be exact.
MCExact == <<Drain(1, {0}, 20),
             Capacity("AFTER", 1, {1, 2, 3}, 0, 2, 3),
             Capacity("AFTER", 2, {0, 1}, 0, 1, 2)>>

\* The hypotheses of the theorems about exact weights, on this instance.
ASSUME ExactInstance == ConstraintList = MCExact => ExactList /\ DrainOutweighs

\* The drain and the BOTH capacity of TestTree.cpp in small, and load balancing
\* over the containers and over the racks.
MCCovered == <<Drain(1, {0}, 40),
               Capacity("BOTH", 1, {1, 2, 3}, 0, 2, 3),
               Balance(1, {1, 2, 3}, 1, 1),
               Balance(2, {0, 1}, 1, 1)>>

\* The hypotheses of the theorems about the values that these keep.
ASSUME CoveredInstance == ConstraintList = MCCovered => BothFits /\ BalanceFits

\* One constraint each, for what the code does with it.
MCBalanceOnly == <<Balance(1, {1, 2, 3}, 0, 1)>>
MCCapacityOfOther == <<Capacity("AFTER", 1, {1, 2, 3}, 1, 1, 3)>>
MCContainersFirst == <<Drain(1, {0}, 1), Capacity("AFTER", 1, {1, 2, 3}, 0, 0, 5)>>

================================================================================
