----------------------------- MODULE MCLocalSearch -----------------------------
(* Constants of LocalSearch for TLC.  MaxIterations is the number
   of shards, so that the search stops at the limit when it moves every shard
   and by itself otherwise; SampleSize is below the number of other bins, so
   that the sample is a proper subset. *)
EXTENDS LocalSearch

CONSTANTS s1, s2, b1, b2, b3

MCShards == {s1, s2}
MCBins == {b1, b2, b3}
MCWeights == -1 .. 1

================================================================================
