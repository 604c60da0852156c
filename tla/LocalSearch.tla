------------------------------ MODULE LocalSearch ------------------------------
(***************************************************************************)
(* The control of IterativeLocalSearch::solve and getMovementForBin, for an *)
(* arbitrary cost: the weight a trial evaluates to is a parameter of the    *)
(* actions, and the specification of this module lets it be any member of   *)
(* Weights.  Module Placer supplies the weights the constraints compute.    *)
(*                                                                          *)
(* The order in which the bins are walked (std::sort of binWeights) is a    *)
(* parameter too; the random shard and the random sample of target bins are *)
(* nondeterministic choices, and so is the iteration order of the           *)
(* unordered_set binSet.                                                    *)
(***************************************************************************)
EXTENDS MovementMap, Integers, Sequences

CONSTANTS MaxIterations,  \* maxIterations_
          MaxPicks,       \* the shards tried per bin: 10 in the code
          SampleSize,     \* the target bins tried per shard: 50 in the code
          Weights         \* the values a total weight may have

ASSUME SearchAssumption == /\ MaxIterations \in Nat
                           /\ MaxPicks \in Nat
                           /\ SampleSize \in Nat
                           /\ Weights \subseteq Int
                           /\ IsFiniteSet(Shards)
                           /\ IsFiniteSet(Bins)

VARIABLES
    initialBin,      \* the assignment tree: the bin of every shard (read-only)
    pc,              \* where solve is
    iter,            \* iterations of solve completed, one committed move each
    committedMoves,  \* the MovementMap that solve returns
    currentWeight,   \* the weight of the last accepted arrangement
    binQueue,        \* binWeights from the bin being tried on
    picks,           \* shards of that bin picked so far
    tries,           \* the moves of the picked shard still to be tried
    canariedMoves    \* the MovementMap of the last trial

searchVars == <<initialBin, pc, iter, committedMoves, currentWeight, binQueue,
                picks, tries, canariedMoves>>

\* Plausible slip: shards that were already moved away are picked again.
ShardsInBinUnfiltered(bin) == {s \in Shards : initialBin[s] = bin}

\* The shards of the bin in the assignment tree that have no committed move.
ShardsInBin(bin) == {s \in Shards : /\ initialBin[s] = bin
                                    /\ committedMoves.next[s] = NoBin}

\* Every order in which solve may walk the bins.
BinOrders == {q \in [1 .. Cardinality(Bins) -> Bins] :
                \A i, j \in DOMAIN q : q[i] = q[j] => i = j}

\* Plausible slip: the loop stops one bin short of all the others.
BinSetsOneShort(bin) ==
    {B \in SUBSET (Bins \ {bin}) :
        LET others == Cardinality(Bins) - 2
        IN  Cardinality(B) = IF others < SampleSize THEN others ELSE SampleSize}

\* binSet: the while loop draws until it has all the other bins or SampleSize.
BinSets(bin) ==
    {B \in SUBSET (Bins \ {bin}) :
        LET others == Cardinality(Bins) - 1
        IN  Cardinality(B) = IF others < SampleSize THEN others ELSE SampleSize}

\* The canary map of a trial: cleared, then the one move added.
Trial(s, b) == AddMovement(ClearMovements(canariedMoves), s, b)

--------------------------------------------------------------------------------

\* The call of solve has not been made.
SearchInit == /\ initialBin \in [Shards -> Bins]
              /\ pc = "start"
              /\ iter = 0
              /\ committedMoves = EmptyMovements
              /\ currentWeight = 0
              /\ binQueue = <<>>
              /\ picks = 0
              /\ tries = {}
              /\ canariedMoves = EmptyMovements

\* solve is called; w is the total weight the constraints left.
SolveStart(w) ==
    /\ pc = "start"
    /\ pc' = "iterate"
    /\ currentWeight' = w
    /\ UNCHANGED <<initialBin, iter, committedMoves, binQueue, picks, tries, canariedMoves>>

\* The head of the loop of solve: the bins are ordered and walked.
StartIteration(order) ==
    /\ pc = "iterate"
    /\ iter < MaxIterations
    /\ pc' = "bins"
    /\ binQueue' = order
    /\ UNCHANGED <<initialBin, iter, committedMoves, currentWeight, picks, tries, canariedMoves>>

IterationsExhausted ==
    /\ pc = "iterate"
    /\ iter >= MaxIterations
    /\ pc' = "done"
    /\ UNCHANGED <<initialBin, iter, committedMoves, currentWeight, binQueue, picks, tries,
                   canariedMoves>>

\* getMovementForBin returns at once for a bin without shards left to move.
SkipBin ==
    /\ pc = "bins"
    /\ binQueue # <<>>
    /\ ShardsInBin(Head(binQueue)) = {}
    /\ binQueue' = Tail(binQueue)
    /\ UNCHANGED <<initialBin, pc, iter, committedMoves, currentWeight, picks, tries, canariedMoves>>

EnterBin ==
    /\ pc = "bins"
    /\ binQueue # <<>>
    /\ ShardsInBin(Head(binQueue)) # {}
    /\ pc' = "pick"
    /\ picks' = 0
    /\ canariedMoves' = EmptyMovements
    /\ UNCHANGED <<initialBin, iter, committedMoves, currentWeight, binQueue, tries>>

\* No bin had a movement: solve leaves its loop and returns.
NoMoveFound ==
    /\ pc = "bins"
    /\ binQueue = <<>>
    /\ pc' = "done"
    /\ UNCHANGED <<initialBin, iter, committedMoves, currentWeight, binQueue, picks, tries,
                   canariedMoves>>

\* Plausible slip: one shard too many is picked.
PickShardOnceMore(s, B) ==
    /\ pc = "pick"
    /\ picks <= MaxPicks
    /\ s \in ShardsInBin(Head(binQueue))
    /\ B \in BinSets(Head(binQueue))
    /\ pc' = "try"
    /\ picks' = picks + 1
    /\ tries' = {s} \X B
    /\ UNCHANGED <<initialBin, iter, committedMoves, currentWeight, binQueue, canariedMoves>>

\* The next round of the loop: a random shard of the bin and its target bins.
PickShard(s, B) ==
    /\ pc = "pick"
    /\ picks < MaxPicks
    /\ s \in ShardsInBin(Head(binQueue))
    /\ B \in BinSets(Head(binQueue))
    /\ pc' = "try"
    /\ picks' = picks + 1
    /\ tries' = {s} \X B
    /\ UNCHANGED <<initialBin, iter, committedMoves, currentWeight, binQueue, canariedMoves>>

\* The bin had MaxPicks shards tried in vain.
GiveUpBin ==
    /\ pc = "pick"
    /\ picks = MaxPicks
    /\ pc' = "bins"
    /\ binQueue' = Tail(binQueue)
    /\ canariedMoves' = EmptyMovements
    /\ UNCHANGED <<initialBin, iter, committedMoves, currentWeight, picks, tries>>

\* Plausible slip: the trial stays in the set, so it is tried for ever.
RejectMoveKept(s, b, w) ==
    /\ pc = "try"
    /\ <<s, b>> \in tries
    /\ w >= currentWeight
    /\ canariedMoves' = Trial(s, b)
    /\ UNCHANGED <<initialBin, pc, iter, committedMoves, currentWeight, binQueue, picks, tries>>

\* The trial's weight is not lower.
RejectMove(s, b, w) ==
    /\ pc = "try"
    /\ <<s, b>> \in tries
    /\ w >= currentWeight
    /\ tries' = tries \ {<<s, b>>}
    /\ canariedMoves' = Trial(s, b)
    /\ UNCHANGED <<initialBin, pc, iter, committedMoves, currentWeight, binQueue, picks>>

\* Plausible slip: an accepted move does not lower the bar.
AcceptMoveStaleWeight(s, b, w) ==
    /\ pc = "try"
    /\ <<s, b>> \in tries
    /\ w < currentWeight
    /\ pc' = "iterate"
    /\ iter' = iter + 1
    /\ committedMoves' = AddMovements(committedMoves, Trial(s, b))
    /\ binQueue' = <<>>
    /\ picks' = 0
    /\ tries' = {}
    /\ canariedMoves' = EmptyMovements
    /\ UNCHANGED <<initialBin, currentWeight>>

\* The trial's weight is lower: getMovementForBin returns it, solve adds it to
\* the committed moves, commits the constraints and goes to its next iteration.
AcceptMove(s, b, w) ==
    /\ pc = "try"
    /\ <<s, b>> \in tries
    /\ w < currentWeight
    /\ pc' = "iterate"
    /\ iter' = iter + 1
    /\ currentWeight' = w
    /\ committedMoves' = AddMovements(committedMoves, Trial(s, b))
    /\ binQueue' = <<>>
    /\ picks' = 0
    /\ tries' = {}
    /\ canariedMoves' = EmptyMovements
    /\ UNCHANGED initialBin

\* Every bin of binSet was tried: the next pick.
TriesExhausted ==
    /\ pc = "try"
    /\ tries = {}
    /\ pc' = "pick"
    /\ UNCHANGED <<initialBin, iter, committedMoves, currentWeight, binQueue, picks, tries,
                   canariedMoves>>

\* solve has returned.
Returned == pc = "done" /\ UNCHANGED searchVars

SearchNext ==
    \/ \E w \in Weights : SolveStart(w)
    \/ \E q \in BinOrders : StartIteration(q)
    \/ IterationsExhausted
    \/ SkipBin
    \/ EnterBin
    \/ NoMoveFound
    \/ \E s \in Shards, B \in SUBSET Bins : PickShard(s, B)
    \/ GiveUpBin
    \/ \E s \in Shards, b \in Bins, w \in Weights : RejectMove(s, b, w)
    \/ \E s \in Shards, b \in Bins, w \in Weights : AcceptMove(s, b, w)
    \/ TriesExhausted
    \/ Returned

\* solve is one loop of one thread: it takes its next step until it returns.
SearchSpec == SearchInit /\ [][SearchNext]_searchVars /\ WF_searchVars(SearchNext)

--------------------------------------------------------------------------------

(* The variables have the types of the code's locals; the shard being tried
   comes from the bin at the head of the queue. *)
SearchTypeOK ==
    /\ initialBin \in [Shards -> Bins]
    /\ pc \in {"start", "iterate", "bins", "pick", "try", "done"}
    /\ iter \in Nat
    /\ committedMoves \in MovementMaps
    /\ currentWeight \in Int
    /\ binQueue \in Seq(Bins)
    /\ picks \in 0 .. MaxPicks
    /\ tries \in SUBSET (Shards \X Bins)
    /\ canariedMoves \in MovementMaps

(* solve returns a MovementMap whose two indexes are exact inverses (although
   addMovement cannot keep them so for a shard that is moved twice), and in
   which no shard moves to the bin it is already in. *)
CommittedMovesConsistent ==
    /\ \A b \in Bins : committedMoves.incoming[b] = {s \in Shards : committedMoves.next[s] = b}
    /\ \A s \in Shards : committedMoves.next[s] # initialBin[s]

(* solve commits exactly one shard per iteration and never the same shard
   twice, so maxIterations_ is never the only thing that ends it. *)
OneShardPerIteration == iter = Cardinality(MovedShards(committedMoves))

(* A committed move is final: no later iteration redirects or drops it. *)
CommittedMovesAreFinal ==
    [][\A s \in MovedShards(committedMoves) : committedMoves'.next[s] = committedMoves.next[s]]_searchVars

(* solve returns whatever the weights are. *)
SolveReturns == <>(pc = "done")

================================================================================
