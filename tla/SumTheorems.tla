------------------------------ MODULE SumTheorems ------------------------------
(***************************************************************************)
(* Sums over finite sets. The weights of the placer are folds, and the      *)
(* library has no theorem about SumFunctionOnSet that the provers can use:  *)
(* here is what the proofs about Placer need of it. Each lemma is proved    *)
(* from a smallest counterexample.                                          *)
(***************************************************************************)
EXTENDS Functions, FiniteSetTheorems, TLAPS

\* The recursion behind SumFunctionOnSet(f, T).
IsSum(g, f, T) ==
    g = [s \in SUBSET T |-> IF s = {} THEN 0
                            ELSE f[CHOOSE x \in s : TRUE] + g[s \ {CHOOSE x \in s : TRUE}]]

(* A nonempty set of subsets of a finite set has a smallest one: the minimal counterexample that the other
   lemmas argue from, in the place of an induction over the set. *)
LEMMA SmallestSubset ==
  ASSUME NEW S, IsFiniteSet(S), NEW B, B \subseteq SUBSET S, B # {}
  PROVE  \E T \in B : \A U \in B : ~(U \subseteq T /\ U # T)
  <1>1. B \subseteq FiniteSubsetsOf(S)
    BY FS_FiniteSubsetsOfFinite
  <1>2. \E T \in B : \A U \in B : ~(<<U, T>> \in StrictSubsetOrdering(S))
    BY <1>1, WFMin, FS_StrictSubsetOrderingWellFounded
  <1> QED BY <1>2 DEF StrictSubsetOrdering

(* SumFunctionOnSet is the value of the recursion that IsSum states. *)
LEMMA SumUnfold == ASSUME NEW f, NEW S
   PROVE SumFunctionOnSet(f, S) = (CHOOSE g : IsSum(g, f, S))[S]
  BY DEF SumFunctionOnSet, FoldFunctionOnSet, MapThenFoldSet, IsSum

(* Two solutions of the recursion, for two sets, agree wherever both are defined. *)
LEMMA IsSumUnique ==
  ASSUME NEW S, IsFiniteSet(S), NEW T \in SUBSET S, NEW U \in SUBSET S, NEW f, NEW g, NEW h,
         IsSum(g, f, T), IsSum(h, f, U)
  PROVE \A s \in SUBSET (T \cap U) : g[s] = h[s]
  <1> DEFINE B == {s \in SUBSET (T \cap U) : g[s] # h[s]}
  <1> SUFFICES ASSUME B # {} PROVE FALSE
    OBVIOUS
  <1>1. PICK s \in B : \A u \in B : ~(u \subseteq s /\ u # s)
    <2>1. B \subseteq SUBSET S
      OBVIOUS
    <2> HIDE DEF B
    <2> QED BY <2>1, SmallestSubset
  <1>2. CASE s = {}
    BY <1>2, <1>1 DEF IsSum
  <1>3. CASE s # {}
    <2> DEFINE x == CHOOSE x \in s : TRUE
    <2>1. x \in s BY <1>3
    <2>2. s \ {x} \notin B
      BY <1>1, <2>1
    <2>3. g[s \ {x}] = h[s \ {x}]
      BY <2>2, <1>1
    <2>4. g[s] = f[x] + g[s \ {x}] /\ h[s] = f[x] + h[s \ {x}]
      BY <1>3, <1>1 DEF IsSum
    <2> QED BY <2>3, <2>4, <1>1
  <1> QED BY <1>2, <1>3

(* The recursion has a solution for every finite set. *)
LEMMA IsSumExists ==
  ASSUME NEW S, IsFiniteSet(S), NEW f
  PROVE  \E g : IsSum(g, f, S)
  <1> DEFINE B == {T \in SUBSET S : ~\E g : IsSum(g, f, T)}
  <1> SUFFICES ASSUME B # {} PROVE FALSE
    OBVIOUS
  <1>1. PICK T \in B : \A u \in B : ~(u \subseteq T /\ u # T)
    <2>1. B \subseteq SUBSET S
      OBVIOUS
    <2> HIDE DEF B
    <2> QED BY <2>1, SmallestSubset
  <1> DEFINE h(U) == CHOOSE g : IsSum(g, f, U)
             c(s) == CHOOSE x \in s : TRUE
             v(s) == IF s = {} THEN 0 ELSE f[c(s)] + h(s \ {c(s)})[s \ {c(s)}]
             G == [s \in SUBSET T |-> v(s)]
  <1>2. \A U \in SUBSET T : U # T => IsSum(h(U), f, U)
    BY <1>1
  <1>3. \A s \in SUBSET T : s # {} => c(s) \in s
    OBVIOUS
  <1> HIDE DEF h, c
  <1>4. ASSUME NEW s \in SUBSET T, s # {}
        PROVE G[s \ {c(s)}] = h(s \ {c(s)})[s \ {c(s)}]
    <2> DEFINE u == s \ {c(s)}
    <2>0. u # T /\ u \in SUBSET T
      BY <1>3, <1>4
    <2>1. IsSum(h(u), f, u)
      BY <1>2, <2>0
    <2>2. CASE u = {}
      BY <2>1, <2>2, <2>0 DEF IsSum
    <2>3. CASE u # {}
      <3> DEFINE w == u \ {c(u)}
      <3>1. w # T /\ w \in SUBSET T /\ w \in SUBSET u
        BY <2>0
      <3>2. IsSum(h(w), f, w)
        BY <1>2, <3>1
      <3>3. h(w)[w] = h(u)[w]
        <4> HIDE DEF w, u
        <4>1. w \in SUBSET S /\ u \in SUBSET S
           BY <3>1, <2>0
        <4> QED BY <4>1, <3>1, <3>2, <2>1, IsSumUnique
      <3>4. h(u)[u] = f[c(u)] + h(u)[w]
        <4> HIDE DEF u
        <4> QED BY <2>1, <2>3 DEF IsSum, c
      <3>5. G[u] = f[c(u)] + h(w)[w]
        BY <2>0, <2>3
      <3> QED BY <3>3, <3>4, <3>5
    <2> QED BY <2>2, <2>3
  <1>5. \A s \in SUBSET T : G[s] = IF s = {} THEN 0 ELSE f[c(s)] + G[s \ {c(s)}]
    BY <1>4
  <1>6. IsSum(G, f, T)
    <2> HIDE DEF G
    <2>1. G = [s \in SUBSET T |-> G[s]]
      BY DEF G
    <2> QED BY <1>5, <2>1 DEF IsSum, c
  <1> QED BY <1>1, <1>6


(* The sum over no element is 0. *)
LEMMA SumEmpty == ASSUME NEW f PROVE SumFunctionOnSet(f, {}) = 0
  <1>1. PICK g : IsSum(g, f, {})
    BY FS_EmptySet, IsSumExists
  <1>2. IsSum(CHOOSE h : IsSum(h, f, {}), f, {})
    BY <1>1
  <1>3. \A h : IsSum(h, f, {}) => h[{}] = 0
    BY DEF IsSum
  <1> QED BY <1>2, <1>3, SumUnfold

(* A sum is the value of the chosen element and the sum over the rest. *)
LEMMA SumChosen ==
  ASSUME NEW S, IsFiniteSet(S), S # {}, NEW f
  PROVE  LET x == CHOOSE x \in S : TRUE
         IN  x \in S /\ SumFunctionOnSet(f, S) = f[x] + SumFunctionOnSet(f, S \ {x})
  <1> DEFINE c == CHOOSE x \in S : TRUE
             sum(T) == CHOOSE g : IsSum(g, f, T)
  <1>1. c \in S
    OBVIOUS
  <1>2. IsFiniteSet(S \ {c})
    BY FS_RemoveElement
  <1>3. IsSum(sum(S), f, S) /\ IsSum(sum(S \ {c}), f, S \ {c})
    BY <1>2, IsSumExists
  <1>4. sum(S)[S \ {c}] = sum(S \ {c})[S \ {c}]
    <2> HIDE DEF sum, c
    <2>1. S \ {c} \in SUBSET S /\ S \in SUBSET S /\ S \ {c} \in SUBSET (S \cap (S \ {c}))
      OBVIOUS
    <2> QED BY <1>3, <2>1, IsSumUnique
  <1>5. sum(S)[S] = f[c] + sum(S)[S \ {c}]
    <2> HIDE DEF sum
    <2> QED BY <1>3 DEF IsSum
  <1> QED BY <1>1, <1>4, <1>5, SumUnfold

(* The sum of integers is an integer. *)
LEMMA SumType ==
  ASSUME NEW S, IsFiniteSet(S), NEW f, \A x \in S : f[x] \in Int
  PROVE  SumFunctionOnSet(f, S) \in Int
  <1> DEFINE B == {T \in SUBSET S : SumFunctionOnSet(f, T) \notin Int}
  <1> SUFFICES ASSUME B # {} PROVE FALSE
    OBVIOUS
  <1>1. PICK T \in B : \A u \in B : ~(u \subseteq T /\ u # T)
    <2>1. B \subseteq SUBSET S
      OBVIOUS
    <2> HIDE DEF B
    <2> QED BY <2>1, SmallestSubset
  <1>2. T # {}
    <2>1. SumFunctionOnSet(f, T) \notin Int
      BY <1>1
    <2>2. SumFunctionOnSet(f, {}) = 0 /\ 0 \in Int
      BY SumEmpty
    <2> QED BY <2>1, <2>2, Zenon
  <1>3. PICK x \in T : SumFunctionOnSet(f, T) = f[x] + SumFunctionOnSet(f, T \ {x})
    BY <1>2, FS_Subset, SumChosen
  <1>4. SumFunctionOnSet(f, T \ {x}) \in Int
    BY <1>1
  <1> QED BY <1>1, <1>3, <1>4

(* The chosen element is nothing special: any element can be taken out first. *)
LEMMA SumRemove ==
  ASSUME NEW S, IsFiniteSet(S), NEW f, \A x \in S : f[x] \in Int, NEW x \in S
  PROVE  SumFunctionOnSet(f, S) = f[x] + SumFunctionOnSet(f, S \ {x})
  <1> DEFINE Rest(T, y) == SumFunctionOnSet(f, T) = f[y] + SumFunctionOnSet(f, T \ {y})
             B == {T \in SUBSET S : \E y \in T : ~Rest(T, y)}
  <1> SUFFICES ASSUME B # {} PROVE FALSE
    OBVIOUS
  <1>1. PICK T \in B : \A u \in B : ~(u \subseteq T /\ u # T)
    <2>1. B \subseteq SUBSET S
      OBVIOUS
    <2> HIDE DEF B
    <2> QED BY <2>1, SmallestSubset
  <1>2. \A u \in SUBSET T : u # T => \A y \in u : Rest(u, y)
    BY <1>1
  <1>3. PICK y \in T : ~Rest(T, y)
    BY <1>1
  <1>4. IsFiniteSet(T)
    BY <1>1, FS_Subset
  <1>5. PICK z \in T : Rest(T, z)
    BY <1>4, SumChosen
  <1>6. y # z
    BY <1>3, <1>5
  <1>7. Rest(T \ {z}, y) /\ Rest(T \ {y}, z)
    <2> HIDE DEF Rest
    <2> QED BY <1>2, <1>6
  <1>8. (T \ {z}) \ {y} = (T \ {y}) \ {z}
    OBVIOUS
  <1>9. SumFunctionOnSet(f, (T \ {z}) \ {y}) \in Int
    <2>1. IsFiniteSet((T \ {z}) \ {y})
      BY <1>4, FS_RemoveElement
    <2> QED BY <2>1, SumType
  <1>10. f[y] \in Int /\ f[z] \in Int
    BY <1>1
  <1>11. PICK a \in Int : a = SumFunctionOnSet(f, (T \ {z}) \ {y})
    BY <1>9
  <1>12. SumFunctionOnSet(f, T \ {z}) = f[y] + a /\ SumFunctionOnSet(f, T \ {y}) = f[z] + a
    BY <1>7, <1>8, <1>11, Zenon
  <1>13. SumFunctionOnSet(f, T) = f[z] + (f[y] + a) /\ SumFunctionOnSet(f, T) # f[y] + (f[z] + a)
    BY <1>3, <1>5, <1>12, Zenon
  <1> QED BY <1>10, <1>13

(* The sum with one more element. *)
LEMMA SumAdd ==
  ASSUME NEW S, IsFiniteSet(S), NEW x, x \notin S, NEW f, \A y \in S \cup {x} : f[y] \in Int
  PROVE  SumFunctionOnSet(f, S \cup {x}) = f[x] + SumFunctionOnSet(f, S)
  <1>1. IsFiniteSet(S \cup {x})
    BY FS_AddElement
  <1>2. (S \cup {x}) \ {x} = S
    OBVIOUS
  <1>3. SumFunctionOnSet(f, S \cup {x}) = f[x] + SumFunctionOnSet(f, (S \cup {x}) \ {x})
    BY <1>1, SumRemove
  <1> QED BY <1>2, <1>3

(* A sum depends only on the values over its set. *)
LEMMA SumEqual ==
  ASSUME NEW S, IsFiniteSet(S), NEW f, NEW g, \A x \in S : f[x] = g[x]
  PROVE  SumFunctionOnSet(f, S) = SumFunctionOnSet(g, S)
  <1> DEFINE B == {T \in SUBSET S : SumFunctionOnSet(f, T) # SumFunctionOnSet(g, T)}
  <1> SUFFICES ASSUME B # {} PROVE FALSE
    OBVIOUS
  <1>1. PICK T \in B : \A u \in B : ~(u \subseteq T /\ u # T)
    <2>1. B \subseteq SUBSET S
      OBVIOUS
    <2> HIDE DEF B
    <2> QED BY <2>1, SmallestSubset
  <1>2. T # {}
    <2>1. SumFunctionOnSet(f, {}) = SumFunctionOnSet(g, {})
      BY SumEmpty
    <2> QED BY <1>1, <2>1
  <1>3. PICK x \in T : /\ SumFunctionOnSet(f, T) = f[x] + SumFunctionOnSet(f, T \ {x})
                      /\ SumFunctionOnSet(g, T) = g[x] + SumFunctionOnSet(g, T \ {x})
    BY <1>1, <1>2, FS_Subset, SumChosen
  <1>4. f[x] = g[x] /\ SumFunctionOnSet(f, T \ {x}) = SumFunctionOnSet(g, T \ {x})
    BY <1>1
  <1> QED BY <1>1, <1>3, <1>4

(* The sum of pointwise sums. *)
LEMMA SumPointwise ==
  ASSUME NEW S, IsFiniteSet(S), NEW f, NEW g, NEW h,
         \A x \in S : f[x] \in Int /\ g[x] \in Int /\ h[x] = f[x] + g[x]
  PROVE  SumFunctionOnSet(h, S) = SumFunctionOnSet(f, S) + SumFunctionOnSet(g, S)
  <1> DEFINE P(T) == SumFunctionOnSet(h, T) = SumFunctionOnSet(f, T) + SumFunctionOnSet(g, T)
             B == {T \in SUBSET S : ~P(T)}
  <1> SUFFICES ASSUME B # {} PROVE FALSE
    OBVIOUS
  <1>1. PICK T \in B : \A u \in B : ~(u \subseteq T /\ u # T)
    <2>1. B \subseteq SUBSET S
      OBVIOUS
    <2> HIDE DEF B
    <2> QED BY <2>1, SmallestSubset
  <1>2. P({})
    BY SumEmpty
  <1>3. T # {}
    <2> HIDE DEF P
    <2> QED BY <1>1, <1>2
  <1>4. PICK x : x \in T
    BY <1>3
  <1>5. T \subseteq S /\ ~P(T) /\ P(T \ {x})
    <2> HIDE DEF P
    <2> QED BY <1>1, <1>4
  <1> HIDE DEF B
  <1>6. IsFiniteSet(T) /\ IsFiniteSet(T \ {x})
    BY <1>5, FS_Subset, FS_RemoveElement
  <1>7. \A y \in T : f[y] \in Int /\ g[y] \in Int /\ h[y] \in Int
    BY <1>5
  <1>8. /\ SumFunctionOnSet(f, T \ {x}) \in Int
        /\ SumFunctionOnSet(g, T \ {x}) \in Int
    BY <1>6, <1>7, SumType
  <1>9. /\ SumFunctionOnSet(f, T) = f[x] + SumFunctionOnSet(f, T \ {x})
        /\ SumFunctionOnSet(g, T) = g[x] + SumFunctionOnSet(g, T \ {x})
        /\ SumFunctionOnSet(h, T) = h[x] + SumFunctionOnSet(h, T \ {x})
    BY <1>4, <1>6, <1>7, SumRemove
  <1>10. h[x] = f[x] + g[x] /\ f[x] \in Int /\ g[x] \in Int
    BY <1>4, <1>5
  <1> QED BY <1>5, <1>8, <1>9, <1>10

(* Elements of value 0 do not count. *)
LEMMA SumSupport ==
  ASSUME NEW S, IsFiniteSet(S), NEW f, \A x \in S : f[x] \in Int,
         NEW T \in SUBSET S, \A x \in S \ T : f[x] = 0
  PROVE  SumFunctionOnSet(f, S) = SumFunctionOnSet(f, T)
  <1> DEFINE P(u) == SumFunctionOnSet(f, T \cup u) = SumFunctionOnSet(f, T)
             B == {u \in SUBSET (S \ T) : ~P(u)}
  <1>0. B = {} => P(S \ T)
    OBVIOUS
  <1>1. P(S \ T) => SumFunctionOnSet(f, S) = SumFunctionOnSet(f, T)
    <2>1. T \cup (S \ T) = S
      OBVIOUS
    <2> QED BY <2>1
  <1> SUFFICES ASSUME B # {} PROVE FALSE
    BY <1>0, <1>1
  <1>2. PICK u \in B : \A v \in B : ~(v \subseteq u /\ v # u)
    <2>1. B \subseteq SUBSET S
      OBVIOUS
    <2> HIDE DEF B
    <2> QED BY <2>1, SmallestSubset
  <1>3. P({})
    OBVIOUS
  <1>4. u # {}
    <2> HIDE DEF P
    <2> QED BY <1>2, <1>3
  <1>5. PICK x : x \in u
    BY <1>4
  <1>6. u \subseteq S \ T /\ ~P(u) /\ P(u \ {x})
    <2> HIDE DEF P
    <2> QED BY <1>2, <1>5
  <1>7. IsFiniteSet(T \cup u) /\ x \in T \cup u /\ (T \cup u) \ {x} = T \cup (u \ {x})
    BY <1>5, <1>6, FS_Subset
  <1> HIDE DEF B
  <1>8. SumFunctionOnSet(f, T \cup u) = f[x] + SumFunctionOnSet(f, (T \cup u) \ {x})
    BY <1>6, <1>7, SumRemove
  <1>9. f[x] = 0 /\ SumFunctionOnSet(f, T) \in Int
    BY <1>5, <1>6, FS_Subset, SumType
  <1> QED BY <1>6, <1>7, <1>8, <1>9

(* Sums are monotonic in their values. *)
LEMMA SumMonotonic ==
  ASSUME NEW S, IsFiniteSet(S), NEW f, NEW g,
         \A x \in S : f[x] \in Int /\ g[x] \in Int /\ f[x] <= g[x]
  PROVE  SumFunctionOnSet(f, S) <= SumFunctionOnSet(g, S)
  <1> DEFINE P(T) == SumFunctionOnSet(f, T) <= SumFunctionOnSet(g, T)
             B == {T \in SUBSET S : ~P(T)}
  <1> SUFFICES ASSUME B # {} PROVE FALSE
    OBVIOUS
  <1>1. PICK T \in B : \A u \in B : ~(u \subseteq T /\ u # T)
    <2>1. B \subseteq SUBSET S
      OBVIOUS
    <2> HIDE DEF B
    <2> QED BY <2>1, SmallestSubset
  <1>2. P({})
    BY SumEmpty
  <1>3. T # {}
    <2> HIDE DEF P
    <2> QED BY <1>1, <1>2
  <1>4. PICK x : x \in T
    BY <1>3
  <1>5. T \subseteq S /\ ~P(T) /\ P(T \ {x})
    <2> HIDE DEF P
    <2> QED BY <1>1, <1>4
  <1> HIDE DEF B
  <1>6. IsFiniteSet(T) /\ IsFiniteSet(T \ {x})
    BY <1>5, FS_Subset, FS_RemoveElement
  <1>8. /\ SumFunctionOnSet(f, T \ {x}) \in Int
        /\ SumFunctionOnSet(g, T \ {x}) \in Int
    BY <1>5, <1>6, SumType
  <1>9. /\ SumFunctionOnSet(f, T) = f[x] + SumFunctionOnSet(f, T \ {x})
        /\ SumFunctionOnSet(g, T) = g[x] + SumFunctionOnSet(g, T \ {x})
    BY <1>4, <1>5, <1>6, SumRemove
  <1>10. f[x] <= g[x] /\ f[x] \in Int /\ g[x] \in Int
    BY <1>4, <1>5
  <1> QED BY <1>5, <1>8, <1>9, <1>10

(* Of one element, of differences, and of a subset of natural numbers. *)
LEMMA SumSingleton ==
  ASSUME NEW f, NEW x, f[x] \in Int
  PROVE  SumFunctionOnSet(f, {x}) = f[x]
  <1>1. SumFunctionOnSet(f, {} \cup {x}) = f[x] + SumFunctionOnSet(f, {})
    BY FS_EmptySet, SumAdd
  <1>2. {} \cup {x} = {x}
    OBVIOUS
  <1> QED BY <1>1, <1>2, SumEmpty

(* The sum of the differences is the difference of the sums. *)
LEMMA SumDifference ==
  ASSUME NEW S, IsFiniteSet(S), NEW f, NEW g, NEW h,
         \A x \in S : f[x] \in Int /\ g[x] \in Int /\ h[x] = f[x] - g[x]
  PROVE  SumFunctionOnSet(h, S) = SumFunctionOnSet(f, S) - SumFunctionOnSet(g, S)
  <1>1. \A x \in S : h[x] \in Int /\ f[x] = h[x] + g[x]
    OBVIOUS
  <1>2. SumFunctionOnSet(f, S) = SumFunctionOnSet(h, S) + SumFunctionOnSet(g, S)
    BY <1>1, SumPointwise
  <1>3. SumFunctionOnSet(h, S) \in Int /\ SumFunctionOnSet(g, S) \in Int
    BY <1>1, SumType
  <1> QED BY <1>2, <1>3

(* Two disjoint sets are summed one after the other. *)
LEMMA SumDisjointUnion ==
  ASSUME NEW S, NEW T, IsFiniteSet(S \cup T), S \cap T = {}, NEW f,
         \A x \in S \cup T : f[x] \in Int
  PROVE  SumFunctionOnSet(f, S \cup T) = SumFunctionOnSet(f, S) + SumFunctionOnSet(f, T)
  <1> DEFINE U == S \cup T
             g == [x \in U |-> IF x \in S THEN f[x] ELSE 0]
             h == [x \in U |-> IF x \in T THEN f[x] ELSE 0]
  <1>1. \A x \in U : g[x] \in Int /\ h[x] \in Int /\ f[x] = g[x] + h[x]
    OBVIOUS
  <1>2. /\ \A x \in S : g[x] = f[x]
        /\ \A x \in T : h[x] = f[x]
        /\ \A x \in U \ S : g[x] = 0
        /\ \A x \in U \ T : h[x] = 0
        /\ S \in SUBSET U /\ T \in SUBSET U
    OBVIOUS
  <1>3. IsFiniteSet(S) /\ IsFiniteSet(T) /\ IsFiniteSet(U)
    BY FS_Subset
  <1> HIDE DEF g, h
  <1>4. SumFunctionOnSet(f, U) = SumFunctionOnSet(g, U) + SumFunctionOnSet(h, U)
    BY <1>1, <1>3, SumPointwise
  <1>5. SumFunctionOnSet(g, U) = SumFunctionOnSet(g, S) /\ SumFunctionOnSet(h, U) = SumFunctionOnSet(h, T)
    <2> HIDE DEF U
    <2>1. SumFunctionOnSet(g, U) = SumFunctionOnSet(g, S)
      BY <1>1, <1>2, <1>3, SumSupport
    <2>2. SumFunctionOnSet(h, U) = SumFunctionOnSet(h, T)
      BY <1>1, <1>2, <1>3, SumSupport
    <2> QED BY <2>1, <2>2
  <1>6. SumFunctionOnSet(g, S) = SumFunctionOnSet(f, S) /\ SumFunctionOnSet(h, T) = SumFunctionOnSet(f, T)
    BY <1>2, <1>3, SumEqual
  <1> QED BY <1>4, <1>5, <1>6

(* Natural numbers have a natural sum, and a subset of them no larger one. *)
LEMMA SumSubset ==
  ASSUME NEW S, IsFiniteSet(S), NEW f, \A x \in S : f[x] \in Nat, NEW T \in SUBSET S
  PROVE  /\ SumFunctionOnSet(f, T) \in Nat /\ SumFunctionOnSet(f, S) \in Nat
         /\ SumFunctionOnSet(f, T) <= SumFunctionOnSet(f, S)
  <1> DEFINE zero == [x \in S |-> 0]
  <1>1. ASSUME NEW U \in SUBSET S
        PROVE  SumFunctionOnSet(f, U) \in Nat
    <2>1. IsFiniteSet(U)
      BY FS_Subset
    <2>2. \A x \in U : zero[x] \in Int /\ f[x] \in Int /\ zero[x] <= f[x] /\ zero[x] = 0
      OBVIOUS
    <2> HIDE DEF zero
    <2>3. SumFunctionOnSet(zero, U) <= SumFunctionOnSet(f, U) /\ SumFunctionOnSet(f, U) \in Int
      BY <2>1, <2>2, SumMonotonic, SumType
    <2>4. SumFunctionOnSet(zero, U) = SumFunctionOnSet(zero, {})
      <3>1. {} \in SUBSET U
        OBVIOUS
      <3> QED BY <2>1, <2>2, <3>1, SumSupport
    <2> QED BY <2>3, <2>4, SumEmpty
  <1>2. SumFunctionOnSet(f, S) = SumFunctionOnSet(f, T) + SumFunctionOnSet(f, S \ T)
    <2>1. T \cup (S \ T) = S /\ T \cap (S \ T) = {} /\ \A x \in S : f[x] \in Int
      OBVIOUS
    <2> QED BY <2>1, SumDisjointUnion
  <1>3. /\ SumFunctionOnSet(f, T) \in Nat
        /\ SumFunctionOnSet(f, S) \in Nat
        /\ SumFunctionOnSet(f, S \ T) \in Nat
    <2>1. S \in SUBSET S /\ S \ T \in SUBSET S
      OBVIOUS
    <2> QED BY <1>1, <2>1
  <1> QED BY <1>2, <1>3

\* p[s] names the class of s among K, members[k] are the elements of class k, g[k] is the sum
\* of f over them.
ClassSums(S, K, f, g, p, members) ==
    /\ IsFiniteSet(S) /\ IsFiniteSet(K)
    /\ \A s \in S : f[s] \in Int /\ p[s] \in K
    /\ \A k \in K : \A s : s \in members[k] <=> s \in S /\ p[s] = k
    /\ \A k \in K : g[k] = SumFunctionOnSet(f, members[k])

(* A set may be summed class by class. *)
LEMMA SumFibers ==
  ASSUME NEW S, NEW K, NEW f, NEW g, NEW p, NEW members, ClassSums(S, K, f, g, p, members)
  PROVE  SumFunctionOnSet(f, S) = SumFunctionOnSet(g, K)
  <1> USE DEF ClassSums
  <1> DEFINE F(L) == {s \in S : p[s] \in L}
             Q(L) == SumFunctionOnSet(f, F(L)) = SumFunctionOnSet(g, L)
             B == {L \in SUBSET K : ~Q(L)}
  <1>0. F(K) = S /\ F({}) = {}
    OBVIOUS
  <1> SUFFICES ASSUME B # {} PROVE FALSE
    <2>1. B = {} => Q(K)
      OBVIOUS
    <2> QED BY <1>0, <2>1
  <1>1. PICK L \in B : \A u \in B : ~(u \subseteq L /\ u # L)
    <2>1. B \subseteq SUBSET K
      OBVIOUS
    <2> HIDE DEF B
    <2> QED BY <2>1, SmallestSubset
  <1>2. Q({})
    BY <1>0, SumEmpty
  <1>3. L # {}
    <2> HIDE DEF Q
    <2> QED BY <1>1, <1>2
  <1>4. PICK x : x \in L
    BY <1>3
  <1>5. L \subseteq K /\ ~Q(L) /\ Q(L \ {x})
    <2> HIDE DEF Q
    <2> QED BY <1>1, <1>4
  <1> HIDE DEF B
  <1> DEFINE one == {s \in S : p[s] = x}
             rest == F(L \ {x})
  <1>6. one \cup rest = F(L) /\ one \cap rest = {} /\ F(L) \subseteq S
    BY <1>4
  <1>7. IsFiniteSet(F(L)) /\ IsFiniteSet(L) /\ IsFiniteSet(rest)
    BY <1>5, <1>6, FS_Subset
  <1>8. SumFunctionOnSet(f, F(L)) = SumFunctionOnSet(f, one) + SumFunctionOnSet(f, rest)
    <2>1. \A s \in one \cup rest : f[s] \in Int
      OBVIOUS
    <2> HIDE DEF one, rest, F
    <2> QED BY <1>6, <1>7, <2>1, SumDisjointUnion
  <1>9. \A k \in K : g[k] \in Int
    <2> SUFFICES ASSUME NEW k \in K PROVE g[k] \in Int
      OBVIOUS
    <2>1. IsFiniteSet(members[k]) /\ \A s \in members[k] : f[s] \in Int
      BY FS_Subset
    <2> QED BY <2>1, SumType
  <1>10. SumFunctionOnSet(g, L) = g[x] + SumFunctionOnSet(g, L \ {x})
    BY <1>4, <1>5, <1>7, <1>9, SumRemove
  <1>11. g[x] = SumFunctionOnSet(f, one)
    <2>1. members[x] = one
      BY <1>4, <1>5
    <2> QED BY <1>4, <1>5, <2>1
  <1> QED BY <1>5, <1>8, <1>10, <1>11

================================================================================
