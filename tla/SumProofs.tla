----------------------------- MODULE SumProofs ------------------------------
(***************************************************************************)
(* Folds over finite sets, for the proofs about SecureSum: induction over  *)
(* sets and numbers stated with sets instead of predicates, that a fold is *)
(* what its recursion says, and the sums of SumFunctionOnSet.              *)
(***************************************************************************)
EXTENDS Integers, FiniteSets, FiniteSetsExt, FiniteSetTheorems, WellFoundedInduction, TLAPS

-----------------------------------------------------------------------------
(* Induction. *)

(* A set of subsets of a finite set has a smallest one. *)
LEMMA SmallestSubset ==
  ASSUME NEW S, IsFiniteSet(S), NEW B \in SUBSET SUBSET S, B # {}
  PROVE  \E T \in B : \A U \in B : U \subseteq T => U = T
<1>1. IsWellFoundedOn(StrictSubsetOrdering(S), FiniteSubsetsOf(S))
  BY FS_StrictSubsetOrderingWellFounded
<1>2. B \subseteq FiniteSubsetsOf(S)
  BY FS_FiniteSubsetsOfFinite
<1>3. PICK T \in B : \A U \in B : ~ (<<U, T>> \in StrictSubsetOrdering(S))
  BY <1>1, <1>2, WFMin
<1> QED
  BY <1>3 DEF StrictSubsetOrdering

(* What holds of a set when it holds of the set less any element holds of
   every finite set.                                                       *)
LEMMA SubsetInduction ==
  ASSUME NEW S, IsFiniteSet(S), NEW G \in SUBSET SUBSET S,
         \A T \in SUBSET S : (\A x \in T : T \ {x} \in G) => T \in G
  PROVE  G = SUBSET S
<1> DEFINE B == (SUBSET S) \ G
<1> SUFFICES ASSUME G # SUBSET S PROVE FALSE
  OBVIOUS
<1>1. PICK T \in B : \A U \in B : U \subseteq T => U = T
  <2>1. B \in SUBSET SUBSET S /\ B # {}
    OBVIOUS
  <2> HIDE DEF B
  <2> QED BY <2>1, SmallestSubset
<1>2. PICK x \in T : T \ {x} \notin G
  BY <1>1
<1> QED BY <1>1, <1>2

(* What holds of 0 and of n + 1 when it holds of n holds of every number. *)
LEMMA NumberInduction ==
  ASSUME NEW G \in SUBSET Nat, 0 \in G, \A n \in G : n + 1 \in G
  PROVE  G = Nat
<1> SUFFICES ASSUME NEW n \in Nat, n \notin G PROVE FALSE
  OBVIOUS
<1> DEFINE B == Nat \ G
           Less == {ss \in Nat \X Nat : ss[1] < ss[2]}
<1>1. IsWellFoundedOn(Less, Nat)
  BY Zenon, NatLessThanWellFounded DEF OpToRel
<1>2. \E m \in B : \A k \in B : ~ (<<k, m>> \in Less)
  <2>1. B \subseteq Nat /\ B # {}
    OBVIOUS
  <2> HIDE DEF B, Less
  <2> QED BY <2>1, <1>1, WFMin
<1>3. PICK m \in B : \A k \in B : ~ (<<k, m>> \in Less)
  BY <1>2
<1>4. m \in Nat /\ m # 0 /\ m - 1 \in Nat /\ <<m - 1, m>> \in Less
  OBVIOUS
<1>5. m - 1 \in G
  BY <1>3, <1>4
<1> QED BY <1>4, <1>5

-----------------------------------------------------------------------------
(* Folds. *)

(* g is the recursion over the subsets of S that starts with base, takes out
   the element pick[T] and applies step[pick[T]].                          *)
Recursion(g, base, step, pick, S) ==
  \A T \in SUBSET S : g[T] = IF T = {} THEN base ELSE step[pick[T]][g[T \ {pick[T]}]]

Picks(pick, S) == \A T \in SUBSET S : T # {} => pick[T] \in T

(* Over a finite set every recursion has a solution. *)
LEMMA FoldExists ==
  ASSUME NEW S, IsFiniteSet(S), NEW V, NEW base \in V, NEW step \in [S -> [V -> V]],
         NEW pick, Picks(pick, S)
  PROVE  \E g \in [SUBSET S -> V] : Recursion(g, base, step, pick, S)
<1> USE DEF Picks
<1> DEFINE Solves(g, T) == g[T] = IF T = {} THEN base ELSE step[pick[T]][g[T \ {pick[T]}]]
           G == {n \in Nat : \E g \in [SUBSET S -> V] : \A T \in SUBSET S :
                                Cardinality(T) <= n => Solves(g, T)}
<1>s. \A T \in SUBSET S : /\ Cardinality(T) \in Nat
                          /\ Cardinality(T) = 0 => T = {}
                          /\ \A x \in T : Cardinality(T \ {x}) = Cardinality(T) - 1
  BY FS_Subset, FS_CardinalityType, FS_RemoveElement, FS_EmptySet
<1>1. 0 \in G
  <2> DEFINE g == [T \in SUBSET S |-> base]
  <2>1. g \in [SUBSET S -> V]
    OBVIOUS
  <2>2. ASSUME NEW T \in SUBSET S, Cardinality(T) <= 0 PROVE Solves(g, T)
    BY <2>2, <1>s
  <2> HIDE DEF g, Solves
  <2> QED BY <2>1, <2>2
<1>2. \A n \in G : n + 1 \in G
  <2> SUFFICES ASSUME NEW n \in G PROVE n + 1 \in G
    OBVIOUS
  <2>n. n \in Nat
    OBVIOUS
  <2>1. PICK g \in [SUBSET S -> V] : \A T \in SUBSET S : Cardinality(T) <= n => Solves(g, T)
    OBVIOUS
  <2> DEFINE h == [T \in SUBSET S |-> IF Cardinality(T) <= n THEN g[T]
                                      ELSE step[pick[T]][g[T \ {pick[T]}]]]
  <2>2. h \in [SUBSET S -> V]
    <3> SUFFICES ASSUME NEW T \in SUBSET S, ~ (Cardinality(T) <= n)
                 PROVE  step[pick[T]][g[T \ {pick[T]}]] \in V
      OBVIOUS
    <3>1. T # {}
      <4> SUFFICES ASSUME T = {} PROVE FALSE
        OBVIOUS
      <4>1. Cardinality(T) = 0
        BY FS_EmptySet
      <4> HIDE DEF G, h, Solves
      <4> QED BY <4>1, <2>n
    <3>2. pick[T] \in S /\ T \ {pick[T]} \in SUBSET S
      BY <3>1
    <3> HIDE DEF h
    <3> QED BY <3>2
  <2>3. ASSUME NEW T \in SUBSET S, Cardinality(T) <= n + 1 PROVE Solves(h, T)
    <3>1. CASE T = {}
      <4>1. Cardinality(T) <= n
        BY <3>1, FS_EmptySet
      <4> QED BY <4>1, <3>1, <2>1
    <3>2. CASE T # {}
      <4>1. pick[T] \in T /\ T \ {pick[T]} \in SUBSET S
        BY <3>2
      <4>2. Cardinality(T \ {pick[T]}) = Cardinality(T) - 1
        BY <4>1, <1>s
      <4>3. Cardinality(T \ {pick[T]}) <= n
        BY <4>1, <4>2, <2>3, <2>n, <1>s
      <4>4. h[T \ {pick[T]}] = g[T \ {pick[T]}]
        BY <4>1, <4>3
      <4>5. h[T] = step[pick[T]][g[T \ {pick[T]}]]
        BY <2>1, <3>2
      <4> QED BY <4>4, <4>5, <3>2
    <3> QED BY <3>1, <3>2
  <2>4. \A T \in SUBSET S : Cardinality(T) <= n + 1 => Solves(h, T)
    BY <2>3
  <2> HIDE DEF h, Solves
  <2> QED BY <2>2, <2>4
<1>3. G = Nat
  <2>1. G \in SUBSET Nat
    OBVIOUS
  <2> HIDE DEF G
  <2> QED BY <2>1, <1>1, <1>2, NumberInduction
<1>4. PICK g \in [SUBSET S -> V] : \A T \in SUBSET S :
          Cardinality(T) <= Cardinality(S) => Solves(g, T)
  BY <1>3, FS_CardinalityType
<1>5. \A T \in SUBSET S : Cardinality(T) <= Cardinality(S)
  BY FS_Subset
<1> QED BY <1>4, <1>5 DEF Recursion

-----------------------------------------------------------------------------
(* Sums. *)

IntegersOn(f, S) == \A x \in S : f[x] \in Int

Some(T) == CHOOSE x \in T : TRUE

(* g is the recursion of SumFunctionOnSet(f, _) on the subsets of S. *)
SumsUp(g, f, S) ==
  g = [T \in SUBSET S |-> IF T = {} THEN 0 ELSE f[Some(T)] + g[T \ {Some(T)}]]

(* What SumFunctionOnSet is by its definition. *)
LEMMA SumIsFold ==
  ASSUME NEW f, NEW S
  PROVE  SumFunctionOnSet(f, S) = (CHOOSE g : SumsUp(g, f, S))[S]
BY DEF SumFunctionOnSet, FoldFunctionOnSet, MapThenFoldSet, SumsUp, Some

(* A sum over a finite set is well defined. *)
LEMMA SumsUpExists ==
  ASSUME NEW S, IsFiniteSet(S), NEW f, IntegersOn(f, S)
  PROVE  \E g \in [SUBSET S -> Int] : SumsUp(g, f, S)
<1> DEFINE step == [x \in S |-> [v \in Int |-> f[x] + v]]
           pick == [T \in SUBSET S |-> Some(T)]
<1>1. step \in [S -> [Int -> Int]]
  BY DEF IntegersOn
<1>2. \A T \in SUBSET S : T # {} => pick[T] \in T /\ pick[T] = Some(T)
  BY DEF Some
<1>3. PICK g \in [SUBSET S -> Int] : Recursion(g, 0, step, pick, S)
  <2> HIDE DEF step, pick
  <2>1. Picks(pick, S)
    BY <1>2 DEF Picks
  <2> DEFINE V == Int  base == 0
  <2>2. base \in V /\ step \in [S -> [V -> V]]
    BY <1>1
  <2> HIDE DEF V, base
  <2>3. \E g \in [SUBSET S -> V] : Recursion(g, base, step, pick, S)
    BY <2>1, <2>2, FoldExists
  <2> QED BY <2>3 DEF V, base
<1>4. \A T \in SUBSET S : g[T] = IF T = {} THEN 0 ELSE f[Some(T)] + g[T \ {Some(T)}]
  <2> SUFFICES ASSUME NEW T \in SUBSET S, T # {}
               PROVE  step[Some(T)][g[T \ {Some(T)}]] = f[Some(T)] + g[T \ {Some(T)}]
    BY <1>2, <1>3 DEF Recursion
  <2>1. Some(T) \in S /\ g[T \ {Some(T)}] \in Int
    BY DEF Some
  <2> QED BY <2>1
<1> QED BY <1>4 DEF SumsUp

(* All solutions on subsets of S agree, so a sum has the recursion of the
   sums of its subsets.                                                    *)
LEMMA SumsUpAgree ==
  ASSUME NEW S, IsFiniteSet(S), NEW P \in SUBSET S, NEW f, NEW g, NEW h,
         SumsUp(g, f, S), SumsUp(h, f, P)
  PROVE  \A T \in SUBSET P : g[T] = h[T]
<1> DEFINE G == {T \in SUBSET P : g[T] = h[T]}
<1>1. IsFiniteSet(P)
  BY FS_Subset
<1>2. ASSUME NEW T \in SUBSET P, \A x \in T : T \ {x} \in G PROVE T \in G
  <2>1. g[T] = IF T = {} THEN 0 ELSE f[Some(T)] + g[T \ {Some(T)}]
    BY DEF SumsUp
  <2>2. h[T] = IF T = {} THEN 0 ELSE f[Some(T)] + h[T \ {Some(T)}]
    BY DEF SumsUp
  <2>3. T # {} => Some(T) \in T
    BY DEF Some
  <2> QED BY <1>2, <2>1, <2>2, <2>3
<1>3. G = SUBSET P
  <2>1. G \in SUBSET SUBSET P
    OBVIOUS
  <2> HIDE DEF G
  <2> QED BY <1>1, <1>2, <2>1, SubsetInduction
<1> QED BY <1>3

(* The recursion over S has the sums over the subsets of S. *)
LEMMA SumSubset ==
  ASSUME NEW S, IsFiniteSet(S), NEW f, IntegersOn(f, S), NEW g, SumsUp(g, f, S), NEW P \in SUBSET S
  PROVE  SumFunctionOnSet(f, P) = g[P]
<1>1. IsFiniteSet(P) /\ IntegersOn(f, P)
  BY FS_Subset DEF IntegersOn
<1> DEFINE h == CHOOSE h : SumsUp(h, f, P)
<1>2. SumsUp(h, f, P)
  BY <1>1, SumsUpExists
<1>3. SumFunctionOnSet(f, P) = h[P]
  BY SumIsFold
<1> HIDE DEF h
<1> QED BY <1>2, <1>3, SumsUpAgree

(* A sum has the recursion of its definition. *)
LEMMA SumRecursion ==
  ASSUME NEW S, IsFiniteSet(S), NEW f, IntegersOn(f, S)
  PROVE  /\ SumFunctionOnSet(f, S) \in Int
         /\ S = {} => SumFunctionOnSet(f, S) = 0
         /\ S # {} => SumFunctionOnSet(f, S) = f[Some(S)] + SumFunctionOnSet(f, S \ {Some(S)})
<1>1. PICK g \in [SUBSET S -> Int] : SumsUp(g, f, S)
  BY SumsUpExists
<1>2. \A P \in SUBSET S : SumFunctionOnSet(f, P) = g[P]
  BY <1>1, SumSubset
<1>3. g[S] = IF S = {} THEN 0 ELSE f[Some(S)] + g[S \ {Some(S)}]
  BY <1>1 DEF SumsUp
<1>4. g[S] \in Int /\ SumFunctionOnSet(f, S) = g[S]
      /\ SumFunctionOnSet(f, S \ {Some(S)}) = g[S \ {Some(S)}]
  BY <1>2
<1> QED BY <1>3, <1>4

(* A sum over integers is an integer. *)
LEMMA SumType ==
  ASSUME NEW S, IsFiniteSet(S), NEW f, IntegersOn(f, S)
  PROVE  SumFunctionOnSet(f, S) \in Int
BY SumRecursion

(* The empty sum. *)
LEMMA SumEmpty ==
  ASSUME NEW f
  PROVE  SumFunctionOnSet(f, {}) = 0
BY SumRecursion, FS_EmptySet DEF IntegersOn

(* Any element can be taken out of a sum. *)
LEMMA SumRemove ==
  ASSUME NEW S, IsFiniteSet(S), NEW f, IntegersOn(f, S), NEW x \in S
  PROVE  SumFunctionOnSet(f, S) = f[x] + SumFunctionOnSet(f, S \ {x})
<1> DEFINE Takes(T, y) == SumFunctionOnSet(f, T) = f[y] + SumFunctionOnSet(f, T \ {y})
           G == {T \in SUBSET S : \A y \in T : Takes(T, y)}
<1>1. \A T \in SUBSET S : IsFiniteSet(T) /\ IntegersOn(f, T) /\ SumFunctionOnSet(f, T) \in Int
  BY FS_Subset, SumType DEF IntegersOn
<1>2. ASSUME NEW T \in SUBSET S, \A y \in T : T \ {y} \in G PROVE T \in G
  <2> SUFFICES ASSUME NEW y \in T PROVE Takes(T, y)
    OBVIOUS
  <2> DEFINE c == Some(T)
  <2>1. c \in T
    BY DEF Some
  <2>2. Takes(T, c)
    BY <1>1, SumRecursion
  <2> HIDE DEF c
  <2>3. CASE y = c
    BY <2>2, <2>3
  <2>4. CASE y # c
    <3>1. Takes(T \ {c}, y) /\ Takes(T \ {y}, c)
      BY <1>2, <2>1, <2>4
    <3>2. (T \ {c}) \ {y} = (T \ {y}) \ {c}
      OBVIOUS
    <3>3. f[y] \in Int /\ f[c] \in Int /\ SumFunctionOnSet(f, (T \ {y}) \ {c}) \in Int
      BY <1>1, <2>1 DEF IntegersOn
    <3> DEFINE both == (T \ {y}) \ {c}
    <3>4. /\ SumFunctionOnSet(f, T) = f[c] + SumFunctionOnSet(f, T \ {c})
          /\ SumFunctionOnSet(f, T \ {c}) = f[y] + SumFunctionOnSet(f, both)
          /\ SumFunctionOnSet(f, T \ {y}) = f[c] + SumFunctionOnSet(f, both)
      BY <2>2, <3>1, <3>2
    <3> HIDE DEF both, G
    <3> QED BY <3>3, <3>4 DEF both
  <2> QED BY <2>3, <2>4
<1>3. G = SUBSET S
  <2>1. G \in SUBSET SUBSET S
    OBVIOUS
  <2> HIDE DEF G
  <2> QED BY <1>2, <2>1, SubsetInduction
<1> QED BY <1>3

(* A sum depends on the terms over its set only. *)
LEMMA SumEqual ==
  ASSUME NEW S, IsFiniteSet(S), NEW f, NEW g, IntegersOn(f, S),
         \A x \in S : g[x] = f[x]
  PROVE  SumFunctionOnSet(g, S) = SumFunctionOnSet(f, S)
<1> DEFINE Holds(T) == SumFunctionOnSet(g, T) = SumFunctionOnSet(f, T)
           G == {T \in SUBSET S : Holds(T)}
<1>1. ASSUME NEW T \in SUBSET S, \A x \in T : T \ {x} \in G PROVE Holds(T)
  <2>1. IsFiniteSet(T)
    BY FS_Subset
  <2>2. CASE T = {}
    BY <2>2, SumEmpty
  <2>3. ASSUME NEW x \in T PROVE Holds(T)
    <3>1. /\ SumFunctionOnSet(f, T) = f[x] + SumFunctionOnSet(f, T \ {x})
          /\ SumFunctionOnSet(g, T) = g[x] + SumFunctionOnSet(g, T \ {x})
      BY <2>1, SumRemove DEF IntegersOn
    <3> QED BY <1>1, <2>3, <3>1
  <2> QED BY <2>2, <2>3
<1>2. G = SUBSET S
  <2>1. G \in SUBSET SUBSET S
    OBVIOUS
  <2>2. \A T \in SUBSET S : (\A x \in T : T \ {x} \in G) => T \in G
    BY <1>1
  <2> HIDE DEF G
  <2> QED BY <2>1, <2>2, SubsetInduction
<1> QED BY <1>2

(* Sums add up term by term. *)
LEMMA SumPlus ==
  ASSUME NEW S, IsFiniteSet(S), NEW f, NEW g, NEW h, IntegersOn(f, S), IntegersOn(g, S),
         \A x \in S : h[x] = f[x] + g[x]
  PROVE  SumFunctionOnSet(h, S) = SumFunctionOnSet(f, S) + SumFunctionOnSet(g, S)
<1> DEFINE Holds(T) == SumFunctionOnSet(h, T) = SumFunctionOnSet(f, T) + SumFunctionOnSet(g, T)
           G == {T \in SUBSET S : Holds(T)}
<1>1. ASSUME NEW T \in SUBSET S, \A x \in T : T \ {x} \in G PROVE Holds(T)
  <2>1. IsFiniteSet(T)
    BY FS_Subset
  <2>2. CASE T = {}
    BY <2>2, SumEmpty
  <2>3. ASSUME NEW x \in T PROVE Holds(T)
    <3>1. /\ SumFunctionOnSet(f, T) = f[x] + SumFunctionOnSet(f, T \ {x})
          /\ SumFunctionOnSet(g, T) = g[x] + SumFunctionOnSet(g, T \ {x})
          /\ SumFunctionOnSet(h, T) = h[x] + SumFunctionOnSet(h, T \ {x})
      BY <2>1, SumRemove DEF IntegersOn
    <3>2. /\ f[x] \in Int /\ g[x] \in Int /\ h[x] = f[x] + g[x]
          /\ SumFunctionOnSet(f, T \ {x}) \in Int /\ SumFunctionOnSet(g, T \ {x}) \in Int
      BY <2>1, SumType, FS_Subset DEF IntegersOn
    <3>3. SumFunctionOnSet(h, T \ {x})
              = SumFunctionOnSet(f, T \ {x}) + SumFunctionOnSet(g, T \ {x})
      BY <1>1, <2>3
    <3> HIDE DEF G
    <3> QED BY <3>1, <3>2, <3>3
  <2> QED BY <2>2, <2>3
<1>2. G = SUBSET S
  <2>1. G \in SUBSET SUBSET S
    OBVIOUS
  <2>2. \A T \in SUBSET S : (\A x \in T : T \ {x} \in G) => T \in G
    BY <1>1
  <2> HIDE DEF G
  <2> QED BY <2>1, <2>2, SubsetInduction
<1> QED BY <1>2

(* A common factor can be taken out of a sum. *)
LEMMA SumTimes ==
  ASSUME NEW S, IsFiniteSet(S), NEW f, NEW h, NEW p \in Int, IntegersOn(f, S),
         \A x \in S : h[x] = p * f[x]
  PROVE  SumFunctionOnSet(h, S) = p * SumFunctionOnSet(f, S)
<1> DEFINE Holds(T) == SumFunctionOnSet(h, T) = p * SumFunctionOnSet(f, T)
           G == {T \in SUBSET S : Holds(T)}
<1>1. ASSUME NEW T \in SUBSET S, \A x \in T : T \ {x} \in G PROVE Holds(T)
  <2>1. IsFiniteSet(T)
    BY FS_Subset
  <2>2. CASE T = {}
    BY <2>2, SumEmpty
  <2>3. ASSUME NEW x \in T PROVE Holds(T)
    <3>1. /\ SumFunctionOnSet(f, T) = f[x] + SumFunctionOnSet(f, T \ {x})
          /\ SumFunctionOnSet(h, T) = h[x] + SumFunctionOnSet(h, T \ {x})
      BY <2>1, SumRemove DEF IntegersOn
    <3>2. /\ f[x] \in Int /\ h[x] = p * f[x] /\ SumFunctionOnSet(f, T \ {x}) \in Int
      BY <2>1, SumType, FS_Subset DEF IntegersOn
    <3>3. SumFunctionOnSet(h, T \ {x}) = p * SumFunctionOnSet(f, T \ {x})
      BY <1>1, <2>3
    <3> HIDE DEF G
    <3> QED BY <3>1, <3>2, <3>3
  <2> QED BY <2>2, <2>3
<1>2. G = SUBSET S
  <2>1. G \in SUBSET SUBSET S
    OBVIOUS
  <2>2. \A T \in SUBSET S : (\A x \in T : T \ {x} \in G) => T \in G
    BY <1>1
  <2> HIDE DEF G
  <2> QED BY <2>1, <2>2, SubsetInduction
<1> QED BY <1>2

(* Larger terms, larger sum. *)
LEMMA SumAtMost ==
  ASSUME NEW S, IsFiniteSet(S), NEW f, NEW g, IntegersOn(f, S), IntegersOn(g, S),
         \A x \in S : f[x] <= g[x]
  PROVE  SumFunctionOnSet(f, S) <= SumFunctionOnSet(g, S)
<1> DEFINE Holds(T) == SumFunctionOnSet(f, T) <= SumFunctionOnSet(g, T)
           G == {T \in SUBSET S : Holds(T)}
<1>1. ASSUME NEW T \in SUBSET S, \A x \in T : T \ {x} \in G PROVE Holds(T)
  <2>1. IsFiniteSet(T)
    BY FS_Subset
  <2>2. CASE T = {}
    BY <2>2, SumEmpty
  <2>3. ASSUME NEW x \in T PROVE Holds(T)
    <3>1. /\ SumFunctionOnSet(f, T) = f[x] + SumFunctionOnSet(f, T \ {x})
          /\ SumFunctionOnSet(g, T) = g[x] + SumFunctionOnSet(g, T \ {x})
      BY <2>1, SumRemove DEF IntegersOn
    <3>2. /\ f[x] \in Int /\ g[x] \in Int /\ f[x] <= g[x]
          /\ SumFunctionOnSet(f, T \ {x}) \in Int /\ SumFunctionOnSet(g, T \ {x}) \in Int
      BY <2>1, SumType, FS_Subset DEF IntegersOn
    <3>3. SumFunctionOnSet(f, T \ {x}) <= SumFunctionOnSet(g, T \ {x})
      BY <1>1, <2>3
    <3> HIDE DEF G
    <3> QED BY <3>1, <3>2, <3>3
  <2> QED BY <2>2, <2>3
<1>2. G = SUBSET S
  <2>1. G \in SUBSET SUBSET S
    OBVIOUS
  <2>2. \A T \in SUBSET S : (\A x \in T : T \ {x} \in G) => T \in G
    BY <1>1
  <2> HIDE DEF G
  <2> QED BY <2>1, <2>2, SubsetInduction
<1> QED BY <1>2

(* The sum of equal terms. *)
LEMMA SumConstant ==
  ASSUME NEW S, IsFiniteSet(S), NEW f, NEW b \in Int, \A x \in S : f[x] = b
  PROVE  SumFunctionOnSet(f, S) = b * Cardinality(S)
<1> DEFINE Holds(T) == SumFunctionOnSet(f, T) = b * Cardinality(T)
           G == {T \in SUBSET S : Holds(T)}
<1>1. ASSUME NEW T \in SUBSET S, \A x \in T : T \ {x} \in G PROVE Holds(T)
  <2>1. IsFiniteSet(T)
    BY FS_Subset
  <2>2. CASE T = {}
    BY <2>2, SumEmpty, FS_EmptySet
  <2>3. ASSUME NEW x \in T PROVE Holds(T)
    <3>1. SumFunctionOnSet(f, T) = f[x] + SumFunctionOnSet(f, T \ {x})
      BY <2>1, SumRemove DEF IntegersOn
    <3>2. Cardinality(T) \in Nat /\ Cardinality(T \ {x}) = Cardinality(T) - 1
      BY <2>1, FS_CardinalityType, FS_RemoveElement
    <3>3. SumFunctionOnSet(f, T \ {x}) = b * Cardinality(T \ {x}) /\ f[x] = b
      BY <1>1, <2>3
    <3> HIDE DEF G
    <3> QED BY <3>1, <3>2, <3>3
  <2> QED BY <2>2, <2>3
<1>2. G = SUBSET S
  <2>1. G \in SUBSET SUBSET S
    OBVIOUS
  <2>2. \A T \in SUBSET S : (\A x \in T : T \ {x} \in G) => T \in G
    BY <1>1
  <2> HIDE DEF G
  <2> QED BY <2>1, <2>2, SubsetInduction
<1> QED BY <1>2

(* A sum of natural numbers is one. *)
LEMMA SumNatural ==
  ASSUME NEW S, IsFiniteSet(S), NEW f, \A x \in S : f[x] \in Nat
  PROVE  SumFunctionOnSet(f, S) \in Nat
<1> DEFINE zero == [x \in S |-> 0]
<1>1. IntegersOn(f, S) /\ IntegersOn(zero, S) /\ \A x \in S : zero[x] = 0 /\ zero[x] <= f[x]
  BY DEF IntegersOn
<1> HIDE DEF zero
<1>2. SumFunctionOnSet(zero, S) = 0 * Cardinality(S)
  BY <1>1, SumConstant
<1>3. SumFunctionOnSet(zero, S) <= SumFunctionOnSet(f, S)
  BY <1>1, SumAtMost
<1>4. SumFunctionOnSet(f, S) \in Int /\ Cardinality(S) \in Nat
  BY <1>1, SumType, FS_CardinalityType
<1> QED BY <1>2, <1>3, <1>4

(* It bounds the sums of its parts. *)
LEMMA SumOfPart ==
  ASSUME NEW S, IsFiniteSet(S), NEW f, \A x \in S : f[x] \in Nat, NEW P \in SUBSET S
  PROVE  SumFunctionOnSet(f, P) <= SumFunctionOnSet(f, S)
<1> DEFINE Holds(T) == \A U \in SUBSET T : SumFunctionOnSet(f, U) <= SumFunctionOnSet(f, T)
           G == {T \in SUBSET S : Holds(T)}
<1>1. \A T \in SUBSET S : IsFiniteSet(T) /\ IntegersOn(f, T) /\ SumFunctionOnSet(f, T) \in Nat
  BY FS_Subset, SumNatural DEF IntegersOn
<1>2. ASSUME NEW T \in SUBSET S, \A x \in T : T \ {x} \in G PROVE Holds(T)
  <2> SUFFICES ASSUME NEW U \in SUBSET T
               PROVE  SumFunctionOnSet(f, U) <= SumFunctionOnSet(f, T)
    OBVIOUS
  <2>1. CASE U = T
    BY <1>1, <2>1
  <2>2. CASE U # T
    <3>1. PICK x \in T : U \in SUBSET (T \ {x})
      BY <2>2
    <3>2. SumFunctionOnSet(f, U) <= SumFunctionOnSet(f, T \ {x})
      BY <1>2, <3>1
    <3>3. SumFunctionOnSet(f, T) = f[x] + SumFunctionOnSet(f, T \ {x})
      BY <1>1, SumRemove
    <3>4. f[x] \in Nat /\ SumFunctionOnSet(f, T \ {x}) \in Nat /\ SumFunctionOnSet(f, U) \in Nat
      BY <1>1
    <3> HIDE DEF G
    <3> QED BY <3>2, <3>3, <3>4
  <2> QED BY <2>1, <2>2
<1>3. G = SUBSET S
  <2>1. G \in SUBSET SUBSET S
    OBVIOUS
  <2>2. \A T \in SUBSET S : (\A x \in T : T \ {x} \in G) => T \in G
    BY <1>2
  <2> HIDE DEF G
  <2> QED BY <2>1, <2>2, SubsetInduction
<1> QED BY <1>3

-----------------------------------------------------------------------------
(* Sums that cancel. *)

(* The sum over all ordered pairs of a finite set of what one side of a pair
   adds and the other takes away is zero.                                  *)
LEMMA PairsCancel ==
  ASSUME NEW S, IsFiniteSet(S), NEW a, NEW row,
         \A x, y \in S : a[x][y] \in Int /\ a[x][y] = -a[y][x],
         \A x \in S : row[x] = SumFunctionOnSet(a[x], S)
  PROVE  SumFunctionOnSet(row, S) = 0
<1> DEFINE RowSum(x, T) == SumFunctionOnSet(a[x], T)
           Holds(T) == SumFunctionOnSet([x \in S |-> RowSum(x, T)], T) = 0
           G == {T \in SUBSET S : Holds(T)}
<1>s. \A T \in SUBSET S : IsFiniteSet(T) /\ \A x \in S : IntegersOn(a[x], T) /\ RowSum(x, T) \in Int
  BY FS_Subset, SumType DEF IntegersOn
<1>1. ASSUME NEW T \in SUBSET S, \A x \in T : T \ {x} \in G PROVE Holds(T)
  <2>1. CASE T = {}
    BY <2>1, SumEmpty
  <2>2. ASSUME NEW z \in T PROVE Holds(T)
    <3> DEFINE U == T \ {z}
               all == [x \in S |-> RowSum(x, T)]
               less == [x \in S |-> RowSum(x, U)]
               column == [x \in S |-> a[x][z]]
    <3>1. z \notin U /\ U \in SUBSET S /\ U \in G
      BY <1>1
    <3>2. \A x \in S : all[x] = a[x][z] + less[x]
      BY <1>s, <2>2, SumRemove
    <3>3. IntegersOn(all, T) /\ IntegersOn(less, U) /\ IntegersOn(column, U)
      BY <1>s, <3>1 DEF IntegersOn
    <3>4. SumFunctionOnSet(less, U) = 0
      BY <3>1
    <3>5. SumFunctionOnSet(column, U) = (-1) * RowSum(z, U)
      <4>1. IsFiniteSet(U) /\ IntegersOn(a[z], U)
        BY <1>s, <3>1, <2>2
      <4>2. \A x \in U : column[x] = (-1) * a[z][x]
        BY <3>1, <2>2
      <4> HIDE DEF column, U
      <4> QED BY <4>1, <4>2, SumTimes
    <3>6. SumFunctionOnSet(all, T) = all[z] + SumFunctionOnSet(all, U)
      BY <1>s, <2>2, <3>3, SumRemove
    <3>7. SumFunctionOnSet(all, U) = SumFunctionOnSet(column, U) + SumFunctionOnSet(less, U)
      <4>1. IsFiniteSet(U) /\ \A x \in U : all[x] = column[x] + less[x]
        BY <1>s, <3>1, <3>2
      <4> HIDE DEF column, U, all, less
      <4> QED BY <4>1, <3>3, SumPlus
    <3>8. all[z] = a[z][z] + RowSum(z, U) /\ a[z][z] = 0 /\ RowSum(z, U) \in Int
      <4>1. a[z][z] = 0
        BY <2>2
      <4>2. RowSum(z, U) \in Int
        BY <1>s, <3>1, <2>2
      <4>3. all[z] = a[z][z] + less[z] /\ less[z] = RowSum(z, U)
        BY <3>2, <2>2
      <4> QED BY <4>1, <4>2, <4>3
    <3>9. SumFunctionOnSet(all, T) = 0
      <4> HIDE DEF all, less, column, U, G, RowSum
      <4> QED BY <3>4, <3>5, <3>6, <3>7, <3>8
    <3> QED BY <3>9
  <2> QED BY <2>1, <2>2
<1>2. G = SUBSET S
  <2>1. G \in SUBSET SUBSET S
    OBVIOUS
  <2>2. \A T \in SUBSET S : (\A x \in T : T \ {x} \in G) => T \in G
    BY <1>1
  <2> HIDE DEF G
  <2> QED BY <2>1, <2>2, SubsetInduction
<1>3. SumFunctionOnSet([x \in S |-> RowSum(x, S)], S) = 0
  BY <1>2
<1>4. IntegersOn([x \in S |-> RowSum(x, S)], S)
  BY <1>s DEF IntegersOn
<1> QED BY <1>3, <1>4, SumEqual

-----------------------------------------------------------------------------
(* Congruences. *)

Congruent(a, b, m) == \E q \in Int : a = b + q * m

(* Congruence is reflexive *)
LEMMA CongruentSame ==
  ASSUME NEW m \in Int, NEW a \in Int
  PROVE  Congruent(a, a, m)
<1>1. a = a + 0 * m
  OBVIOUS
<1> QED BY <1>1 DEF Congruent

(* and transitive, *)
LEMMA CongruentChain ==
  ASSUME NEW m \in Int, NEW a \in Int, NEW b \in Int, NEW c \in Int,
         Congruent(a, b, m), Congruent(b, c, m)
  PROVE  Congruent(a, c, m)
<1>1. PICK p \in Int : a = b + p * m
  BY DEF Congruent
<1>2. PICK q \in Int : b = c + q * m
  BY DEF Congruent
<1>3. p + q \in Int /\ (p + q) * m = p * m + q * m
  OBVIOUS
<1>4. p * m \in Int /\ q * m \in Int
  OBVIOUS
<1>5. a = c + (p + q) * m
  BY <1>1, <1>2, <1>3, <1>4
<1> QED BY <1>3, <1>5 DEF Congruent

(* and sums of congruent numbers are congruent. *)
LEMMA CongruentPlus ==
  ASSUME NEW m \in Int, NEW a \in Int, NEW b \in Int, NEW c \in Int, NEW d \in Int,
         Congruent(a, b, m), Congruent(c, d, m)
  PROVE  Congruent(a + c, b + d, m)
<1>1. PICK p \in Int : a = b + p * m
  BY DEF Congruent
<1>2. PICK q \in Int : c = d + q * m
  BY DEF Congruent
<1>3. p + q \in Int /\ (p + q) * m = p * m + q * m
  OBVIOUS
<1>4. p * m \in Int /\ q * m \in Int
  OBVIOUS
<1>5. a + c = (b + d) + (p + q) * m
  BY <1>1, <1>2, <1>3, <1>4
<1> QED BY <1>3, <1>5 DEF Congruent

(* A number is congruent to its remainder. *)
LEMMA Remainder ==
  ASSUME NEW m \in Nat \ {0}, NEW a \in Int
  PROVE  a % m \in 0..(m - 1) /\ Congruent(a % m, a, m)
<1>1. a % m \in 0..(m - 1) /\ a \div m \in Int /\ a = m * (a \div m) + (a % m)
  OBVIOUS
<1>2. a % m = a + (-(a \div m)) * m
  BY <1>1
<1>3. -(a \div m) \in Int
  BY <1>1
<1> QED BY <1>1, <1>2, <1>3 DEF Congruent

(* Less than m apart, congruent numbers are the same. *)
LEMMA CongruentClose ==
  ASSUME NEW m \in Nat \ {0}, NEW l \in Int, NEW a \in l..(l + m - 1), NEW b \in l..(l + m - 1),
         Congruent(a, b, m)
  PROVE  a = b
<1>1. PICK q \in Int : a = b + q * m
  BY DEF Congruent
<1>2. q * m < m /\ -m < q * m
  BY <1>1
<1>3. CASE q >= 1
  <2>1. q * m >= m
    BY <1>3
  <2> QED BY <2>1, <1>2
<1>4. CASE q <= -1
  <2>1. q * m <= -m
    BY <1>4
  <2> QED BY <2>1, <1>2
<1>5. CASE q = 0
  BY <1>1, <1>5
<1> QED BY <1>3, <1>4, <1>5

(* Sums of congruent terms are congruent. *)
LEMMA CongruentSum ==
  ASSUME NEW S, IsFiniteSet(S), NEW m \in Int, NEW f, NEW g, IntegersOn(f, S), IntegersOn(g, S),
         \A x \in S : Congruent(f[x], g[x], m)
  PROVE  Congruent(SumFunctionOnSet(f, S), SumFunctionOnSet(g, S), m)
<1> DEFINE Holds(T) == Congruent(SumFunctionOnSet(f, T), SumFunctionOnSet(g, T), m)
           G == {T \in SUBSET S : Holds(T)}
<1>1. ASSUME NEW T \in SUBSET S, \A x \in T : T \ {x} \in G PROVE Holds(T)
  <2>1. IsFiniteSet(T)
    BY FS_Subset
  <2>2. CASE T = {}
    BY <2>2, SumEmpty, CongruentSame
  <2>3. ASSUME NEW x \in T PROVE Holds(T)
    <3>1. /\ SumFunctionOnSet(f, T) = f[x] + SumFunctionOnSet(f, T \ {x})
          /\ SumFunctionOnSet(g, T) = g[x] + SumFunctionOnSet(g, T \ {x})
      BY <2>1, SumRemove DEF IntegersOn
    <3>2. /\ f[x] \in Int /\ g[x] \in Int /\ Congruent(f[x], g[x], m)
          /\ SumFunctionOnSet(f, T \ {x}) \in Int /\ SumFunctionOnSet(g, T \ {x}) \in Int
      BY <2>1, SumType, FS_Subset DEF IntegersOn
    <3>3. Congruent(SumFunctionOnSet(f, T \ {x}), SumFunctionOnSet(g, T \ {x}), m)
      BY <1>1, <2>3
    <3> HIDE DEF G
    <3> QED BY <3>1, <3>2, <3>3, CongruentPlus
  <2> QED BY <2>2, <2>3
<1>2. G = SUBSET S
  <2>1. G \in SUBSET SUBSET S
    OBVIOUS
  <2>2. \A T \in SUBSET S : (\A x \in T : T \ {x} \in G) => T \in G
    BY <1>1
  <2> HIDE DEF G
  <2> QED BY <2>1, <2>2, SubsetInduction
<1> QED BY <1>2

(* g adds the terms e[x] to b, one after the other, modulo m. *)
AddsModulo(g, b, e, m, S) ==
  g = [T \in SUBSET S |-> IF T = {} THEN b ELSE (g[T \ {Some(T)}] + e[Some(T)]) % m]

(* The recursion of AddsModulo has a solution. *)
LEMMA AddsModuloExists ==
  ASSUME NEW S, IsFiniteSet(S), NEW b \in Int, NEW e, IntegersOn(e, S), NEW m \in Nat \ {0}
  PROVE  \E g \in [SUBSET S -> Int] : AddsModulo(g, b, e, m, S)
<1> DEFINE V == Int
           step == [x \in S |-> [v \in V |-> (v + e[x]) % m]]
           pick == [T \in SUBSET S |-> Some(T)]
<1>1. \A T \in SUBSET S : T # {} => Some(T) \in T
  BY DEF Some
<1>2. Picks(pick, S)
  BY <1>1 DEF Picks
<1>3. b \in V /\ step \in [S -> [V -> V]]
  <2>1. \A x \in S, v \in Int : (v + e[x]) % m \in Int
    <3> SUFFICES ASSUME NEW x \in S, NEW v \in Int PROVE (v + e[x]) % m \in Int
      OBVIOUS
    <3>1. v + e[x] \in Int
      BY DEF IntegersOn
    <3>2. (v + e[x]) % m \in 0..(m - 1)
      BY <3>1, Remainder
    <3> QED BY <3>2
  <2> QED BY <2>1
<1>4. PICK g \in [SUBSET S -> V] : Recursion(g, b, step, pick, S)
  <2> HIDE DEF V, step, pick
  <2> QED BY <1>2, <1>3, FoldExists
<1>5. ASSUME NEW T \in SUBSET S
      PROVE  g[T] = IF T = {} THEN b ELSE (g[T \ {Some(T)}] + e[Some(T)]) % m
  <2>1. g[T] = IF T = {} THEN b ELSE step[Some(T)][g[T \ {Some(T)}]]
    BY <1>4 DEF Recursion
  <2>2. CASE T = {}
    BY <2>1, <2>2
  <2>3. CASE T # {}
    <3>1. Some(T) \in S /\ g[T \ {Some(T)}] \in Int
      BY <1>1, <2>3
    <3> QED BY <2>1, <2>3, <3>1
  <2> QED BY <2>2, <2>3
<1> QED BY <1>5 DEF AddsModulo

(* Reducing at every step is congruent to the sum. *)
LEMMA AddsModuloSum ==
  ASSUME NEW S, IsFiniteSet(S), NEW b \in Int, NEW e, IntegersOn(e, S), NEW m \in Nat \ {0},
         NEW g, AddsModulo(g, b, e, m, S)
  PROVE  /\ g[S] \in Int
         /\ Congruent(g[S], b + SumFunctionOnSet(e, S), m)
<1> DEFINE Holds(T) == g[T] \in Int /\ Congruent(g[T], b + SumFunctionOnSet(e, T), m)
           G == {T \in SUBSET S : Holds(T)}
<1>1. ASSUME NEW T \in SUBSET S, \A x \in T : T \ {x} \in G PROVE Holds(T)
  <2>1. g[T] = IF T = {} THEN b ELSE (g[T \ {Some(T)}] + e[Some(T)]) % m
    BY DEF AddsModulo
  <2>2. CASE T = {}
    BY <2>1, <2>2, SumEmpty, CongruentSame
  <2>3. CASE T # {}
    <3> DEFINE x == Some(T)
               before == SumFunctionOnSet(e, T \ {x})
               sofar == g[T \ {x}]
    <3>1. x \in T
      BY <2>3 DEF Some
    <3>2. sofar \in Int /\ Congruent(sofar, b + before, m)
      BY <1>1, <3>1
    <3>3. e[x] \in Int /\ before \in Int /\ SumFunctionOnSet(e, T) = e[x] + before
      BY <3>1, FS_Subset, SumType, SumRemove DEF IntegersOn
    <3>4. g[T] = (sofar + e[x]) % m
      BY <2>1, <2>3
    <3> HIDE DEF x, before, sofar, G
    <3>5. Congruent(sofar + e[x], (b + before) + e[x], m)
      <4> DEFINE start == b + before
      <4>1. start \in Int /\ Congruent(e[x], e[x], m) /\ Congruent(sofar, start, m) /\ m \in Int
        BY <3>2, <3>3, CongruentSame
      <4>2. Congruent(sofar + e[x], start + e[x], m)
        <5> HIDE DEF start
        <5> QED BY <4>1, <3>2, <3>3, CongruentPlus
      <4> QED BY <4>2
    <3>6. g[T] \in Int /\ Congruent(g[T], sofar + e[x], m)
      BY <3>2, <3>3, <3>4, Remainder
    <3>7. Congruent(g[T], (b + before) + e[x], m)
      BY <3>2, <3>3, <3>5, <3>6, CongruentChain
    <3>8. (b + before) + e[x] = b + SumFunctionOnSet(e, T)
      BY <3>3
    <3> QED BY <3>6, <3>7, <3>8
  <2> QED BY <2>2, <2>3
<1>2. G = SUBSET S
  <2>1. G \in SUBSET SUBSET S
    OBVIOUS
  <2>2. \A T \in SUBSET S : (\A x \in T : T \ {x} \in G) => T \in G
    BY <1>1
  <2> HIDE DEF G
  <2> QED BY <2>1, <2>2, SubsetInduction
<1> QED BY <1>2

-----------------------------------------------------------------------------
(* Norms: the vectors here are families u[f][c] of integers, c in 1..n[f]. *)

VectorsOn(u, S, n) == \A f \in S : \A c \in 1..n[f] : u[f][c] \in Int

Products(u, v, n, f) == [c \in 1..n[f] |-> u[f][c] * v[f][c]]

InnerDot(u, v, n, f) == SumFunctionOnSet(Products(u, v, n, f), 1..n[f])

Dot(u, v, S, n) == SumFunctionOnSet([f \in S |-> InnerDot(u, v, n, f)], S)

Combines(k, f, g, h, p, q, r, S) == \A x \in S : k[x] = p * f[x] + (q * g[x] + r * h[x])

CombinesSums(k, f, g, h, p, q, r, S) ==
  SumFunctionOnSet(k, S) = p * SumFunctionOnSet(f, S)
        + (q * SumFunctionOnSet(g, S) + r * SumFunctionOnSet(h, S))

(* A linear combination of three sums, term by term. *)
LEMMA SumOfThree ==
  ASSUME NEW S, IsFiniteSet(S), NEW f, NEW g, NEW h, NEW k,
         IntegersOn(f, S), IntegersOn(g, S), IntegersOn(h, S),
         NEW p \in Int, NEW q \in Int, NEW r \in Int,
         Combines(k, f, g, h, p, q, r, S)
  PROVE  CombinesSums(k, f, g, h, p, q, r, S)
<1> DEFINE pf == [x \in S |-> p * f[x]]
           qg == [x \in S |-> q * g[x]]
           rh == [x \in S |-> r * h[x]]
           qgrh == [x \in S |-> qg[x] + rh[x]]
<1>1. IntegersOn(pf, S) /\ IntegersOn(qg, S) /\ IntegersOn(rh, S) /\ IntegersOn(qgrh, S)
  BY DEF IntegersOn
<1>2. \A x \in S : k[x] = pf[x] + qgrh[x]
  BY DEF Combines
<1>3. \A x \in S : qgrh[x] = qg[x] + rh[x]
  OBVIOUS
<1>4. /\ \A x \in S : pf[x] = p * f[x]
      /\ \A x \in S : qg[x] = q * g[x]
      /\ \A x \in S : rh[x] = r * h[x]
  OBVIOUS
<1> HIDE DEF pf, qg, rh, qgrh
<1>5. SumFunctionOnSet(k, S) = SumFunctionOnSet(pf, S) + SumFunctionOnSet(qgrh, S)
  BY <1>1, <1>2, SumPlus
<1>6. SumFunctionOnSet(qgrh, S) = SumFunctionOnSet(qg, S) + SumFunctionOnSet(rh, S)
  BY <1>1, <1>3, SumPlus
<1>7. SumFunctionOnSet(pf, S) = p * SumFunctionOnSet(f, S)
  BY <1>4, SumTimes
<1>8. SumFunctionOnSet(qg, S) = q * SumFunctionOnSet(g, S)
  BY <1>4, SumTimes
<1>9. SumFunctionOnSet(rh, S) = r * SumFunctionOnSet(h, S)
  BY <1>4, SumTimes
<1> QED BY <1>5, <1>6, <1>7, <1>8, <1>9 DEF CombinesSums

(* The coordinates of a vector of length m are m many. *)
LEMMA CoordinatesFinite ==
  ASSUME NEW m \in Nat
  PROVE  IsFiniteSet(1..m) /\ Cardinality(1..m) = m
<1>1. 1 \in Int /\ m \in Int
  OBVIOUS
<1>2. IsFiniteSet(1..m) /\ Cardinality(1..m) = IF 1 > m THEN 0 ELSE m - 1 + 1
  BY <1>1, FS_Interval
<1> QED BY <1>2

(* Products of integer vectors are integers, factor by factor *)
LEMMA InnerDotType ==
  ASSUME NEW S, NEW n \in [S -> Nat], NEW u, NEW v, VectorsOn(u, S, n), VectorsOn(v, S, n), NEW f \in S
  PROVE  /\ IsFiniteSet(1..n[f])
         /\ IntegersOn(Products(u, v, n, f), 1..n[f])
         /\ InnerDot(u, v, n, f) \in Int
<1>0. n[f] \in Nat
  OBVIOUS
<1>1. IsFiniteSet(1..n[f])
  BY <1>0, CoordinatesFinite
<1>2. IntegersOn(Products(u, v, n, f), 1..n[f])
  BY DEF IntegersOn, Products, VectorsOn
<1> QED BY <1>1, <1>2, SumType DEF InnerDot

(* and over all factors. *)
LEMMA DotType ==
  ASSUME NEW S, IsFiniteSet(S), NEW n \in [S -> Nat], NEW u, NEW v,
         VectorsOn(u, S, n), VectorsOn(v, S, n)
  PROVE  /\ IntegersOn([f \in S |-> InnerDot(u, v, n, f)], S)
         /\ Dot(u, v, S, n) \in Int
<1>1. IntegersOn([f \in S |-> InnerDot(u, v, n, f)], S)
  BY InnerDotType DEF IntegersOn
<1> QED BY <1>1, SumType DEF Dot

(* A square is not negative, *)
LEMMA SquareIsNatural ==
  ASSUME NEW x \in Int
  PROVE  x * x \in Nat
<1>1. CASE x >= 0
  BY <1>1
<1>2. CASE x <= 0
  <2>1. x * x = (-x) * (-x) /\ -x \in Nat
    BY <1>2
  <2> QED BY <2>1
<1> QED BY <1>1, <1>2

(* so neither is a norm. *)
LEMMA NormIsNatural ==
  ASSUME NEW S, IsFiniteSet(S), NEW n \in [S -> Nat], NEW u, VectorsOn(u, S, n)
  PROVE  /\ \A f \in S : InnerDot(u, u, n, f) \in Nat
         /\ Dot(u, u, S, n) \in Nat
<1>1. ASSUME NEW f \in S PROVE InnerDot(u, u, n, f) \in Nat
  <2>1. \A c \in 1..n[f] : Products(u, u, n, f)[c] \in Nat
    BY SquareIsNatural DEF Products, VectorsOn
  <2> QED BY <2>1, InnerDotType, SumNatural DEF InnerDot
<1> DEFINE inner == [f \in S |-> InnerDot(u, u, n, f)]
<1>2. \A f \in S : inner[f] \in Nat
  BY <1>1
<1>3. SumFunctionOnSet(inner, S) \in Nat
  <2> HIDE DEF inner
  <2> QED BY <1>2, SumNatural
<1> QED BY <1>1, <1>3 DEF Dot

IsCombination(w, p, u, q, v, S, n) ==
  \A f \in S : \A c \in 1..n[f] : w[f][c] = p * u[f][c] + q * v[f][c]

QuadraticForm(U, V, D, p, q) == (p * p) * U + ((q * q) * V + (2 * p * q) * D)

(* The norm of a combination of two vectors. *)
LEMMA NormOfCombination ==
  ASSUME NEW S, IsFiniteSet(S), NEW n \in [S -> Nat], NEW u, NEW v, NEW w,
         VectorsOn(u, S, n), VectorsOn(v, S, n), NEW p \in Int, NEW q \in Int,
         IsCombination(w, p, u, q, v, S, n)
  PROVE  Dot(w, w, S, n) = QuadraticForm(Dot(u, u, S, n), Dot(v, v, S, n), Dot(u, v, S, n), p, q)
<1> USE DEF IsCombination, QuadraticForm
<1>1. ASSUME NEW f \in S
      PROVE  InnerDot(w, w, n, f) = (p * p) * InnerDot(u, u, n, f)
                + ((q * q) * InnerDot(v, v, n, f) + (2 * p * q) * InnerDot(u, v, n, f))
  <2> DEFINE uu == Products(u, u, n, f)
             vv == Products(v, v, n, f)
             uv == Products(u, v, n, f)
             ww == Products(w, w, n, f)
  <2>1. ASSUME NEW c \in 1..n[f]
        PROVE  ww[c] = (p * p) * uu[c] + ((q * q) * vv[c] + (2 * p * q) * uv[c])
    <3> DEFINE x == u[f][c]  y == v[f][c]
    <3>1. x \in Int /\ y \in Int /\ w[f][c] = p * x + q * y
      BY DEF VectorsOn
    <3>2. uu[c] = x * x /\ vv[c] = y * y /\ uv[c] = x * y /\ ww[c] = (p * x + q * y) * (p * x + q * y)
      BY <3>1 DEF Products
    <3> HIDE DEF x, y, uu, vv, uv, ww
    <3>3. (p * x + q * y) * (p * x + q * y)
            = (p * p) * (x * x) + ((q * q) * (y * y) + (2 * p * q) * (x * y))
      BY <3>1
    <3> QED BY <3>2, <3>3
  <2>2. /\ IsFiniteSet(1..n[f]) /\ IntegersOn(uu, 1..n[f])
        /\ IntegersOn(vv, 1..n[f]) /\ IntegersOn(uv, 1..n[f])
    BY InnerDotType
  <2>3. p * p \in Int /\ q * q \in Int /\ 2 * p * q \in Int
    OBVIOUS
  <2>4. SumFunctionOnSet(ww, 1..n[f]) = (p * p) * SumFunctionOnSet(uu, 1..n[f])
                + ((q * q) * SumFunctionOnSet(vv, 1..n[f]) + (2 * p * q) * SumFunctionOnSet(uv, 1..n[f]))
    <3> DEFINE pp == p * p  qq == q * q  pq == 2 * p * q  C == 1..n[f]
    <3>1. pp \in Int /\ qq \in Int /\ pq \in Int
      BY <2>3
    <3>2. Combines(ww, uu, vv, uv, pp, qq, pq, C)
      BY <2>1 DEF Combines
    <3>3. IsFiniteSet(C) /\ IntegersOn(uu, C) /\ IntegersOn(vv, C) /\ IntegersOn(uv, C)
      BY <2>2
    <3>4. CombinesSums(ww, uu, vv, uv, pp, qq, pq, C)
      <4> HIDE DEF ww, uu, vv, uv, pp, qq, pq, C
      <4> QED BY <3>1, <3>2, <3>3, SumOfThree
    <3> QED BY <3>4 DEF CombinesSums
  <2> QED BY <2>4 DEF InnerDot
<1> DEFINE U == [f \in S |-> InnerDot(u, u, n, f)]
           V == [f \in S |-> InnerDot(v, v, n, f)]
           D == [f \in S |-> InnerDot(u, v, n, f)]
           W == [f \in S |-> InnerDot(w, w, n, f)]
           pp == p * p  qq == q * q  pq == 2 * p * q
<1>2. pp \in Int /\ qq \in Int /\ pq \in Int
  OBVIOUS
<1>3. Combines(W, U, V, D, pp, qq, pq, S)
  BY <1>1 DEF Combines
<1>4. IntegersOn(U, S) /\ IntegersOn(V, S) /\ IntegersOn(D, S)
  BY DotType
<1>5. CombinesSums(W, U, V, D, pp, qq, pq, S)
  <2> HIDE DEF U, V, D, W, pp, qq, pq
  <2> QED BY <1>2, <1>3, <1>4, SumOfThree
<1> QED BY <1>5 DEF CombinesSums, Dot

(* The arithmetic of the triangle inequality, without roots. *)
LEMMA TriangleArithmetic ==
  ASSUME NEW U \in Nat, NEW V \in Nat, NEW D \in Int, NEW a \in Nat, NEW b \in Nat,
         U <= a * a, V <= b * b,
         \A p, q \in Int : QuadraticForm(U, V, D, p, q) >= 0
  PROVE  U + (V + 2 * D) <= (a + b) * (a + b)
<1>1. D <= a * b
  <2>1. CASE a = 0
    <3>1. U = 0
      BY <2>1
    <3>2. -(V + 1) \in Int /\ 1 \in Int
      OBVIOUS
    <3>3. QuadraticForm(U, V, D, -(V + 1), 1) >= 0
      BY <3>2
    <3>5. V - 2 * ((V + 1) * D) >= 0
      BY <3>1, <3>3 DEF QuadraticForm
    <3>4. CASE D >= 1
      <4>1. (V + 1) * D >= V + 1
        BY <3>4
      <4> QED BY <4>1, <3>5
    <3> QED BY <3>4, <2>1
  <2>2. CASE b = 0
    <3>1. V = 0
      BY <2>2
    <3>2. -(U + 1) \in Int /\ 1 \in Int
      OBVIOUS
    <3>3. QuadraticForm(U, V, D, 1, -(U + 1)) >= 0
      BY <3>2
    <3>5. U - 2 * ((U + 1) * D) >= 0
      BY <3>1, <3>3 DEF QuadraticForm
    <3>4. CASE D >= 1
      <4>1. (U + 1) * D >= U + 1
        BY <3>4
      <4> QED BY <4>1, <3>5
    <3> QED BY <3>4, <2>2
  <2>3. CASE a > 0 /\ b > 0
    <3>a. b \in Int /\ -a \in Int
      OBVIOUS
    <3>b. QuadraticForm(U, V, D, b, -a) >= 0
      BY <3>a
    <3>1. (b * b) * U + (((-a) * (-a)) * V + (2 * b * (-a)) * D) >= 0
      BY <3>b DEF QuadraticForm
    <3>2. (b * b) * U <= (b * b) * (a * a) /\ (a * a) * V <= (a * a) * (b * b)
      <4>1. b * b \in Nat /\ a * a \in Nat
        OBVIOUS
      <4>2. \A x, y, z \in Nat : x <= y => z * x <= z * y
        OBVIOUS
      <4> QED BY <4>1, <4>2
    <3> DEFINE m == a * b
    <3>3. m \in Nat /\ m > 0
      BY <2>3
    <3>4. (2 * b * (-a)) * D = -(2 * (m * D)) /\ (b * b) * (a * a) = m * m /\ (a * a) * (b * b) = m * m
          /\ ((-a) * (-a)) * V = (a * a) * V
      OBVIOUS
    <3>5. m * D \in Int /\ m * m \in Int /\ (b * b) * U \in Int /\ (a * a) * V \in Int
      BY <3>3
    <3>6. 2 * (m * D) <= 2 * (m * m)
      <4> HIDE DEF m
      <4> QED BY <3>1, <3>2, <3>4, <3>5
    <3>7. D <= m
      <4> SUFFICES ASSUME D >= m + 1 PROVE FALSE
        BY <3>3
      <4> HIDE DEF m
      <4>1. m * D >= m * (m + 1)
        BY <3>3
      <4> QED BY <4>1, <3>3, <3>6
    <3> QED BY <3>7
  <2> QED BY <2>1, <2>2, <2>3
<1>2. (a + b) * (a + b) = a * a + (b * b + 2 * (a * b))
  OBVIOUS
<1>3. a * a \in Nat /\ b * b \in Nat /\ a * b \in Nat
  OBVIOUS
<1> QED BY <1>1, <1>2, <1>3

(* The triangle inequality. *)
LEMMA Triangle ==
  ASSUME NEW S, IsFiniteSet(S), NEW n \in [S -> Nat], NEW u, NEW v, NEW w,
         VectorsOn(u, S, n), VectorsOn(v, S, n),
         \A f \in S : \A c \in 1..n[f] : w[f][c] = u[f][c] + v[f][c],
         NEW a \in Nat, NEW b \in Nat,
         Dot(u, u, S, n) <= a * a, Dot(v, v, S, n) <= b * b
  PROVE  Dot(w, w, S, n) <= (a + b) * (a + b)
<1> DEFINE U == Dot(u, u, S, n)  V == Dot(v, v, S, n)  D == Dot(u, v, S, n)
<1>1. U \in Nat /\ V \in Nat /\ D \in Int
  BY NormIsNatural, DotType
<1>2. ASSUME NEW p \in Int, NEW q \in Int
      PROVE  QuadraticForm(U, V, D, p, q) >= 0
  <2> DEFINE x == [f \in S |-> [c \in 1..n[f] |-> p * u[f][c] + q * v[f][c]]]
  <2>1. VectorsOn(x, S, n) /\ IsCombination(x, p, u, q, v, S, n)
    BY DEF VectorsOn, IsCombination
  <2>2. Dot(x, x, S, n) = QuadraticForm(U, V, D, p, q)
    <3> HIDE DEF x
    <3> QED BY <2>1, NormOfCombination
  <2>3. Dot(x, x, S, n) \in Nat
    <3> HIDE DEF x
    <3> QED BY <2>1, NormIsNatural
  <2> QED BY <2>2, <2>3
<1>3. Dot(w, w, S, n) = U + (V + 2 * D)
  <2>1. IsCombination(w, 1, u, 1, v, S, n)
    BY DEF VectorsOn, IsCombination
  <2>2. Dot(w, w, S, n) = QuadraticForm(U, V, D, 1, 1)
    <3>1. 1 \in Int
      OBVIOUS
    <3> QED BY <2>1, <3>1, NormOfCombination
  <2> HIDE DEF U, V, D
  <2> QED BY <2>2, <1>1 DEF QuadraticForm
<1> HIDE DEF U, V, D
<1> QED BY <1>1, <1>2, <1>3, TriangleArithmetic DEF U, V

IsMultiple(w, p, u, S, n) == \A f \in S : \A c \in 1..n[f] : w[f][c] = p * u[f][c]

(* The norm of a multiple of a vector. *)
LEMMA NormOfMultiple ==
  ASSUME NEW S, IsFiniteSet(S), NEW n \in [S -> Nat], NEW u, NEW w, VectorsOn(u, S, n), NEW p \in Int,
         IsMultiple(w, p, u, S, n)
  PROVE  Dot(w, w, S, n) = (p * p) * Dot(u, u, S, n)
<1>1. IsCombination(w, p, u, 0, u, S, n)
  <2>1. ASSUME NEW f \in S, NEW c \in 1..n[f] PROVE w[f][c] = p * u[f][c] + 0 * u[f][c]
    <3>1. u[f][c] \in Int
      BY DEF VectorsOn
    <3>2. p * u[f][c] \in Int
      BY <3>1
    <3>3. w[f][c] = p * u[f][c]
      BY DEF IsMultiple
    <3> QED BY <3>1, <3>2, <3>3
  <2> QED BY <2>1 DEF IsCombination
<1> DEFINE U == Dot(u, u, S, n)
<1>2. U \in Int
  BY DotType
<1>3. 0 \in Int
  OBVIOUS
<1>4. Dot(w, w, S, n) = QuadraticForm(U, U, U, p, 0)
  BY <1>1, <1>3, NormOfCombination
<1> HIDE DEF U
<1>5. QuadraticForm(U, U, U, p, 0) = (p * p) * U
  <2>1. p * p \in Int /\ (p * p) * U \in Int /\ 0 * 0 = 0 /\ 2 * p * 0 = 0
    BY <1>2
  <2>2. 0 * U = 0
    BY <1>2
  <2> QED BY <2>1, <2>2 DEF QuadraticForm
<1> QED BY <1>4, <1>5 DEF U

(* Squares grow with their roots. *)
LEMMA SquareGrows ==
  ASSUME NEW y \in Nat, NEW b \in Nat, y <= b
  PROVE  y * y <= b * b
<1> DEFINE d == b - y
<1>1. d \in Nat /\ b = y + d
  OBVIOUS
<1> HIDE DEF d
<1>2. b * b = y * y + (2 * (y * d) + d * d) /\ y * d \in Nat /\ d * d \in Nat /\ y * y \in Nat
  BY <1>1
<1> QED BY <1>2

(* Coordinates of at most b / 2 each: four times the norm is at most b * b for
   each of them.                                                           *)
LEMMA NormOfSmall ==
  ASSUME NEW S, IsFiniteSet(S), NEW n \in [S -> Nat], NEW u, VectorsOn(u, S, n), NEW b \in Nat,
         \A f \in S : \A c \in 1..n[f] : 2 * u[f][c] \in -b..b
  PROVE  4 * Dot(u, u, S, n) <= (b * b) * SumFunctionOnSet(n, S)
<1>0. b * b \in Nat
  BY SquareIsNatural
<1>1. ASSUME NEW f \in S
      PROVE  4 * InnerDot(u, u, n, f) <= (b * b) * n[f]
  <2> DEFINE T == 1..n[f]
             e == Products(u, u, n, f)
             four == [c \in T |-> 4 * e[c]]
             bound == [c \in T |-> b * b]
  <2>1. IsFiniteSet(T) /\ IntegersOn(e, T) /\ Cardinality(T) = n[f] /\ n[f] \in Nat
    <3>0. n[f] \in Nat
      OBVIOUS
    <3>1. Cardinality(T) = n[f]
      BY <3>0, CoordinatesFinite
    <3> QED BY <3>1, InnerDotType
  <2>2. ASSUME NEW c \in T PROVE four[c] \in Int /\ bound[c] \in Int /\ four[c] <= bound[c]
    <3> DEFINE x == u[f][c]
    <3>1. x \in Int /\ 2 * x \in -b..b
      BY DEF VectorsOn
    <3>2. four[c] = 4 * (x * x) /\ bound[c] = b * b
      BY DEF Products
    <3> HIDE DEF x, four, bound
    <3>3. x * x \in Int /\ 4 * (x * x) = (2 * x) * (2 * x)
      BY <3>1
    <3>4. (2 * x) * (2 * x) <= b * b
      <4> DEFINE y == 2 * x
      <4>1. y \in Int /\ y <= b /\ -b <= y
        BY <3>1
      <4> HIDE DEF y
      <4>2. y * y <= b * b
        <5>1. CASE y >= 0
          <6>1. y \in Nat
            BY <4>1, <5>1
          <6> QED BY <4>1, <6>1, SquareGrows
        <5>2. CASE ~ (y >= 0)
          <6> DEFINE z == -y
          <6>1. z \in Nat /\ z <= b /\ y * y = z * z
            BY <4>1, <5>2
          <6> HIDE DEF z
          <6>2. z * z <= b * b
            BY <6>1, SquareGrows
          <6> QED BY <6>1, <6>2
        <5> QED BY <5>1, <5>2
      <4> QED BY <4>2 DEF y
    <3> QED BY <1>0, <3>2, <3>3, <3>4
  <2>3. \A c \in T : four[c] = 4 * e[c] /\ bound[c] = b * b
    OBVIOUS
  <2> HIDE DEF e, T, four, bound
  <2>4. IntegersOn(four, T) /\ IntegersOn(bound, T)
    BY <2>2 DEF IntegersOn
  <2>5. SumFunctionOnSet(four, T) = 4 * SumFunctionOnSet(e, T)
    BY <2>1, <2>3, SumTimes
  <2>6. SumFunctionOnSet(bound, T) = (b * b) * n[f]
    <3> DEFINE bb == b * b
    <3>1. bb \in Int /\ \A c \in T : bound[c] = bb
      BY <1>0, <2>3
    <3> HIDE DEF bb
    <3>2. SumFunctionOnSet(bound, T) = bb * Cardinality(T)
      BY <2>1, <3>1, SumConstant
    <3> QED BY <2>1, <3>2 DEF bb
  <2>7. SumFunctionOnSet(four, T) <= SumFunctionOnSet(bound, T)
    BY <2>1, <2>2, <2>4, SumAtMost
  <2> QED BY <2>5, <2>6, <2>7 DEF InnerDot, e, T
<1> DEFINE inner == [f \in S |-> InnerDot(u, u, n, f)]
           four == [f \in S |-> 4 * inner[f]]
           bound == [f \in S |-> (b * b) * n[f]]
<1>2. IntegersOn(inner, S) /\ IntegersOn(n, S)
  BY DotType DEF IntegersOn
<1>3. \A f \in S : four[f] = 4 * inner[f] /\ bound[f] = (b * b) * n[f] /\ four[f] <= bound[f]
  BY <1>1
<1> HIDE DEF inner, four, bound
<1>4. IntegersOn(four, S) /\ IntegersOn(bound, S)
  BY <1>0, <1>2, <1>3 DEF IntegersOn
<1>5. SumFunctionOnSet(four, S) = 4 * SumFunctionOnSet(inner, S)
  BY <1>2, <1>3, SumTimes
<1>6. SumFunctionOnSet(bound, S) = (b * b) * SumFunctionOnSet(n, S)
  BY <1>0, <1>2, <1>3, SumTimes
<1>7. SumFunctionOnSet(four, S) <= SumFunctionOnSet(bound, S)
  BY <1>3, <1>4, SumAtMost
<1> QED BY <1>5, <1>6, <1>7 DEF Dot, inner
=============================================================================
