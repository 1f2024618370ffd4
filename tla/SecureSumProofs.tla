-------------------------- MODULE SecureSumProofs ---------------------------
(***************************************************************************)
(* Theorems of SecureSum, for every cohort, ring, layout and noise, by the *)
(* induction over sets, the sums, congruences and norms of SumProofs.      *)
(***************************************************************************)
EXTENDS SecureSum, SumProofs

(* What Init draws and no step changes, and TypeOK. *)
Types ==
    /\ cohort \in SUBSET Key /\ Cardinality(cohort) >= 2
    /\ trained \in SUBSET Factor
    /\ delta \in [cohort -> Delta]
    /\ noise \in [Pairs(cohort) -> Noise]
    /\ TypeOK

Assumptions ==
    /\ OrderAssumption /\ SizeAssumption /\ RingAssumption
    /\ ShapeAssumption /\ SlackAssumption

(* The assumptions on the constants, under one name. *)
LEMMA AllAssumptions == Assumptions
BY OrderAssumption, SizeAssumption, RingAssumption, ShapeAssumption, SlackAssumption
DEF Assumptions

-----------------------------------------------------------------------------
(* The layout. *)

(* A finite set of numbers has a largest one. *)
LEMMA MaxIsLargest ==
  ASSUME NEW S, IsFiniteSet(S), S \subseteq Nat, S # {}
  PROVE  Max(S) \in S /\ \A y \in S : y <= Max(S)
<1> DEFINE G == {T \in SUBSET S : T # {} => \E x \in T : \A y \in T : x >= y}
<1>1. ASSUME NEW T \in SUBSET S, \A x \in T : T \ {x} \in G PROVE T \in G
  <2> SUFFICES ASSUME T # {} PROVE \E x \in T : \A y \in T : x >= y
    OBVIOUS
  <2>1. PICK z \in T : TRUE
    OBVIOUS
  <2>2. CASE T \ {z} = {}
    BY <2>1, <2>2
  <2>3. CASE T \ {z} # {}
    <3>1. PICK m \in T \ {z} : \A y \in T \ {z} : m >= y
      BY <1>1, <2>1, <2>3
    <3>2. m \in Nat /\ z \in Nat
      BY <2>1
    <3>3. CASE m >= z
      BY <3>1, <3>2, <3>3
    <3>4. CASE z >= m
      BY <3>1, <3>2, <3>4, <2>1
    <3> QED BY <3>2, <3>3, <3>4
  <2> QED BY <2>2, <2>3
<1>2. G = SUBSET S
  <2>1. G \in SUBSET SUBSET S
    OBVIOUS
  <2> HIDE DEF G
  <2> QED BY <1>1, <2>1, SubsetInduction
<1>3. \E x \in S : \A y \in S : x >= y
  BY <1>2
<1> QED BY <1>3 DEF Max

(* A sum of sizes is one of natural numbers over a finite set. *)
LEMMA SizesAreFinite ==
  ASSUME NEW T \in SUBSET Factor
  PROVE  IsFiniteSet(T) /\ \A f \in T : Size[f] \in Nat
BY FS_Subset, AllAssumptions DEF Assumptions, OrderAssumption, SizeAssumption

Before(T, f) == {g \in T : g < f}

(* A factor's slice lies behind those before it and inside the vector. *)
LEMMA SliceFits ==
  ASSUME NEW T \in SUBSET Factor, NEW f \in T
  PROVE  /\ Total(T) \in Nat /\ Total(Before(T, f)) \in Nat
         /\ Total(Before(T, f)) + Size[f] <= Total(T)
<1> DEFINE B == Before(T, f)
<1>0. f \in Nat
  BY AllAssumptions DEF Assumptions, OrderAssumption
<1>1. B \in SUBSET Factor /\ B \cup {f} \in SUBSET T /\ f \notin B
  <2>1. ~ (f < f)
    BY <1>0
  <2> QED BY <2>1 DEF Before
<1>2. B \cup {f} \in SUBSET Factor
  BY <1>1
<1> HIDE DEF B
<1>3. Total(T) \in Nat /\ Total(B) \in Nat
  BY <1>1, SizesAreFinite, SumNatural DEF Total
<1>4. Total(B \cup {f}) <= Total(T)
  BY <1>1, SizesAreFinite, SumOfPart DEF Total
<1>5. Total(B \cup {f}) = Size[f] + Total((B \cup {f}) \ {f})
  BY <1>2, SizesAreFinite, SumRemove DEF Total, IntegersOn
<1>6. (B \cup {f}) \ {f} = B
  BY <1>1
<1>7. Size[f] \in Nat
  BY SizesAreFinite
<1> QED BY <1>3, <1>4, <1>5, <1>6, <1>7 DEF B

(* g concatenates d over the subsets of S, the largest key last. *)
Concatenates(g, d, S) ==
  g = [T \in SUBSET S |-> IF T = {} THEN <<>> ELSE g[T \ {Max(T)}] \o d[Max(T)]]

(* What Flattened is by the definition of a fold. *)
LEMMA FlattenedIsFold ==
  ASSUME NEW k
  PROVE  Flattened(k) = (CHOOSE g : Concatenates(g, delta[k], trained))[trained]
BY DEF Flattened, MapThenFoldSet, Concatenates

(* The concatenation of finitely many factors is well defined. *)
LEMMA ConcatenationExists ==
  ASSUME NEW S \in SUBSET Factor, NEW d \in [Factor -> Seq(Int)]
  PROVE  \E g \in [SUBSET S -> Seq(Int)] : Concatenates(g, d, S)
<1> DEFINE V == Seq(Int)
           base == <<>>
           step == [f \in S |-> [v \in V |-> v \o d[f]]]
           pick == [T \in SUBSET S |-> Max(T)]
<1>1. IsFiniteSet(S)
  BY SizesAreFinite
<1>2. \A T \in SUBSET S : T # {} => Max(T) \in T
  BY <1>1, MaxIsLargest, FS_Subset, AllAssumptions DEF Assumptions, OrderAssumption
<1>3. base \in V /\ step \in [S -> [V -> V]]
  OBVIOUS
<1>4. Picks(pick, S)
  BY <1>2 DEF Picks
<1>5. PICK g \in [SUBSET S -> V] : Recursion(g, base, step, pick, S)
  <2> HIDE DEF V, base, step, pick
  <2> QED BY <1>1, <1>3, <1>4, FoldExists
<1>6. ASSUME NEW T \in SUBSET S
      PROVE  g[T] = IF T = {} THEN <<>> ELSE g[T \ {Max(T)}] \o d[Max(T)]
  <2>1. g[T] = IF T = {} THEN base ELSE step[Max(T)][g[T \ {Max(T)}]]
    BY <1>5 DEF Recursion
  <2>2. CASE T = {}
    BY <2>1, <2>2
  <2>3. CASE T # {}
    <3>1. Max(T) \in S /\ g[T \ {Max(T)}] \in V
      BY <1>2, <2>3
    <3> QED BY <2>1, <2>3, <3>1
  <2> QED BY <2>2, <2>3
<1> QED BY <1>6 DEF Concatenates

(* Where two sequences lie in their concatenation. *)
LEMMA ConcatenationAt ==
  ASSUME NEW s \in Seq(Int), NEW t \in Seq(Int)
  PROVE  /\ s \o t \in Seq(Int) /\ Len(s \o t) = Len(s) + Len(t)
         /\ \A i \in 1..Len(s) : (s \o t)[i] = s[i]
         /\ \A i \in 1..Len(t) : (s \o t)[Len(s) + i] = t[i]
OBVIOUS

(* Where a concatenation has the elements of a factor. *)
LaidOut(flat, d, T) ==
  /\ flat \in Seq(Int) /\ Len(flat) = Total(T)
  /\ \A f \in T : \A c \in 1..Size[f] : flat[Total(Before(T, f)) + c] = d[f][c]

(* Every factor of a concatenation lies behind the ones with smaller keys. *)
LEMMA ConcatenationLaysOut ==
  ASSUME NEW S \in SUBSET Factor, NEW d \in [Factor -> Seq(Int)],
         \A f \in Factor : Len(d[f]) = Size[f],
         NEW g \in [SUBSET S -> Seq(Int)], Concatenates(g, d, S)
  PROVE  LaidOut(g[S], d, S)
<1> DEFINE G == {T \in SUBSET S : LaidOut(g[T], d, T)}
<1>1. IsFiniteSet(S)
  BY SizesAreFinite
<1>2. ASSUME NEW T \in SUBSET S, \A x \in T : T \ {x} \in G PROVE LaidOut(g[T], d, T)
  <2>1. g[T] = IF T = {} THEN <<>> ELSE g[T \ {Max(T)}] \o d[Max(T)]
    BY DEF Concatenates
  <2>2. CASE T = {}
    <3>1. Total(T) = 0
      BY <2>2, SumEmpty DEF Total
    <3> QED BY <2>1, <2>2, <3>1 DEF LaidOut
  <2>3. CASE T # {}
    <3> DEFINE m == Max(T)
               U == T \ {m}
    <3>1. T \subseteq Nat /\ m \in T /\ (\A y \in T : y <= m) /\ T \in SUBSET Factor
      BY <1>1, <2>3, MaxIsLargest, FS_Subset, AllAssumptions DEF Assumptions, OrderAssumption
    <3> HIDE DEF m
    <3>2. LaidOut(g[U], d, U)
      BY <1>2, <3>1
    <3>3. g[T] = g[U] \o d[m]
      BY <2>1, <2>3 DEF m
    <3>a. \A y \in T : (y < m <=> y # m) /\ ~ (m < y)
      BY <3>1
    <3>4. Before(T, m) = U
      BY <3>a, <3>1 DEF Before
    <3>5. \A f \in U : Before(T, f) = Before(U, f)
      BY <3>a DEF Before
    <3>6. Total(T) = Size[m] + Total(U) /\ Total(U) \in Nat /\ Size[m] \in Nat
      <4>1. IsFiniteSet(T) /\ IsFiniteSet(U) /\ \A f \in T : Size[f] \in Nat
        BY <3>1, SizesAreFinite
      <4>2. Total(T) = Size[m] + Total(U)
        <5>1. IntegersOn(Size, T)
          BY <4>1 DEF IntegersOn
        <5> QED BY <5>1, <4>1, <3>1, SumRemove DEF Total
      <4>3. \A f \in U : Size[f] \in Nat
        BY <4>1
      <4>4. Total(U) \in Nat
        <5> HIDE DEF U
        <5> QED BY <4>1, <4>3, SumNatural DEF Total
      <4> QED BY <4>1, <4>2, <4>4, <3>1
    <3>7. d[m] \in Seq(Int) /\ Len(d[m]) = Size[m]
      BY <3>1
    <3>b. g[U] \in Seq(Int) /\ Len(g[U]) = Total(U)
      BY <3>2 DEF LaidOut
    <3>c. /\ g[T] \in Seq(Int) /\ Len(g[T]) = Len(g[U]) + Len(d[m])
          /\ \A i \in 1..Len(g[U]) : g[T][i] = g[U][i]
          /\ \A i \in 1..Len(d[m]) : g[T][Len(g[U]) + i] = d[m][i]
      <4> DEFINE s == g[U]
                 t == d[m]
      <4>1. s \in Seq(Int) /\ t \in Seq(Int) /\ g[T] = s \o t
        BY <3>3, <3>7, <3>b
      <4>2. /\ g[T] \in Seq(Int) /\ Len(g[T]) = Len(s) + Len(t)
            /\ \A i \in 1..Len(s) : g[T][i] = s[i]
            /\ \A i \in 1..Len(t) : g[T][Len(s) + i] = t[i]
        <5> HIDE DEF s, t
        <5> QED BY <4>1, ConcatenationAt
      <4> QED BY <4>2
    <3>8. g[T] \in Seq(Int) /\ Len(g[T]) = Total(T)
      BY <3>b, <3>c, <3>6, <3>7
    <3>9. ASSUME NEW f \in T, NEW c \in 1..Size[f]
          PROVE  g[T][Total(Before(T, f)) + c] = d[f][c]
      <4>1. CASE f = m
        <5>1. c \in 1..Len(d[m]) /\ Total(Before(T, f)) = Len(g[U])
          BY <3>b, <3>4, <3>7, <4>1
        <5> HIDE DEF U
        <5> QED BY <5>1, <3>c, <4>1
      <4>2. CASE f # m
        <5>1. f \in U /\ U \in SUBSET Factor
          BY <3>1, <4>2
        <5>2. Before(T, f) = Before(U, f) /\ g[U][Total(Before(U, f)) + c] = d[f][c]
          BY <5>1, <3>2, <3>5 DEF LaidOut
        <5>3. Total(Before(U, f)) \in Nat /\ Total(Before(U, f)) + Size[f] <= Total(U)
          BY <5>1, SliceFits
        <5>4. Size[f] \in Nat
          BY <5>1, SizesAreFinite
        <5>5. Total(Before(U, f)) + c \in 1..Len(g[U])
          <6> HIDE DEF U
          <6> DEFINE o == Total(Before(U, f))
          <6>1. o \in Nat /\ o + Size[f] <= Len(g[U]) /\ Len(g[U]) \in Nat
            BY <5>3, <3>b, <3>6
          <6> HIDE DEF o
          <6>2. o + c \in 1..Len(g[U])
            BY <6>1, <5>4
          <6> QED BY <6>2 DEF o
        <5> HIDE DEF U
        <5> QED BY <5>2, <5>5, <3>c
      <4> QED BY <4>1, <4>2
    <3> QED BY <3>8, <3>9 DEF LaidOut
  <2> QED BY <2>2, <2>3
<1>3. G = SUBSET S
  <2>1. G \in SUBSET SUBSET S
    OBVIOUS
  <2>2. \A T \in SUBSET S : (\A x \in T : T \ {x} \in G) => T \in G
    BY <1>2
  <2> HIDE DEF G
  <2> QED BY <1>1, <2>1, <2>2, SubsetInduction
<1> QED BY <1>3

(* The client's vector has the elements of a factor where the server's offsets
   say they are.                                                           *)
LEMMA OffsetsAgree ==
  ASSUME Types, NEW k \in cohort
  PROVE  /\ Flattened(k) \in Seq(Int) /\ Len(Flattened(k)) = Total(trained)
         /\ Total(trained) \in Nat
         /\ \A f \in trained : \A c \in 1..Size[f] :
                /\ Offset(f) + c \in 1..Total(trained)
                /\ Flattened(k)[Offset(f) + c] = delta[k][f][c]
<1>1. /\ trained \in SUBSET Factor
      /\ delta[k] \in [Factor -> Seq(Int)] /\ \A f \in Factor : Len(delta[k][f]) = Size[f]
  BY AllAssumptions DEF Types, Assumptions, ShapeAssumption
<1> DEFINE g == CHOOSE h : Concatenates(h, delta[k], trained)
<1>2. PICK h \in [SUBSET trained -> Seq(Int)] : Concatenates(h, delta[k], trained)
  BY <1>1, ConcatenationExists
<1>3. Concatenates(g, delta[k], trained)
  BY <1>2
<1> HIDE DEF g
<1>4. g \in [SUBSET trained -> Seq(Int)]
  <2> DEFINE G == {T \in SUBSET trained : g[T] = h[T]}
  <2>1. \A T \in SUBSET trained :
            /\ g[T] = IF T = {} THEN <<>> ELSE g[T \ {Max(T)}] \o delta[k][Max(T)]
            /\ h[T] = IF T = {} THEN <<>> ELSE h[T \ {Max(T)}] \o delta[k][Max(T)]
            /\ T # {} => Max(T) \in T
    <3>1. \A T \in SUBSET trained : T # {} => Max(T) \in T
      BY <1>1, SizesAreFinite, MaxIsLargest, AllAssumptions DEF Assumptions, OrderAssumption
    <3> QED BY <3>1, <1>2, <1>3 DEF Concatenates
  <2>2. \A T \in SUBSET trained : (\A x \in T : T \ {x} \in G) => T \in G
    BY <2>1
  <2>3. G = SUBSET trained
    <3>1. G \in SUBSET SUBSET trained /\ IsFiniteSet(trained)
      BY <1>1, SizesAreFinite
    <3> HIDE DEF G
    <3> QED BY <2>2, <3>1, SubsetInduction
  <2>4. g = [T \in SUBSET trained |-> g[T]]
    BY <1>3 DEF Concatenates
  <2> QED BY <2>3, <2>4
<1>5. LaidOut(g[trained], delta[k], trained)
  BY <1>1, <1>3, <1>4, ConcatenationLaysOut
<1>6. Flattened(k) = g[trained]
  BY FlattenedIsFold DEF g
<1>7. ASSUME NEW f \in trained, NEW c \in 1..Size[f]
      PROVE  Offset(f) = Total(Before(trained, f)) /\ Offset(f) + c \in 1..Total(trained)
  <2>1. Offset(f) = Total(Before(trained, f))
    BY DEF Offset, Before
  <2>2. Size[f] \in Nat
    BY <1>1, SizesAreFinite
  <2> QED BY <1>1, <2>1, <2>2, SliceFits
<1>8. Total(trained) \in Nat
  BY <1>1, SizesAreFinite, SumNatural DEF Total
<1> QED BY <1>5, <1>6, <1>7, <1>8 DEF LaidOut

-----------------------------------------------------------------------------
(* What a member uploads. *)

(* Half the ring and half the word are whole, and the ring divides the word. *)
LEMMA RingIsEven ==
  /\ R \in Nat \ {0} /\ Half \in Nat /\ R = 2 * Half
  /\ Width \in Nat /\ Width \div 2 \in Nat /\ Width = 2 * (Width \div 2)
  /\ R <= Width \div 2
  /\ \E m \in Nat : Width = m * R
<1>1. R \in Nat \ {0} /\ R % 2 = 0 /\ Width \in Nat /\ Width % R = 0 /\ Width >= 2 * R
  BY AllAssumptions DEF Assumptions, RingAssumption
<1>2. Half \in Nat /\ R = 2 * Half
  BY <1>1 DEF Half
<1>3. Width \div R \in Nat /\ Width = (Width \div R) * R
  BY <1>1
<1> DEFINE m == Width \div R
<1>4. Width = 2 * (m * Half) /\ m * Half \in Nat
  <2> HIDE DEF m
  <2> QED BY <1>2, <1>3 DEF m
<1>5. Width \div 2 \in Nat /\ Width = 2 * (Width \div 2)
  <2> DEFINE h == m * Half
  <2>1. h \in Nat /\ Width = 2 * h
    BY <1>4
  <2> HIDE DEF h
  <2> QED BY <2>1
<1> QED BY <1>1, <1>2, <1>3, <1>5

(* Rounding is off by half a quantum at most. *)
LEMMA RoundedIsClose ==
  ASSUME NEW x \in Int
  PROVE  Rounded(x) \in Int /\ 2 * Fine * Rounded(x) - 2 * x \in -Fine..Fine
<1>1. Fine \in Nat \ {0}
  BY AllAssumptions DEF Assumptions, SizeAssumption
<1> DEFINE below == x \div Fine
           rest == x % Fine
<1>2. below \in Int /\ rest \in 0..(Fine - 1) /\ x = Fine * below + rest
  BY <1>1
<1>3. \/ Rounded(x) = below /\ 2 * rest <= Fine
      \/ Rounded(x) = below + 1 /\ 2 * rest >= Fine
  BY <1>1, <1>2 DEF Rounded
<1> HIDE DEF below, rest
<1>4. CASE Rounded(x) = below /\ 2 * rest <= Fine
  <2>1. 2 * Fine * Rounded(x) = 2 * (Fine * below) /\ Fine * below \in Int
    BY <1>1, <1>2, <1>4
  <2> QED BY <1>1, <1>2, <1>4, <2>1
<1>5. CASE Rounded(x) = below + 1 /\ 2 * rest >= Fine
  <2>1. 2 * Fine * Rounded(x) = 2 * (Fine * below) + 2 * Fine /\ Fine * below \in Int
    BY <1>1, <1>2, <1>5
  <2> QED BY <1>1, <1>2, <1>5, <2>1
<1> QED BY <1>3, <1>4, <1>5

(* A cohort and its parts are finite sets of numbers. *)
LEMMA CohortIsFinite ==
  ASSUME Types
  PROVE  /\ IsFiniteSet(cohort) /\ cohort \subseteq Nat /\ Cardinality(cohort) \in Nat
         /\ \A T \in SUBSET cohort : IsFiniteSet(T)
         /\ Cardinality(cohort) <= Cardinality(Key) /\ Cardinality(Key) \in Nat
<1>1. IsFiniteSet(Key) /\ Key \subseteq Nat /\ cohort \in SUBSET Key
  BY AllAssumptions DEF Assumptions, OrderAssumption, Types
<1> QED BY <1>1, FS_Subset, FS_CardinalityType

(* What the noise of each pair adds to one coordinate of member k. *)
Share(k, c, eps) == [peer \in cohort \ {k} |-> Sign(k, peer) * eps[{k, peer}][c]]

(* The fold that Masked is. *)
MaskFold(g, k, c, eps) ==
  g = [T \in SUBSET (cohort \ {k}) |->
          IF T = {} THEN Quantized(k)[c]
          ELSE (g[T \ {Some(T)}] + Sign(k, Some(T)) * eps[{k, Some(T)}][c]) % R]

(* What Masked is by the definition of a fold. *)
LEMMA MaskedIsFold ==
  ASSUME NEW k, NEW c, NEW eps
  PROVE  Masked(k, c, eps) = (CHOOSE g : MaskFold(g, k, c, eps))[cohort \ {k}]
BY DEF Masked, FoldSet, MapThenFoldSet, MaskFold, Some

(* An upload is congruent to the rounded coordinate and the shares of the noise. *)
LEMMA MaskedIsSum ==
  ASSUME Types, NEW k \in cohort, NEW c \in 1..Total(trained), NEW eps,
         IntegersOn(Share(k, c, eps), cohort \ {k})
  PROVE  /\ Masked(k, c, eps) \in Int
         /\ Rounded(Flattened(k)[c]) \in Int
         /\ Congruent(Masked(k, c, eps), Rounded(Flattened(k)[c])
                          + SumFunctionOnSet(Share(k, c, eps), cohort \ {k}), R)
<1> DEFINE S == cohort \ {k}
           e == Share(k, c, eps)
           q == Rounded(Flattened(k)[c])
           b == Quantized(k)[c]
           g == CHOOSE g : MaskFold(g, k, c, eps)
<1>1. IsFiniteSet(S) /\ R \in Nat \ {0} /\ R \in Int
  BY CohortIsFinite, RingIsEven
<1>2. q \in Int
  <2>1. Flattened(k)[c] \in Int
    BY OffsetsAgree
  <2> QED BY <2>1, RoundedIsClose
<1>3. b = q % R
  <2>1. c \in DOMAIN Flattened(k)
    BY OffsetsAgree
  <2> QED BY <2>1 DEF Quantized
<1>4. b \in Int /\ Congruent(b, q, R)
  <2> HIDE DEF b, q
  <2> QED BY <1>1, <1>2, <1>3, Remainder
<1>5. ASSUME NEW h PROVE MaskFold(h, k, c, eps) <=> AddsModulo(h, b, e, R, S)
  <2>1. \A T \in SUBSET S : T # {} => e[Some(T)] = Sign(k, Some(T)) * eps[{k, Some(T)}][c]
    BY DEF Some, Share
  <2> DEFINE mask(T) == IF T = {} THEN b ELSE (h[T \ {Some(T)}] + Sign(k, Some(T)) * eps[{k, Some(T)}][c]) % R
             adds(T) == IF T = {} THEN b ELSE (h[T \ {Some(T)}] + e[Some(T)]) % R
  <2>2. \A T \in SUBSET S : mask(T) = adds(T)
    <3> HIDE DEF b, e
    <3> QED BY <2>1
  <2>3. [T \in SUBSET S |-> mask(T)] = [T \in SUBSET S |-> adds(T)]
    <3> HIDE DEF mask, adds, S
    <3> QED BY <2>2
  <2> QED BY <2>3 DEF MaskFold, AddsModulo
<1>6. AddsModulo(g, b, e, R, S)
  <2>1. \E h : AddsModulo(h, b, e, R, S)
    <3> HIDE DEF b, e, S
    <3> QED BY <1>1, <1>4, AddsModuloExists DEF e, S
  <2>2. MaskFold(g, k, c, eps)
    BY <2>1, <1>5
  <2> QED BY <2>2, <1>5
<1>7. Masked(k, c, eps) = g[S]
  BY MaskedIsFold
<1> DEFINE sum == SumFunctionOnSet(e, S)
<1>8. g[S] \in Int /\ sum \in Int /\ Congruent(g[S], b + sum, R)
  <2>1. IntegersOn(e, S)
    OBVIOUS
  <2> HIDE DEF b, e, S, g
  <2> QED BY <2>1, <1>1, <1>4, <1>6, AddsModuloSum, SumType
<1>9. Congruent(g[S], q + sum, R)
  <2> HIDE DEF b, e, S, g, sum, q
  <2>1. Congruent(b + sum, q + sum, R)
    BY <1>1, <1>2, <1>4, <1>8, CongruentSame, CongruentPlus
  <2>2. b + sum \in Int /\ q + sum \in Int
    BY <1>2, <1>4, <1>8
  <2> QED BY <2>1, <2>2, <1>1, <1>8, CongruentChain
<1> QED BY <1>2, <1>7, <1>8, <1>9

-----------------------------------------------------------------------------
(* Over the whole cohort the masks cancel. *)

MaskedOf(c) == [k \in cohort |-> Masked(k, c, noise)]

QuantaOf(c) == [k \in cohort |-> Rounded(Flattened(k)[c])]

(* A pair of the cohort has noise for every coordinate. *)
LEMMA NoiseOfPair ==
  ASSUME Types, NEW x \in cohort, NEW y \in cohort, x # y
  PROVE  /\ {x, y} \in Pairs(cohort) /\ noise[{x, y}] \in [1..Total(Factor) -> Int]
         /\ Total(trained) <= Total(Factor)
         /\ \A c \in 1..Total(trained) : noise[{x, y}][c] \in Int
<1>1. Cardinality({x, y}) = 2
  <2>1. Cardinality({x} \cup {y}) = Cardinality({x}) + 1
    BY FS_AddElement, FS_Singleton
  <2>2. {x} \cup {y} = {x, y} /\ Cardinality({x}) = 1
    BY FS_Singleton
  <2> QED BY <2>1, <2>2
<1>2. {x, y} \in Pairs(cohort)
  BY <1>1 DEF Pairs
<1>3. noise[{x, y}] \in [1..Total(Factor) -> Int]
  BY <1>2, AllAssumptions DEF Types, Assumptions, ShapeAssumption
<1>4. Total(trained) <= Total(Factor) /\ Total(Factor) \in Nat /\ Total(trained) \in Nat
  <2>1. trained \in SUBSET Factor
    BY DEF Types
  <2> QED BY <2>1, SizesAreFinite, SumOfPart, SumNatural DEF Total
<1>5. ASSUME NEW c \in 1..Total(trained) PROVE noise[{x, y}][c] \in Int
  <2>1. c \in 1..Total(Factor)
    BY <1>4
  <2> QED BY <2>1, <1>3
<1> QED BY <1>2, <1>3, <1>4, <1>5

(* A share of the noise is a number. *)
LEMMA SharesAreIntegers ==
  ASSUME Types, NEW k \in cohort, NEW c \in 1..Total(trained)
  PROVE  IntegersOn(Share(k, c, noise), cohort \ {k})
<1> SUFFICES ASSUME NEW peer \in cohort \ {k} PROVE Share(k, c, noise)[peer] \in Int
  BY DEF IntegersOn
<1>1. noise[{k, peer}][c] \in Int
  BY NoiseOfPair
<1>2. Sign(k, peer) \in Int
  BY DEF Sign
<1>3. Sign(k, peer) * noise[{k, peer}][c] \in Int
  BY <1>1, <1>2
<1> QED BY <1>3 DEF Share

(* What one member of a pair adds the other takes away. *)
LEMMA SharesCancel ==
  ASSUME Types, NEW c \in 1..Total(trained), NEW row,
         \A k \in cohort : row[k] = SumFunctionOnSet(Share(k, c, noise), cohort \ {k})
  PROVE  SumFunctionOnSet(row, cohort) = 0
<1> DEFINE a == [x \in cohort |-> [y \in cohort |-> IF x = y THEN 0 ELSE Sign(x, y) * noise[{x, y}][c]]]
<1>1. ASSUME NEW x \in cohort, NEW y \in cohort
      PROVE  a[x][y] \in Int /\ a[x][y] = -a[y][x]
  <2>1. CASE x = y
    <3>1. a[x][y] = 0 /\ a[y][x] = 0
      BY <2>1
    <3> HIDE DEF a
    <3>2. a[x][y] \in Int
      BY <3>1
    <3>3. a[x][y] = -a[y][x]
      <4>1. \A s, t \in Int : s + t = 0 => s = -t
        OBVIOUS
      <4>2. a[y][x] \in Int /\ a[x][y] + a[y][x] = 0
        BY <3>1
      <4> QED BY <3>2, <4>1, <4>2
    <3> QED BY <3>2, <3>3
  <2>2. CASE x # y
    <3>1. x \in Nat /\ y \in Nat
      BY CohortIsFinite
    <3>2. {x, y} = {y, x} /\ noise[{x, y}][c] \in Int
      BY <2>2, NoiseOfPair
    <3>3. Sign(x, y) \in Int /\ Sign(x, y) = -Sign(y, x)
      BY <2>2, <3>1 DEF Sign
    <3>4. a[x][y] = Sign(x, y) * noise[{x, y}][c] /\ a[y][x] = Sign(y, x) * noise[{x, y}][c]
      BY <2>2, <3>2
    <3> DEFINE s == Sign(x, y)
               t == Sign(y, x)
               e == noise[{x, y}][c]
    <3>5. s \in Int /\ t \in Int /\ s = -t /\ e \in Int /\ a[x][y] = s * e /\ a[y][x] = t * e
      BY <3>2, <3>3, <3>4 DEF Sign
    <3> HIDE DEF a, s, t, e
    <3>6. s * e \in Int /\ s * e = -(t * e)
      BY <3>5
    <3> QED BY <3>5, <3>6
  <2> QED BY <2>1, <2>2
<1>2. ASSUME NEW k \in cohort PROVE row[k] = SumFunctionOnSet(a[k], cohort)
  <2> DEFINE S == cohort \ {k}
             e == Share(k, c, noise)
             ak == a[k]
  <2>1. IsFiniteSet(cohort) /\ IsFiniteSet(S) /\ IntegersOn(e, S)
    BY CohortIsFinite, SharesAreIntegers
  <2>2. IntegersOn(ak, cohort)
    BY <1>1 DEF IntegersOn
  <2>3. \A y \in S : ak[y] = e[y]
    BY DEF Share
  <2>4. ak[k] = 0
    OBVIOUS
  <2> HIDE DEF a, ak, e
  <2>5. SumFunctionOnSet(ak, cohort) = ak[k] + SumFunctionOnSet(ak, S)
    BY <2>1, <2>2, SumRemove
  <2> HIDE DEF S
  <2>6. SumFunctionOnSet(ak, S) = SumFunctionOnSet(e, S)
    BY <2>1, <2>3, SumEqual
  <2>7. SumFunctionOnSet(e, S) \in Int /\ row[k] = SumFunctionOnSet(e, S)
    BY <2>1, SumType DEF e, S
  <2> QED BY <2>4, <2>5, <2>6, <2>7 DEF ak
<1> HIDE DEF a
<1> QED BY <1>1, <1>2, CohortIsFinite, PairsCancel

(* The uploads of the whole cohort add up to the rounded coordinates, in the ring. *)
LEMMA MasksVanish ==
  ASSUME Types, NEW c \in 1..Total(trained)
  PROVE  /\ IntegersOn(MaskedOf(c), cohort)
         /\ IntegersOn(QuantaOf(c), cohort)
         /\ Congruent(SumFunctionOnSet(MaskedOf(c), cohort), SumFunctionOnSet(QuantaOf(c), cohort), R)
<1> DEFINE row == [k \in cohort |-> SumFunctionOnSet(Share(k, c, noise), cohort \ {k})]
           with == [k \in cohort |-> QuantaOf(c)[k] + row[k]]
           masked == MaskedOf(c)
           quanta == QuantaOf(c)
<1>1. ASSUME NEW k \in cohort
      PROVE  /\ masked[k] \in Int /\ quanta[k] \in Int /\ row[k] \in Int
             /\ Congruent(masked[k], with[k], R)
  <2>1. IntegersOn(Share(k, c, noise), cohort \ {k})
    BY SharesAreIntegers
  <2>2. row[k] \in Int
    BY <2>1, CohortIsFinite, SumType
  <2>3. quanta[k] = Rounded(Flattened(k)[c]) /\ masked[k] = Masked(k, c, noise)
    BY DEF QuantaOf, MaskedOf
  <2>4. with[k] = quanta[k] + row[k]
    OBVIOUS
  <2> QED BY <2>1, <2>2, <2>3, <2>4, MaskedIsSum
<1>2. /\ IntegersOn(masked, cohort) /\ IntegersOn(quanta, cohort) /\ IntegersOn(row, cohort)
      /\ IntegersOn(with, cohort)
  <2>1. \A k \in cohort : with[k] = quanta[k] + row[k]
    OBVIOUS
  <2>2. \A k \in cohort : with[k] \in Int
    <3> HIDE DEF row, with, masked, quanta
    <3> QED BY <1>1, <2>1
  <2> HIDE DEF row, with, masked, quanta
  <2> QED BY <1>1, <2>2 DEF IntegersOn
<1>3. /\ \A k \in cohort : with[k] = quanta[k] + row[k]
      /\ \A k \in cohort : row[k] = SumFunctionOnSet(Share(k, c, noise), cohort \ {k})
      /\ \A k \in cohort : Congruent(masked[k], with[k], R)
  BY <1>1
<1>4. IsFiniteSet(cohort) /\ R \in Int
  BY CohortIsFinite, RingIsEven
<1> HIDE DEF row, with, masked, quanta
<1>5. SumFunctionOnSet(row, cohort) = 0
  BY <1>3, SharesCancel
<1>6. SumFunctionOnSet(with, cohort) = SumFunctionOnSet(quanta, cohort) + SumFunctionOnSet(row, cohort)
  BY <1>2, <1>3, <1>4, SumPlus
<1>7. Congruent(SumFunctionOnSet(masked, cohort), SumFunctionOnSet(with, cohort), R)
  BY <1>2, <1>3, <1>4, CongruentSum
<1>8. SumFunctionOnSet(quanta, cohort) \in Int
  BY <1>2, <1>4, SumType
<1> QED BY <1>2, <1>5, <1>6, <1>7, <1>8 DEF masked, quanta

-----------------------------------------------------------------------------
(* The server's loop. *)

Word == -(Width \div 2)..(Width \div 2 - 1)

(* Wrapping to 64 bits keeps the residue, *)
LEMMA WrappedIs ==
  ASSUME NEW x \in Int
  PROVE  Wrapped(x) \in Word /\ Congruent(Wrapped(x), x, R)
<1> DEFINE h == Width \div 2
           y == x + h
<1>1. h \in Nat /\ Width \in Nat \ {0} /\ R \in Nat \ {0} /\ Width = 2 * h
  BY RingIsEven
<1>2. PICK m \in Nat : Width = m * R
  BY RingIsEven
<1> HIDE DEF h
<1>3. y \in Int /\ y % Width \in 0..(Width - 1) /\ Congruent(y % Width, y, Width)
  BY <1>1, Remainder
<1>4. PICK q \in Int : y % Width = y + q * Width
  BY <1>3 DEF Congruent
<1>5. q * Width = (q * m) * R /\ q * m \in Int /\ (q * m) * R \in Int
  BY <1>1, <1>2
<1>6. Wrapped(x) = (y % Width) - h
  BY DEF Wrapped, h
<1>7. Wrapped(x) = x + (q * m) * R
  BY <1>1, <1>3, <1>4, <1>5, <1>6
<1>8. Wrapped(x) \in Word
  BY <1>1, <1>3, <1>6 DEF Word, h
<1> QED BY <1>5, <1>7, <1>8 DEF Congruent

(* so does any representative a slot may hold, *)
LEMMA RepresentativeIs ==
  ASSUME NEW x \in Int, NEW turns \in Int
  PROVE  Representative(x, turns) \in Word /\ Congruent(Representative(x, turns), x, R)
<1> DEFINE y == x + turns * R
<1>1. R \in Nat \ {0} /\ y \in Int /\ Congruent(y, x, R)
  BY RingIsEven DEF Congruent
<1> HIDE DEF y
<1>2. Wrapped(y) \in Word /\ Congruent(Wrapped(y), y, R) /\ Wrapped(y) \in Int
  BY <1>1, WrappedIs, RingIsEven DEF Word
<1> QED BY <1>1, <1>2, CongruentChain DEF Representative, y

(* and adding one slot is addition in the ring. *)
LEMMA AddedIs ==
  ASSUME NEW a \in Int, NEW s \in Int
  PROVE  Added(a, s) \in Word /\ Congruent(Added(a, s), a + s, R)
<1> DEFINE y == a + s
           w == Wrapped(y)
<1>1. R \in Nat \ {0} /\ y \in Int
  BY RingIsEven
<1> HIDE DEF y
<1>2. w \in Int /\ Congruent(w, y, R)
  BY <1>1, WrappedIs, RingIsEven DEF Word
<1> HIDE DEF w
<1>3. w % R \in 0..(R - 1) /\ w % R \in Int /\ Congruent(w % R, w, R)
  BY <1>1, <1>2, Remainder
<1>4. w % R \in Word
  BY <1>3, RingIsEven DEF Word
<1>5. Congruent(w % R, y, R)
  BY <1>1, <1>2, <1>3, CongruentChain
<1> QED BY <1>4, <1>5 DEF Added, w, y

(* What has been read so far: congruent to the sum of those members' uploads. *)
SlotsInv ==
    /\ left = cohort => acc = <<>>
    /\ left # cohort => \A c \in 1..Total(trained) :
            Congruent(acc[c], SumFunctionOnSet(MaskedOf(c), cohort \ left), R)

IInv == Types /\ SlotsInv

(* The inductive invariant holds at first. *)
LEMMA InitHolds == Init => IInv
<1> SUFFICES ASSUME Init PROVE IInv
  OBVIOUS
<1>1. Types
  BY DEF Init, Types, TypeOK
<1> QED BY <1>1 DEF Init, IInv, SlotsInv

(* No step changes what the members upload. *)
LEMMA MaskedIsFixed ==
  ASSUME UNCHANGED <<cohort, trained, delta, noise>>
  PROVE  \A c : MaskedOf(c)' = MaskedOf(c)
BY DEF MaskedOf, Masked, FoldSet, Quantized, Flattened, MapThenFoldSet

(* Reading one slot keeps the inductive invariant. *)
LEMMA ReadSlotStep ==
  ASSUME IInv, NEW k \in Key, NEW turns \in Turns, ReadSlot(k, turns)
  PROVE  IInv'
<1> DEFINE n == Total(trained)
           slot == [c \in 1..n |-> Representative(Masked(k, c, noise), turns)]
<1>1. /\ k \in left /\ left' = left \ {k}
      /\ UNCHANGED <<cohort, trained, delta, noise>>
      /\ acc' = IF acc = <<>> THEN slot ELSE [c \in DOMAIN acc |-> Added(acc[c], slot[c])]
  BY DEF ReadSlot
<1>2. /\ k \in cohort /\ left \subseteq cohort /\ left' # cohort /\ n \in Nat
      /\ cohort \ left' = (cohort \ left) \cup {k} /\ k \notin cohort \ left
  <2>1. left \subseteq cohort
    BY DEF IInv, Types, TypeOK
  <2>2. n \in Nat
    <3>1. trained \in SUBSET Factor
      BY DEF IInv, Types
    <3> QED BY <3>1, SizesAreFinite, SumNatural DEF Total
  <2> QED BY <2>1, <2>2, <1>1
<1>3. turns \in Int
  BY RingIsEven DEF Turns
<1>4. ASSUME NEW c \in 1..n
      PROVE  /\ Masked(k, c, noise) \in Int
             /\ slot[c] \in Word /\ slot[c] \in Int
             /\ Congruent(slot[c], MaskedOf(c)[k], R)
             /\ IntegersOn(MaskedOf(c), cohort)
             /\ MaskedOf(c)[k] = Masked(k, c, noise)
  <2>1. IntegersOn(MaskedOf(c), cohort)
    BY MasksVanish DEF IInv
  <2>2. MaskedOf(c)[k] = Masked(k, c, noise) /\ Masked(k, c, noise) \in Int
    BY <2>1, <1>2 DEF MaskedOf, IntegersOn
  <2>3. slot[c] = Representative(Masked(k, c, noise), turns)
    OBVIOUS
  <2>4. Word \subseteq Int
    BY RingIsEven DEF Word
  <2> HIDE DEF slot
  <2> QED BY <2>1, <2>2, <2>3, <2>4, <1>3, RepresentativeIs
<1>5. ASSUME NEW c \in 1..n
      PROVE  /\ SumFunctionOnSet(MaskedOf(c), cohort \ left')
                    = MaskedOf(c)[k] + SumFunctionOnSet(MaskedOf(c), cohort \ left)
             /\ SumFunctionOnSet(MaskedOf(c), cohort \ left) \in Int
             /\ MaskedOf(c)[k] \in Int
  <2> DEFINE S == (cohort \ left) \cup {k}
  <2>1. IsFiniteSet(S) /\ IsFiniteSet(cohort \ left) /\ IntegersOn(MaskedOf(c), S)
        /\ IntegersOn(MaskedOf(c), cohort \ left)
    BY <1>2, <1>4, CohortIsFinite DEF IInv, IntegersOn
  <2>2. S \ {k} = cohort \ left /\ k \in S /\ cohort \ left' = S
    BY <1>2
  <2>3. MaskedOf(c)[k] \in Int
    BY <1>4
  <2> HIDE DEF S
  <2>4. SumFunctionOnSet(MaskedOf(c), S) = MaskedOf(c)[k] + SumFunctionOnSet(MaskedOf(c), S \ {k})
    BY <2>1, <2>2, SumRemove
  <2> QED BY <2>1, <2>2, <2>3, <2>4, SumType
<1>6. acc' \in Seq(Word) /\ Len(acc') = n
      /\ \A c \in 1..n : Congruent(acc'[c], SumFunctionOnSet(MaskedOf(c), cohort \ left'), R)
  <2>1. CASE acc = <<>>
    <3>1. acc' = slot /\ slot \in Seq(Word) /\ Len(slot) = n
      BY <2>1, <1>1, <1>2, <1>4
    <3>2. ASSUME NEW c \in 1..n
          PROVE  Congruent(acc'[c], SumFunctionOnSet(MaskedOf(c), cohort \ left'), R)
      <4>1. left = cohort
        BY <2>1, <1>2 DEF IInv, Types, TypeOK
      <4>2. SumFunctionOnSet(MaskedOf(c), cohort \ left) = 0
        <5>1. cohort \ left = {}
          BY <4>1
        <5> QED BY <5>1, SumEmpty
      <4> DEFINE m == MaskedOf(c)[k]
                 all == SumFunctionOnSet(MaskedOf(c), cohort \ left')
                 none == SumFunctionOnSet(MaskedOf(c), cohort \ left)
      <4>3. all = m + none /\ m \in Int /\ none = 0
        BY <4>2, <1>5
      <4>4. Congruent(slot[c], m, R)
        <5> HIDE DEF slot
        <5> QED BY <1>4
      <4> HIDE DEF slot, m, all, none
      <4>5. all = m
        BY <4>3
      <4> QED BY <4>4, <4>5, <3>1 DEF all
    <3> HIDE DEF slot
    <3> QED BY <3>1, <3>2
  <2>2. CASE acc # <<>>
    <3>1. left # cohort /\ acc \in Seq(Word) /\ Len(acc) = n /\ DOMAIN acc = 1..n
      BY <2>2, <1>2 DEF IInv, SlotsInv, Types, TypeOK, Word
    <3>2. acc' = [c \in 1..n |-> Added(acc[c], slot[c])]
      BY <2>2, <3>1, <1>1
    <3>3. ASSUME NEW c \in 1..n
          PROVE  /\ acc'[c] \in Word
                 /\ Congruent(acc'[c], SumFunctionOnSet(MaskedOf(c), cohort \ left'), R)
      <4> DEFINE a == acc[c]
                 s == slot[c]
                 m == MaskedOf(c)[k]
                 sum == SumFunctionOnSet(MaskedOf(c), cohort \ left)
      <4>1. a \in Int /\ Congruent(a, sum, R)
        <5>1. a \in Word /\ Word \subseteq Int
          BY <3>1, RingIsEven DEF Word
        <5> QED BY <5>1, <3>1 DEF IInv, SlotsInv
      <4>2. s \in Int /\ m \in Int /\ sum \in Int /\ Congruent(s, m, R)
        <5> HIDE DEF slot
        <5> QED BY <1>4, <1>5
      <4>3. acc'[c] = Added(a, s)
        BY <3>2
      <4>4. SumFunctionOnSet(MaskedOf(c), cohort \ left') = m + sum
        BY <1>5
      <4> HIDE DEF a, s, m, sum, slot
      <4>5. Added(a, s) \in Word /\ Congruent(Added(a, s), a + s, R) /\ Added(a, s) \in Int /\ R \in Int
        BY <4>1, <4>2, AddedIs, RingIsEven DEF Word
      <4>6. Congruent(a + s, sum + m, R) /\ a + s \in Int /\ sum + m \in Int
        BY <4>1, <4>2, <4>5, CongruentPlus
      <4>7. Congruent(Added(a, s), sum + m, R)
        BY <4>5, <4>6, CongruentChain
      <4>8. sum + m = m + sum
        BY <4>2
      <4> QED BY <4>3, <4>4, <4>5, <4>7, <4>8
    <3>4. acc' \in Seq(Word) /\ Len(acc') = n
      <4>1. \A c \in 1..n : Added(acc[c], slot[c]) \in Word
        BY <3>2, <3>3
      <4> HIDE DEF slot
      <4> QED BY <3>2, <4>1, <1>2
    <3> QED BY <3>3, <3>4
  <2> QED BY <2>1, <2>2
<1>7. Total(trained)' = n /\ \A c : MaskedOf(c)' = MaskedOf(c)
  BY <1>1, MaskedIsFixed DEF Total
<1>8. Types'
  <2>1. left' \subseteq cohort'
    BY <1>1, <1>2
  <2>2. TypeOK'
    BY <2>1, <1>6, <1>7 DEF TypeOK, Word
  <2> QED BY <2>2, <1>1 DEF IInv, Types, Pairs
<1>9. SlotsInv'
  BY <1>1, <1>2, <1>6, <1>7 DEF SlotsInv
<1> QED BY <1>8, <1>9 DEF IInv

(* So does every step. *)
LEMMA NextHolds == IInv /\ [Next]_vars => IInv'
<1> SUFFICES ASSUME IInv, [Next]_vars PROVE IInv'
  OBVIOUS
<1>1. CASE Next
  BY <1>1, ReadSlotStep DEF Next
<1>2. CASE UNCHANGED vars
  <2>1. UNCHANGED <<cohort, trained, delta, noise>> /\ UNCHANGED <<left, acc>>
    BY <1>2 DEF vars
  <2>2. Total(trained)' = Total(trained) /\ \A c : MaskedOf(c)' = MaskedOf(c)
    BY <2>1, MaskedIsFixed DEF Total
  <2>3. Types'
    BY <2>1, <2>2 DEF IInv, Types, TypeOK, Pairs
  <2>4. SlotsInv'
    BY <2>1, <2>2 DEF IInv, SlotsInv
  <2> QED BY <2>3, <2>4 DEF IInv
<1> QED BY <1>1, <1>2

(* Whatever the slots hold and in whatever order they are read, the
   accumulator is congruent to the sum of what was read.                   *)
THEOREM SumInvariance == SumSpec => []IInv
BY InitHolds, NextHolds, PTL DEF SumSpec

(* TypeOK: what _module_sum adds up stays inside int64. *)
THEOREM SumTypes == SumSpec => []TypeOK
<1>1. IInv => TypeOK
  BY DEF IInv, Types
<1> QED BY <1>1, SumInvariance, PTL

-----------------------------------------------------------------------------
(* What the fold is handed. *)

(* dequantize reads a residue as the number of -Half..Half-1 congruent to it. *)
LEMMA SignedIs ==
  ASSUME NEW x \in Int
  PROVE  /\ Signed(x % R) \in -Half..(Half - 1) /\ Signed(x % R) \in Int
         /\ Congruent(Signed(x % R), x, R)
<1> DEFINE y == x % R
<1>1. R \in Nat \ {0} /\ Half \in Nat /\ R = 2 * Half
  BY RingIsEven
<1>2. y \in 0..(R - 1) /\ y \in Int /\ Congruent(y, x, R)
  BY <1>1, Remainder
<1> HIDE DEF y
<1>3. Signed(y) \in -Half..(Half - 1)
  BY <1>1, <1>2 DEF Signed
<1>4. Signed(y) \in Int
  BY <1>1, <1>3
<1>5. Congruent(Signed(y), y, R)
  <2>1. CASE y >= Half
    <3>1. Signed(y) = y + (-1) * R
      BY <1>1, <1>2, <2>1 DEF Signed
    <3> QED BY <3>1 DEF Congruent
  <2>2. CASE ~ (y >= Half)
    <3>1. Signed(y) = y
      BY <2>2 DEF Signed
    <3> QED BY <1>1, <1>2, <3>1, CongruentSame
  <2> QED BY <2>1, <2>2
<1>6. Congruent(Signed(y), x, R)
  BY <1>1, <1>2, <1>4, <1>5, CongruentChain
<1> QED BY <1>3, <1>4, <1>6 DEF y

(* The rounded numbers of the members, for one element of one factor. *)
RoundedOf(f, c) == [k \in cohort |-> Rounded(delta[k][f][c])]

(* What a member trained is a number, element by element. *)
LEMMA DeltaIsInteger ==
  ASSUME Types, NEW k \in cohort, NEW f \in trained, NEW c \in 1..Size[f]
  PROVE  delta[k][f][c] \in Int
<1>1. /\ f \in Factor /\ delta[k] \in [Factor -> Seq(Int)] /\ Len(delta[k][f]) = Size[f]
  BY AllAssumptions DEF Types, Assumptions, ShapeAssumption
<1> QED BY <1>1

(* ExactSum is a sum in the sense of SumProofs, and an integer. *)
LEMMA ExactIsSum ==
  ASSUME Types, NEW f \in trained, NEW c \in 1..Size[f]
  PROVE  /\ IntegersOn(RoundedOf(f, c), cohort)
         /\ ExactSum(f, c) = SumFunctionOnSet(RoundedOf(f, c), cohort)
         /\ ExactSum(f, c) \in Int
<1>1. IntegersOn(RoundedOf(f, c), cohort)
  <2>1. \A k \in cohort : Rounded(delta[k][f][c]) \in Int
    BY DeltaIsInteger, RoundedIsClose
  <2> QED BY <2>1 DEF IntegersOn, RoundedOf
<1>2. ExactSum(f, c) = SumFunctionOnSet(RoundedOf(f, c), cohort)
  BY DEF ExactSum, SumFunction, SumFunctionOnSet, RoundedOf
<1> QED BY <1>1, <1>2, CohortIsFinite, SumType

(* What the fold is handed is congruent to the exact sum, and inside the ring, *)
LEMMA Reconstructed ==
  ASSUME IInv, Done, NEW f \in trained, NEW c \in 1..Size[f]
  PROVE  /\ Summed(f)[c] \in -Half..(Half - 1)
         /\ Congruent(Summed(f)[c], ExactSum(f, c), R)
<1> DEFINE i == Offset(f) + c
           a == acc[i]
           e == ExactSum(f, c)
<1>1. Types /\ IsFiniteSet(cohort) /\ R \in Nat \ {0} /\ R \in Int
  BY CohortIsFinite, RingIsEven DEF IInv
<1>2. cohort # {}
  BY <1>1, FS_EmptySet DEF Types
<1>3. left # cohort /\ cohort \ left = cohort
  BY <1>2 DEF Done
<1>4. i \in 1..Total(trained) /\ \A k \in cohort : Flattened(k)[i] = delta[k][f][c]
  BY <1>1, <1>2, OffsetsAgree
<1>5. a \in Int
  <2>1. acc \in Seq(Word) /\ Len(acc) = Total(trained) /\ Word \subseteq Int
    BY <1>1, <1>3, RingIsEven DEF Types, TypeOK, Word
  <2>2. acc[i] \in Word
    <3> HIDE DEF i
    <3> QED BY <2>1, <1>4
  <2> QED BY <2>1, <2>2
<1> HIDE DEF i
<1>6. Congruent(a, SumFunctionOnSet(MaskedOf(i), cohort), R)
  BY <1>3, <1>4 DEF IInv, SlotsInv
<1>7. /\ Congruent(SumFunctionOnSet(MaskedOf(i), cohort), SumFunctionOnSet(QuantaOf(i), cohort), R)
      /\ SumFunctionOnSet(MaskedOf(i), cohort) \in Int
      /\ SumFunctionOnSet(QuantaOf(i), cohort) \in Int
  BY <1>1, <1>4, MasksVanish, SumType
<1>8. SumFunctionOnSet(QuantaOf(i), cohort) = e /\ e \in Int
  <2>1. QuantaOf(i) = RoundedOf(f, c)
    BY <1>4 DEF QuantaOf, RoundedOf
  <2> QED BY <1>1, <2>1, ExactIsSum
<1>9. Summed(f)[c] = Signed(a % R)
  BY DEF Summed, i
<1> HIDE DEF a, e
<1>10. Congruent(a, e, R)
  BY <1>1, <1>5, <1>6, <1>7, <1>8, CongruentChain
<1>11. Signed(a % R) \in -Half..(Half - 1) /\ Signed(a % R) \in Int /\ Congruent(Signed(a % R), a, R)
  BY <1>5, SignedIs
<1>12. Congruent(Signed(a % R), e, R)
  BY <1>1, <1>5, <1>8, <1>10, <1>11, CongruentChain
<1> QED BY <1>9, <1>11, <1>12 DEF e

(* so it is the exact sum whenever that is inside the ring. *)
LEMMA SumIsExact ==
  ASSUME IInv, Done, NEW f \in trained, NEW c \in 1..Size[f], InRing(f, c)
  PROVE  Summed(f)[c] = ExactSum(f, c)
<1>1. R \in Nat \ {0} /\ Half \in Nat /\ R = 2 * Half
  BY RingIsEven
<1> DEFINE x == Summed(f)[c]
           e == ExactSum(f, c)
           l == -Half
<1>2. x \in -Half..(Half - 1) /\ Congruent(x, e, R) /\ e \in -Half..(Half - 1)
  BY Reconstructed DEF InRing
<1> HIDE DEF x, e
<1>3. l \in Int /\ l + R - 1 = Half - 1
  BY <1>1
<1> HIDE DEF l
<1>4. x \in l..(l + R - 1) /\ e \in l..(l + R - 1)
  BY <1>2, <1>3 DEF l
<1>5. x = e
  BY <1>1, <1>2, <1>3, <1>4, CongruentClose
<1> QED BY <1>5 DEF x, e

(* MasksCancel: over the whole cohort the masks cancel: every element of every
   factor the fold is handed is the sum of what its members rounded, whatever
   the noise, the order of the slots and the int64 representatives they hold. *)
THEOREM SumIsOfTheCohort == SumSpec => []MasksCancel
<1>1. IInv => MasksCancel
  BY SumIsExact DEF MasksCancel
<1> QED BY <1>1, SumInvariance, PTL

(* The sum is that of what was trained, up to half a quantum for each member. *)
LEMMA SumIsNear ==
  ASSUME IInv, Done, NEW f \in trained, NEW c \in 1..Size[f], InRing(f, c)
  PROVE  /\ 2 * Fine * Summed(f)[c] - 2 * RealSum(f, c)
                 \in -(Fine * Cardinality(cohort))..(Fine * Cardinality(cohort))
         /\ Summed(f)[c] \in Int /\ RealSum(f, c) \in Int
<1> DEFINE n == Cardinality(cohort)
           real == [k \in cohort |-> delta[k][f][c]]
           rounded == RoundedOf(f, c)
           up == [k \in cohort |-> Fine]
           below == [k \in cohort |-> 0 - Fine]
           rest == [k \in cohort |-> 2 * Fine * rounded[k] + ((-2) * real[k] + 0 * real[k])]
           exact == SumFunctionOnSet(rounded, cohort)
           total == SumFunctionOnSet(real, cohort)
           error == SumFunctionOnSet(rest, cohort)
<1>1. Types /\ IsFiniteSet(cohort) /\ n \in Nat /\ Fine \in Nat
  BY CohortIsFinite, AllAssumptions DEF IInv, Assumptions, SizeAssumption
<1>2. \A k \in cohort :
          /\ real[k] \in Int /\ rounded[k] \in Int
          /\ 2 * Fine * rounded[k] - 2 * real[k] \in -Fine..Fine
  BY <1>1, DeltaIsInteger, RoundedIsClose DEF RoundedOf
<1>3. Summed(f)[c] = exact
  BY <1>1, SumIsExact, ExactIsSum
<1>4. RealSum(f, c) = total
  BY DEF RealSum, SumFunction, SumFunctionOnSet
<1>5. \A k \in cohort :
          /\ rest[k] = 2 * Fine * rounded[k] + ((-2) * real[k] + 0 * real[k])
          /\ up[k] = Fine /\ below[k] = 0 - Fine
  OBVIOUS
<1>6. 2 * Fine \in Int /\ 0 - Fine \in Int /\ Fine \in Int
  BY <1>1
<1> HIDE DEF real, rounded, up, below, rest
<1>7. \A k \in cohort : rest[k] \in Int /\ below[k] <= rest[k] /\ rest[k] <= up[k]
  <2> TAKE k \in cohort
  <2> DEFINE x == real[k]
             q == rounded[k]
             m == 2 * Fine * q
  <2>1. x \in Int /\ q \in Int /\ m - 2 * x \in -Fine..Fine
        /\ rest[k] = m + ((-2) * x + 0 * x) /\ up[k] = Fine /\ below[k] = 0 - Fine
    BY <1>2, <1>5
  <2>2. m \in Int
    BY <2>1, <1>6
  <2> HIDE DEF x, m
  <2> QED BY <2>1, <2>2, <1>1
<1>8. /\ IntegersOn(rest, cohort) /\ IntegersOn(up, cohort) /\ IntegersOn(below, cohort)
      /\ IntegersOn(real, cohort) /\ IntegersOn(rounded, cohort)
  BY <1>2, <1>5, <1>6, <1>7 DEF IntegersOn
<1>9. error <= Fine * n
  <2>1. SumFunctionOnSet(up, cohort) = Fine * n
    BY <1>1, <1>5, <1>6, SumConstant
  <2> QED BY <1>1, <1>7, <1>8, <2>1, SumAtMost
<1>10. (0 - Fine) * n <= error
  <2>1. SumFunctionOnSet(below, cohort) = (0 - Fine) * n
    BY <1>1, <1>5, <1>6, SumConstant
  <2> QED BY <1>1, <1>7, <1>8, <2>1, SumAtMost
<1>11. error = 2 * Fine * exact + ((-2) * total + 0 * total)
  <2>1. Combines(rest, rounded, real, real, 2 * Fine, -2, 0, cohort)
    BY <1>5 DEF Combines
  <2>2. -2 \in Int /\ 0 \in Int
    OBVIOUS
  <2>3. CombinesSums(rest, rounded, real, real, 2 * Fine, -2, 0, cohort)
    BY <1>1, <1>6, <1>8, <2>1, <2>2, SumOfThree
  <2> QED BY <2>3 DEF CombinesSums
<1>12. exact \in Int /\ total \in Int /\ error \in Int
  BY <1>1, <1>8, SumType
<1> DEFINE d == Fine * n
           m == 2 * Fine * exact
<1>13. d \in Int /\ m \in Int /\ (0 - Fine) * n = 0 - d
  BY <1>1, <1>6, <1>12
<1> HIDE DEF exact, total, error, n
<1>14. error = m + ((-2) * total + 0 * total) /\ error <= d /\ 0 - d <= error
  BY <1>9, <1>10, <1>11, <1>13
<1> HIDE DEF d, m
<1>15. m - 2 * total \in -d..d
  BY <1>12, <1>13, <1>14
<1>16. exact \in Int /\ total \in Int
  BY <1>12 DEF exact, total
<1> QED BY <1>3, <1>4, <1>15, <1>16 DEF d, m, n

(* SumIsClose: dequantize of the sum is the sum of what was trained, up to half
   a quantum for each member.                                              *)
THEOREM SumLosesHalves == SumSpec => []SumIsClose
<1>1. IInv => SumIsClose
  BY SumIsNear DEF SumIsClose
<1> QED BY <1>1, SumInvariance, PTL

-----------------------------------------------------------------------------
(* The norm of the sum. *)

Sizes == [f \in trained |-> Size[f]]

(* The sizes of the trained factors. *)
LEMMA SizesAre ==
  ASSUME Types
  PROVE  /\ IsFiniteSet(trained) /\ Sizes \in [trained -> Nat]
         /\ \A f \in trained : Sizes[f] = Size[f]
<1>1. trained \in SUBSET Factor
  BY DEF Types
<1> QED BY <1>1, SizesAreFinite DEF Sizes

(* The norm of the code is the one of SumProofs. *)
LEMMA NormIsDot ==
  ASSUME NEW v, \A f \in trained : DOMAIN v[f] = 1..Sizes[f]
  PROVE  SumFunction([f \in trained |-> SquareNorm(v[f])]) = Dot(v, v, trained, Sizes)
<1>1. ASSUME NEW f \in trained PROVE SquareNorm(v[f]) = InnerDot(v, v, Sizes, f)
  <2>1. DOMAIN v[f] = 1..Sizes[f]
    OBVIOUS
  <2>2. [c \in DOMAIN v[f] |-> Square(v[f][c])] = Products(v, v, Sizes, f)
    BY <2>1 DEF Products, Square
  <2>3. DOMAIN Products(v, v, Sizes, f) = 1..Sizes[f]
    BY DEF Products
  <2> QED BY <2>2, <2>3 DEF SquareNorm, InnerDot, SumFunction
<1>2. [f \in trained |-> SquareNorm(v[f])] = [f \in trained |-> InnerDot(v, v, Sizes, f)]
  BY <1>1
<1>3. DOMAIN [f \in trained |-> InnerDot(v, v, Sizes, f)] = trained
  OBVIOUS
<1> QED BY <1>2, <1>3 DEF Dot, SumFunction

(* The sum the fold is handed, in 1/Fine quanta, and the sum of what was trained. *)
MeasuredVector == [f \in trained |-> [c \in 1..Size[f] |-> Fine * Summed(f)[c]]]
RealVector     == [f \in trained |-> [c \in 1..Size[f] |-> RealSum(f, c)]]

Minus(u, v) == [f \in trained |-> [c \in 1..Size[f] |-> u[f][c] - v[f][c]]]

(* Two vectors whose coordinates differ by half a quantum for each member: the
   norm of one is at most that of the other and Slack for each member.     *)
LEMMA NormIsNear ==
  ASSUME Types, NEW u, NEW v, VectorsOn(u, trained, Sizes), VectorsOn(v, trained, Sizes),
         \A f \in trained : \A c \in 1..Sizes[f] :
             2 * v[f][c] - 2 * u[f][c]
                 \in -(Fine * Cardinality(cohort))..(Fine * Cardinality(cohort)),
         NEW a \in Nat, Dot(u, u, trained, Sizes) <= a * a
  PROVE  Dot(v, v, trained, Sizes)
             <= (a + Cardinality(cohort) * Slack) * (a + Cardinality(cohort) * Slack)
<1> DEFINE n == Cardinality(cohort)
           e == Minus(v, u)
           E == Dot(e, e, trained, Sizes)
           size == SumFunctionOnSet(Sizes, trained)
           b == Fine * n
           k == n * Slack
<1>1. /\ n \in Nat /\ Slack \in Nat /\ Fine \in Nat /\ b \in Nat /\ k \in Nat
      /\ 4 * Slack * Slack >= Fine * Fine * Total(Factor)
  BY CohortIsFinite, AllAssumptions DEF Assumptions, SlackAssumption, SizeAssumption
<1>2. IsFiniteSet(trained) /\ Sizes \in [trained -> Nat]
  BY SizesAre
<1>3. /\ VectorsOn(e, trained, Sizes)
      /\ \A f \in trained : \A c \in 1..Sizes[f] :
             v[f][c] = u[f][c] + e[f][c] /\ 2 * e[f][c] \in -b..b
  <2>1. ASSUME NEW f \in trained, NEW c \in 1..Sizes[f]
        PROVE  /\ e[f][c] \in Int /\ v[f][c] = u[f][c] + e[f][c]
               /\ 2 * e[f][c] \in -b..b
    <3>1. u[f][c] \in Int /\ v[f][c] \in Int /\ 2 * v[f][c] - 2 * u[f][c] \in -b..b
      BY DEF VectorsOn
    <3>2. e[f][c] = v[f][c] - u[f][c]
      BY SizesAre DEF Minus
    <3> DEFINE x == u[f][c]
               y == v[f][c]
               z == e[f][c]
    <3> HIDE DEF x, y, z, b
    <3>3. x \in Int /\ y \in Int /\ 2 * y - 2 * x \in -b..b /\ z = y - x /\ b \in Nat
      BY <1>1, <3>1, <3>2 DEF x, y, z
    <3>4. z \in Int /\ y = x + z /\ 2 * z \in -b..b
      BY <3>3
    <3> QED BY <3>4 DEF x, y, z
  <2> QED BY <2>1 DEF VectorsOn
<1>4. size \in Nat /\ size <= Total(Factor) /\ Total(Factor) \in Nat
  <2>1. trained \in SUBSET Factor /\ Factor \in SUBSET Factor
    BY DEF Types
  <2>2. size = Total(trained)
    <3>1. IntegersOn(Size, trained)
      BY <2>1, SizesAreFinite DEF IntegersOn
    <3> QED BY <3>1, SizesAre, SumEqual DEF Total
  <2> QED BY <2>1, <2>2, SizesAreFinite, SumNatural, SumOfPart DEF Total
<1>5. 4 * E <= (b * b) * size /\ E \in Nat
  <2> HIDE DEF e, b, size
  <2>1. 4 * E <= (b * b) * SumFunctionOnSet(Sizes, trained)
    BY <1>1, <1>2, <1>3, NormOfSmall
  <2> QED BY <1>2, <1>3, <2>1, NormIsNatural DEF size
<1>6. E <= k * k
  <2> DEFINE F == Fine * Fine
             N == n * n
             s == Slack * Slack
             t == Total(Factor)
             d == t - size
             m == N * s
  <2> HIDE DEF E, size
  <2>1. F \in Nat /\ N \in Nat /\ s \in Nat /\ t \in Nat /\ d \in Nat /\ size \in Nat /\ t = size + d
    BY <1>1, <1>4, SquareIsNatural
  <2>2. 4 * s >= F * t
    <3>1. 4 * Slack * Slack = 4 * s
      BY <1>1
    <3> QED BY <1>1, <3>1
  <2>3. b * b = N * F /\ k * k = m
    <3> HIDE DEF n
    <3> QED BY <1>1
  <2> HIDE DEF F, N, s, t, d, b, k
  <2>4. F * size <= 4 * s
    <3>1. F * t = F * size + F * d /\ F * d \in Nat /\ F * size \in Nat
      BY <2>1
    <3> QED BY <2>1, <2>2, <3>1
  <2>5. N * (F * size) <= N * (4 * s)
    <3> DEFINE g == F * size
               h == 4 * s - g
    <3>1. g \in Nat /\ h \in Nat /\ 4 * s = g + h
      BY <2>1, <2>4
    <3> HIDE DEF g, h
    <3>2. N * (g + h) = N * g + N * h /\ N * g \in Nat /\ N * h \in Nat
      BY <2>1, <3>1
    <3> QED BY <3>1, <3>2 DEF g
  <2>6. (N * F) * size = N * (F * size) /\ N * (4 * s) = 4 * m /\ m \in Nat
    BY <2>1
  <2>7. E <= m
    <3> DEFINE x == (b * b) * size
               y == N * (4 * s)
    <3>1. x <= y
      <4>1. x = N * (F * size)
        BY <2>3, <2>6
      <4> QED BY <2>5, <4>1
    <3>2. 4 * E <= x /\ y = 4 * m /\ E \in Nat /\ m \in Nat /\ x \in Int
      <4>1. b \in Nat
        BY <1>1
      <4> QED BY <1>5, <2>1, <2>6, <4>1
    <3> HIDE DEF x, y, m
    <3> QED BY <3>1, <3>2
  <2> QED BY <2>3, <2>7
<1> HIDE DEF e, k
<1>7. Dot(v, v, trained, Sizes) <= (a + k) * (a + k)
  BY <1>1, <1>2, <1>3, <1>6, Triangle DEF E
<1> QED BY <1>7 DEF k

(* What the norm test measures, and what it is about. *)
LEMMA VectorsAre ==
  ASSUME IInv, Done, \A f \in trained : \A c \in 1..Size[f] : InRing(f, c)
  PROVE  /\ VectorsOn(MeasuredVector, trained, Sizes)
         /\ VectorsOn(RealVector, trained, Sizes)
         /\ \A f \in trained : \A c \in 1..Sizes[f] :
                /\ 2 * MeasuredVector[f][c] - 2 * RealVector[f][c]
                       \in -(Fine * Cardinality(cohort))..(Fine * Cardinality(cohort))
                /\ 2 * RealVector[f][c] - 2 * MeasuredVector[f][c]
                       \in -(Fine * Cardinality(cohort))..(Fine * Cardinality(cohort))
<1>1. ASSUME NEW f \in trained, NEW c \in 1..Sizes[f]
      PROVE  /\ MeasuredVector[f][c] \in Int /\ RealVector[f][c] \in Int
             /\ 2 * MeasuredVector[f][c] - 2 * RealVector[f][c]
                    \in -(Fine * Cardinality(cohort))..(Fine * Cardinality(cohort))
             /\ 2 * RealVector[f][c] - 2 * MeasuredVector[f][c]
                    \in -(Fine * Cardinality(cohort))..(Fine * Cardinality(cohort))
  <2> DEFINE x == Summed(f)[c]
             y == RealSum(f, c)
             b == Fine * Cardinality(cohort)
             m == MeasuredVector[f][c]
             q == RealVector[f][c]
  <2>1. Types /\ c \in 1..Size[f]
    BY SizesAre DEF IInv
  <2>2. Fine \in Nat /\ Cardinality(cohort) \in Nat
    BY <2>1, CohortIsFinite, AllAssumptions DEF Assumptions, SizeAssumption
  <2>3. b \in Nat
    BY <2>2
  <2>4. m = Fine * x /\ q = y
    BY <2>1 DEF MeasuredVector, RealVector
  <2>5. 2 * Fine * x - 2 * y \in -b..b /\ x \in Int /\ y \in Int
    BY <2>1, SumIsNear
  <2> HIDE DEF x, y, b, m, q
  <2>6. m \in Int /\ 2 * Fine * x = 2 * m
    BY <2>2, <2>4, <2>5
  <2>7. 2 * m - 2 * q \in -b..b /\ 2 * q - 2 * m \in -b..b /\ q \in Int
    BY <2>3, <2>4, <2>5, <2>6
  <2> QED BY <2>6, <2>7 DEF b, m, q
<1> QED BY <1>1 DEF VectorsOn

(* The test of the code, in these terms. *)
LEMMA NormsAre ==
  ASSUME IInv, Done, \A f \in trained : \A c \in 1..Size[f] : InRing(f, c)
  PROVE  /\ RealNorm = Dot(RealVector, RealVector, trained, Sizes)
         /\ NormExceeded <=> Dot(MeasuredVector, MeasuredVector, trained, Sizes)
                                 > (Cardinality(cohort) * Clip) * (Cardinality(cohort) * Clip)
         /\ Dot(RealVector, RealVector, trained, Sizes) \in Int
         /\ Dot(MeasuredVector, MeasuredVector, trained, Sizes) \in Int
<1> DEFINE v == [f \in trained |-> Summed(f)]
           w == MeasuredVector
           S == Dot(v, v, trained, Sizes)
           W == Dot(w, w, trained, Sizes)
           n == Cardinality(cohort)
<1>1. /\ Types /\ IsFiniteSet(trained) /\ Sizes \in [trained -> Nat]
      /\ \A f \in trained : Sizes[f] = Size[f]
      /\ Fine \in Int /\ n \in Nat /\ Clip \in Nat
  BY SizesAre, CohortIsFinite, AllAssumptions
  DEF IInv, Assumptions, SizeAssumption, SlackAssumption
<1>2. RealNorm = Dot(RealVector, RealVector, trained, Sizes)
  <2>1. [f \in trained |-> SquareNorm([c \in 1..Size[f] |-> RealSum(f, c)])]
            = [f \in trained |-> SquareNorm(RealVector[f])]
    BY DEF RealVector
  <2>2. \A f \in trained : DOMAIN RealVector[f] = 1..Sizes[f]
    BY <1>1 DEF RealVector
  <2> QED BY <2>1, <2>2, NormIsDot DEF RealNorm
<1>3. SumFunction([f \in trained |-> SquareNorm(Summed(f))]) = S
  <2>1. [f \in trained |-> SquareNorm(Summed(f))] = [f \in trained |-> SquareNorm(v[f])]
    OBVIOUS
  <2>2. \A f \in trained : DOMAIN v[f] = 1..Sizes[f]
    BY <1>1 DEF Summed
  <2> HIDE DEF v
  <2> QED BY <2>1, <2>2, NormIsDot DEF v
<1>4. VectorsOn(v, trained, Sizes) /\ IsMultiple(w, Fine, v, trained, Sizes)
  <2>1. ASSUME NEW f \in trained, NEW c \in 1..Sizes[f]
        PROVE  v[f][c] \in Int /\ w[f][c] = Fine * v[f][c]
    <3>1. c \in 1..Size[f] /\ v[f][c] = Summed(f)[c]
      BY <1>1
    <3> QED BY <3>1, SumIsNear DEF MeasuredVector
  <2> HIDE DEF v, w
  <2> QED BY <2>1 DEF VectorsOn, IsMultiple
<1>5. VectorsOn(w, trained, Sizes) /\ VectorsOn(RealVector, trained, Sizes)
  BY VectorsAre
<1>6. W = (Fine * Fine) * S /\ S \in Int
  <2> HIDE DEF v, w
  <2>1. S \in Int
    BY <1>1, <1>4, DotType
  <2>2. W = (Fine * Fine) * S
    BY <1>1, <1>4, NormOfMultiple
  <2> QED BY <2>1, <2>2
<1>7. W \in Int /\ Dot(RealVector, RealVector, trained, Sizes) \in Int
  <2> HIDE DEF w
  <2> QED BY <1>1, <1>5, DotType
<1>8. NormExceeded <=> W > (n * Clip) * (n * Clip)
  <2> DEFINE F == Fine * Fine
  <2>1. S * F = W
    <3>1. F \in Int
      BY <1>1
    <3> HIDE DEF F, S, W
    <3> QED BY <1>6, <3>1 DEF F
  <2>2. Clip * n = n * Clip
    BY <1>1
  <2> HIDE DEF S, W, n
  <2> QED BY <1>3, <2>1, <2>2 DEF NormExceeded, NormBound, Square, n
<1> QED BY <1>2, <1>7, <1>8

(* NormTestIsClose: the norm _fold_streamed measures decides about the norm of
   the sum of what was trained, up to the rounding of each member: for every
   cohort, ring, layout, noise and order of the slots.                     *)
THEOREM NormTestDecides == SumSpec => []NormTestIsClose
<1>1. ASSUME IInv, Done, \A f \in trained : \A c \in 1..Size[f] : InRing(f, c)
      PROVE  /\ NormExceeded => RealNorm > Square(Cardinality(cohort) * (Clip - Slack))
             /\ RealNorm > Square(Cardinality(cohort) * (Clip + Slack)) => NormExceeded
  <2> DEFINE n == Cardinality(cohort)
             u == RealVector
             w == MeasuredVector
             U == Dot(u, u, trained, Sizes)
             W == Dot(w, w, trained, Sizes)
             low == n * (Clip - Slack)
             mid == n * Clip
             high == n * (Clip + Slack)
             k == n * Slack
  <2>1. Types /\ n \in Nat /\ Clip \in Nat /\ Slack \in Nat /\ Clip - Slack \in Nat
    BY <1>1, CohortIsFinite, AllAssumptions DEF IInv, Assumptions, SlackAssumption
  <2>2. low \in Nat /\ mid \in Nat /\ high \in Nat /\ low + k = mid /\ mid + k = high
    <3> HIDE DEF n
    <3>1. n * (Clip - Slack) + n * Slack = n * Clip /\ n * Clip + n * Slack = n * (Clip + Slack)
      BY <2>1
    <3> QED BY <2>1, <3>1
  <2>3. /\ VectorsOn(u, trained, Sizes) /\ VectorsOn(w, trained, Sizes)
        /\ \A f \in trained : \A c \in 1..Sizes[f] :
               /\ 2 * w[f][c] - 2 * u[f][c] \in -(Fine * n)..(Fine * n)
               /\ 2 * u[f][c] - 2 * w[f][c] \in -(Fine * n)..(Fine * n)
    BY <1>1, VectorsAre
  <2>4. RealNorm = U /\ (NormExceeded <=> W > mid * mid) /\ U \in Int /\ W \in Int
    BY <1>1, NormsAre
  <2> HIDE DEF u, w
  <2>5. U <= low * low => W <= (low + k) * (low + k)
    BY <2>1, <2>2, <2>3, NormIsNear
  <2>6. W <= mid * mid => U <= (mid + k) * (mid + k)
    BY <2>1, <2>2, <2>3, NormIsNear
  <2>7. /\ U <= low * low => W <= mid * mid
        /\ W <= mid * mid => U <= high * high
    BY <2>2, <2>5, <2>6
  <2>8. low * low \in Int /\ mid * mid \in Int /\ high * high \in Int
    BY <2>2
  <2> HIDE DEF U, W, low, mid, high
  <2>9. (W > mid * mid => U > low * low) /\ (U > high * high => W > mid * mid)
    <3> DEFINE l2 == low * low
               m2 == mid * mid
               h2 == high * high
    <3> HIDE DEF l2, m2, h2
    <3>1. l2 \in Int /\ m2 \in Int /\ h2 \in Int /\ (U <= l2 => W <= m2) /\ (W <= m2 => U <= h2)
      BY <2>7, <2>8 DEF l2, m2, h2
    <3>2. (W > m2 => U > l2) /\ (U > h2 => W > m2)
      BY <2>4, <3>1
    <3> QED BY <3>2 DEF l2, m2, h2
  <2> QED BY <2>4, <2>9 DEF Square, low, high
<1>2. IInv => NormTestIsClose
  BY <1>1 DEF NormTestIsClose
<1> QED BY <1>2, SumInvariance, PTL

-----------------------------------------------------------------------------
(* Part of a cohort. *)

(* The noise, had one pair expanded something else at one coordinate. *)
Changed(in, out, c, e) == [noise EXCEPT ![{in, out}][c] = e]

(* Changing what one pair expanded changes the shares of that pair only. *)
LEMMA SharesChange ==
  ASSUME Types, NEW in \in cohort, NEW out \in cohort, in # out, NEW c \in 1..Total(trained),
         NEW e \in Int, NEW k \in cohort, NEW peer \in cohort \ {k}
  PROVE  /\ Share(k, c, Changed(in, out, c, e))[peer] =
                IF {k, peer} = {in, out} THEN Sign(k, peer) * e ELSE Share(k, c, noise)[peer]
         /\ Share(k, c, Changed(in, out, c, e))[peer] \in Int
<1> DEFINE eps == Changed(in, out, c, e)
<1>1. c \in 1..Total(Factor)
  <2>1. Total(trained) <= Total(Factor) /\ Total(trained) \in Nat /\ Total(Factor) \in Nat
    <3>1. trained \in SUBSET Factor /\ Factor \in SUBSET Factor
      BY DEF Types
    <3> QED BY <3>1, NoiseOfPair, SizesAreFinite, SumNatural DEF Total
  <2> QED BY <2>1
<1>2. /\ noise \in [Pairs(cohort) -> Noise] /\ {in, out} \in Pairs(cohort)
      /\ noise[{in, out}] \in [1..Total(Factor) -> Int] /\ {k, peer} \in Pairs(cohort)
  BY NoiseOfPair DEF Types
<1>3. eps[{k, peer}][c] = IF {k, peer} = {in, out} THEN e ELSE noise[{k, peer}][c]
  <2>1. CASE {k, peer} = {in, out}
    <3> DEFINE p == {in, out}
               v == noise[p]
    <3>1. eps[p] = [v EXCEPT ![c] = e] /\ v \in [1..Total(Factor) -> Int]
      BY <1>2 DEF Changed
    <3> HIDE DEF p, v, eps
    <3>2. eps[p][c] = e
      BY <3>1, <1>1
    <3> QED BY <3>2, <2>1 DEF p
  <2>2. CASE {k, peer} # {in, out}
    BY <1>2, <2>2 DEF Changed
  <2> QED BY <2>1, <2>2
<1>4. Share(k, c, eps)[peer] = Sign(k, peer) * eps[{k, peer}][c]
      /\ Share(k, c, noise)[peer] = Sign(k, peer) * noise[{k, peer}][c]
  BY DEF Share
<1>5. Share(k, c, noise)[peer] \in Int /\ Sign(k, peer) \in Int
  BY SharesAreIntegers DEF IntegersOn, Sign
<1>6. Sign(k, peer) * e \in Int
  BY <1>5
<1> HIDE DEF eps
<1>7. Share(k, c, eps)[peer] =
          IF {k, peer} = {in, out} THEN Sign(k, peer) * e ELSE Share(k, c, noise)[peer]
  BY <1>3, <1>4
<1> QED BY <1>5, <1>6, <1>7 DEF eps

(* What a member inside the part uploads: only the one of the pair depends on
   what the pair expanded.                                                 *)
LEMMA UploadChanges ==
  ASSUME Types, NEW in \in cohort, NEW out \in cohort, in # out, NEW c \in 1..Total(trained),
         NEW k \in cohort, k # out
  PROVE  \E b \in Int : \A e \in Int :
             /\ Masked(k, c, Changed(in, out, c, e)) \in Int
             /\ Congruent(Masked(k, c, Changed(in, out, c, e)),
                          IF k = in THEN b + Sign(in, out) * e ELSE b, R)
<1> DEFINE S == cohort \ {k}
           q == Rounded(Flattened(k)[c])
           plain == Share(k, c, noise)
           own == IF k = in THEN SumFunctionOnSet(plain, S \ {out}) ELSE SumFunctionOnSet(plain, S)
           b == q + own
<1>1. IsFiniteSet(S) /\ IsFiniteSet(S \ {out}) /\ IntegersOn(plain, S) /\ IntegersOn(plain, S \ {out})
  <2>1. IntegersOn(plain, S)
    BY SharesAreIntegers
  <2> HIDE DEF plain
  <2> QED BY <2>1, CohortIsFinite DEF IntegersOn
<1>2. q \in Int
  <2>1. Flattened(k)[c] \in Int
    BY OffsetsAgree
  <2> QED BY <2>1, RoundedIsClose
<1>3. own \in Int
  <2> HIDE DEF plain, S
  <2> QED BY <1>1, SumType
<1>4. ASSUME NEW e \in Int
      PROVE  /\ Masked(k, c, Changed(in, out, c, e)) \in Int
             /\ Congruent(Masked(k, c, Changed(in, out, c, e)),
                          IF k = in THEN b + Sign(in, out) * e ELSE b, R)
  <2> DEFINE eps == Changed(in, out, c, e)
             changed == Share(k, c, eps)
             sum == SumFunctionOnSet(changed, S)
  <2>1. IntegersOn(changed, S)
    BY SharesChange DEF IntegersOn
  <2>2. /\ Masked(k, c, eps) \in Int
        /\ Congruent(Masked(k, c, eps), q + sum, R)
    <3> HIDE DEF eps
    <3> QED BY <2>1, MaskedIsSum
  <2>3. CASE k = in
    <3>1. \A peer \in S \ {out} : changed[peer] = plain[peer]
      <4>1. \A peer \in S \ {out} : {k, peer} # {in, out}
        BY <2>3
      <4> QED BY <4>1, SharesChange
    <3>2. changed[out] = Sign(in, out) * e /\ out \in S
      BY <2>3, SharesChange
    <3> DEFINE x == Sign(in, out) * e
    <3>3. x \in Int
      BY DEF Sign
    <3> HIDE DEF changed, plain, S, x
    <3>4. sum = changed[out] + SumFunctionOnSet(changed, S \ {out})
      BY <1>1, <2>1, <3>2, SumRemove
    <3>5. SumFunctionOnSet(changed, S \ {out}) = own
      BY <1>1, <2>3, <3>1, SumEqual
    <3> HIDE DEF own, sum, q
    <3>6. q + sum = (q + own) + x
      BY <3>2, <3>3, <3>4, <3>5, <1>2, <1>3 DEF x
    <3> QED BY <2>2, <2>3, <3>6 DEF x
  <2>4. CASE k # in
    <3>1. \A peer \in S : {k, peer} # {in, out}
      BY <2>4
    <3>2. \A peer \in S : changed[peer] = plain[peer]
      BY <3>1, SharesChange
    <3> HIDE DEF changed, plain, S
    <3>3. sum = own
      BY <1>1, <2>4, <3>2, SumEqual
    <3> QED BY <2>2, <2>4, <3>3
  <2> QED BY <2>3, <2>4
<1>5. b \in Int
  <2> HIDE DEF own, q
  <2> QED BY <1>2, <1>3
<1> HIDE DEF b
<1> QED BY <1>4, <1>5

(* What a part uploads together, as a function of what the pair expanded. *)
UploadsOf(P, in, out, c, e) == [k \in P |-> Masked(k, c, Changed(in, out, c, e))]

(* The sum over a part that has one member of the pair moves with it. *)
LEMMA PartShifts ==
  ASSUME Types, NEW in \in cohort, NEW out \in cohort, NEW c \in 1..Total(trained),
         NEW P \in SUBSET cohort, in \in P, out \notin P
  PROVE  \E a \in Int : \A e \in Int :
             /\ SumFunctionOnSet(UploadsOf(P, in, out, c, e), P) \in Int
             /\ Congruent(SumFunctionOnSet(UploadsOf(P, in, out, c, e), P), a + Sign(in, out) * e, R)
<1> DEFINE Shifts(k, b) ==
             \A e \in Int :
                 /\ Masked(k, c, Changed(in, out, c, e)) \in Int
                 /\ Congruent(Masked(k, c, Changed(in, out, c, e)),
                              IF k = in THEN b + Sign(in, out) * e ELSE b, R)
           base == [k \in P |-> CHOOSE b \in Int : Shifts(k, b)]
           a == SumFunctionOnSet(base, P)
           rest == SumFunctionOnSet(base, P \ {in})
<1>1. \A k \in P : base[k] \in Int /\ Shifts(k, base[k])
  <2> TAKE k \in P
  <2>1. \E b \in Int : Shifts(k, b)
    BY UploadChanges
  <2> HIDE DEF Shifts
  <2> QED BY <2>1
<1> HIDE DEF base
<1>2. IsFiniteSet(P) /\ IsFiniteSet(P \ {in}) /\ R \in Int
  BY CohortIsFinite, RingIsEven
<1>3. IntegersOn(base, P) /\ IntegersOn(base, P \ {in})
  <2> HIDE DEF Shifts
  <2> QED BY <1>1 DEF IntegersOn
<1>4. a \in Int /\ rest \in Int /\ a = base[in] + rest
  BY <1>2, <1>3, SumType, SumRemove
<1>5. ASSUME NEW e \in Int
      PROVE  /\ SumFunctionOnSet(UploadsOf(P, in, out, c, e), P) \in Int
             /\ Congruent(SumFunctionOnSet(UploadsOf(P, in, out, c, e), P), a + Sign(in, out) * e, R)
  <2> DEFINE up == UploadsOf(P, in, out, c, e)
             x == Sign(in, out) * e
             moved == [k \in P |-> IF k = in THEN base[k] + x ELSE base[k]]
  <2>1. x \in Int
    BY DEF Sign
  <2>2. \A k \in P : up[k] \in Int
                     /\ Congruent(up[k], IF k = in THEN base[k] + x ELSE base[k], R)
    BY <1>1 DEF UploadsOf
  <2>3. \A k \in P : moved[k] = IF k = in THEN base[k] + x ELSE base[k]
    OBVIOUS
  <2> HIDE DEF up, x, moved
  <2>4. (\A k \in P \ {in} : base[k] = moved[k]) /\ moved[in] = base[in] + x
    BY <2>3
  <2>5. IntegersOn(up, P) /\ IntegersOn(moved, P)
    <3>1. \A k \in P : base[k] \in Int
      BY <1>3 DEF IntegersOn
    <3> QED BY <3>1, <2>1, <2>2, <2>3 DEF IntegersOn
  <2>6. Congruent(SumFunctionOnSet(up, P), SumFunctionOnSet(moved, P), R)
    <3>1. \A k \in P : Congruent(up[k], moved[k], R)
      BY <2>2, <2>3
    <3> QED BY <1>2, <2>5, <3>1, CongruentSum
  <2>7. SumFunctionOnSet(moved, P) = moved[in] + SumFunctionOnSet(moved, P \ {in})
    BY <1>2, <2>5, SumRemove
  <2>8. SumFunctionOnSet(moved, P \ {in}) = rest
    <3>1. \A k \in P \ {in} : moved[k] = base[k]
      BY <2>4
    <3> QED BY <1>2, <1>3, <3>1, SumEqual
  <2>9. SumFunctionOnSet(moved, P) = a + x
    <3>1. base[in] \in Int
      BY <1>3 DEF IntegersOn
    <3> HIDE DEF a, rest
    <3> QED BY <2>1, <2>4, <2>7, <2>8, <3>1, <1>4
  <2>10. SumFunctionOnSet(up, P) \in Int
    BY <1>2, <2>5, SumType
  <2> QED BY <2>6, <2>9, <2>10 DEF up, x
<1> HIDE DEF a
<1> QED BY <1>4, <1>5

(* a +- e runs through every residue. *)
LEMMA ShiftsReachAll ==
  ASSUME NEW a \in Int, NEW s \in {1, -1}, NEW sum,
         \A e \in Int : sum[e] \in Int /\ Congruent(sum[e], a + s * e, R)
  PROVE  {sum[e] % R : e \in 0..(R - 1)} = 0..(R - 1)
<1>1. R \in Nat \ {0} /\ R \in Int
  BY RingIsEven
<1>2. ASSUME NEW e \in 0..(R - 1) PROVE sum[e] % R \in 0..(R - 1)
  <2>1. sum[e] \in Int
    BY <1>1
  <2> QED BY <1>1, <2>1, Remainder
<1>3. ASSUME NEW t \in 0..(R - 1) PROVE \E e \in 0..(R - 1) : sum[e] % R = t
  <2> DEFINE y == s * (t - a)
             e == y % R
             x == sum[e]
             z == a + s * e
  <2>1. y \in Int /\ t \in Int
    BY <1>1
  <2>2. e \in 0..(R - 1) /\ e \in Int /\ Congruent(e, y, R)
    <3>1. y % R \in 0..(R - 1) /\ Congruent(y % R, y, R)
      <4> HIDE DEF y
      <4> QED BY <1>1, <2>1, Remainder
    <3>2. e = y % R
      OBVIOUS
    <3> HIDE DEF e, y
    <3> QED BY <1>1, <3>1, <3>2
  <2>3. x \in Int /\ Congruent(x, z, R)
    BY <2>2
  <2>4. z \in Int /\ Congruent(z, t, R)
    <3>1. PICK q \in Int : e = y + q * R
      BY <2>2 DEF Congruent
    <3>2. s * y = t - a
      BY <2>1
    <3> HIDE DEF y, e
    <3>3. s * q \in Int /\ s * e = s * y + (s * q) * R /\ s * e \in Int
      BY <3>1, <2>1, <2>2, <1>1
    <3>4. z = t + (s * q) * R
      BY <3>2, <3>3, <2>1, <1>1
    <3> QED BY <3>3, <3>4 DEF Congruent
  <2> HIDE DEF y, e, x, z
  <2>5. x % R \in 0..(R - 1) /\ x % R \in Int /\ Congruent(x % R, x, R)
    BY <1>1, <2>3, Remainder
  <2>6. Congruent(x % R, t, R)
    <3>1. Congruent(x % R, z, R)
      BY <1>1, <2>3, <2>4, <2>5, CongruentChain
    <3> QED BY <1>1, <2>1, <2>4, <2>5, <3>1, CongruentChain
  <2> DEFINE w == x % R
  <2>7. w \in 0..(0 + R - 1) /\ t \in 0..(0 + R - 1) /\ 0 \in Int
    BY <2>5, <1>1
  <2>8. w = t
    <3> HIDE DEF w
    <3>1. Congruent(w, t, R)
      BY <2>6 DEF w
    <3> QED BY <1>1, <2>7, <3>1, CongruentClose
  <2> QED BY <2>2, <2>8 DEF x
<1> QED BY <1>2, <1>3

(* PartHidesMembers: the sum over a part of the cohort is consistent with every
   value, whatever its members trained: why a cohort that is not whole is
   voided and never summed.                                                *)
THEOREM PartSaysNothing == SumSpec => []PartHidesMembers
<1>1. ASSUME IInv, left \notin {{}, cohort}, NEW c \in DOMAIN acc
      PROVE  \E in \in cohort \ left, out \in left :
                 {SumFunction([k \in cohort \ left |-> Masked(k, c, [noise EXCEPT ![{in, out}][c] = e])]) % R
                      : e \in 0..(R - 1)} = 0..(R - 1)
  <2> DEFINE P == cohort \ left
  <2>1. Types /\ left \subseteq cohort /\ c \in 1..Total(trained)
    BY <1>1 DEF IInv, Types, TypeOK
  <2>2. PICK in \in P, out \in left : TRUE
    BY <1>1, <2>1
  <2>3. in \in cohort /\ out \in cohort /\ in \in P /\ out \notin P /\ P \in SUBSET cohort
    BY <2>1, <2>2
  <2> DEFINE sum == [e \in Int |-> SumFunctionOnSet(UploadsOf(P, in, out, c, e), P)]
  <2>4. PICK a \in Int : \A e \in Int :
             sum[e] \in Int /\ Congruent(sum[e], a + Sign(in, out) * e, R)
    <3> HIDE DEF P
    <3> QED BY <2>1, <2>3, PartShifts
  <2>5. \A e \in 0..(R - 1) :
            SumFunction([k \in cohort \ left |-> Masked(k, c, [noise EXCEPT ![{in, out}][c] = e])]) = sum[e]
    <3>1. \A e \in 0..(R - 1) : e \in Int
      BY RingIsEven
    <3> QED BY <3>1 DEF UploadsOf, Changed, SumFunction, SumFunctionOnSet
  <2>6. Sign(in, out) \in {1, -1}
    BY DEF Sign
  <2> HIDE DEF sum
  <2>7. {sum[e] % R : e \in 0..(R - 1)} = 0..(R - 1)
    BY <2>4, <2>6, ShiftsReachAll
  <2>8. {SumFunction([k \in cohort \ left |-> Masked(k, c, [noise EXCEPT ![{in, out}][c] = e])]) % R
                      : e \in 0..(R - 1)} = {sum[e] % R : e \in 0..(R - 1)}
    BY <2>5
  <2> QED BY <2>2, <2>7, <2>8
<1>2. IInv => PartHidesMembers
  BY <1>1 DEF PartHidesMembers
<1> QED BY <1>2, SumInvariance, PTL
=============================================================================
