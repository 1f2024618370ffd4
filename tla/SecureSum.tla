------------------------------ MODULE SecureSum ------------------------------
(***************************************************************************)
(* The arithmetic of a cohort's sum: what each member uploads (quantize    *)
(* and mask of secure_agg.py, the contract the server inverts) and what    *)
(* the server makes of the staged slots (_aggregate_streamed, _module_sum  *)
(* and the norm bound of aggregate.py; dequantize).                        *)
(*                                                                         *)
(* Reals are integers here: a coordinate is a number of 1/Fine quanta, a   *)
(* quantum being 1/SCALE.  Keys and factor names are numbers, for their    *)
(* order.  A pair's noise is any vector of residues; both members expand   *)
(* it from the secret they share, so it is the same for both.  That        *)
(* float32 has 24 bits for a sum of up to 31 is left out.                  *)
(***************************************************************************)
EXTENDS Integers, Sequences, FiniteSets, FiniteSetsExt

CONSTANTS
    Key,      \* client public keys
    Factor,   \* names of the factors an epoch may train
    Size,     \* number of elements of each
    Fine,     \* the resolution of reals
    R,        \* the ring
    Width,    \* 2^64: where int64 wraps
    Clip,     \* clip_norm, in 1/Fine quanta
    Slack,    \* bounds what rounding adds to the norm of one upload
    Delta,    \* what a member may have trained: [Factor -> Seq(Int)]
    Noise     \* what a pair may have expanded: vectors for all factors together

Half == R \div 2

Total(factors) == SumFunctionOnSet(Size, factors)

ASSUME OrderAssumption ==
    Key \subseteq Nat /\ IsFiniteSet(Key) /\ Factor \subseteq Nat /\ IsFiniteSet(Factor)
ASSUME SizeAssumption  == Size \in [Factor -> Nat] /\ Fine \in Nat \ {0}
ASSUME RingAssumption  ==
    R \in Nat \ {0} /\ R % 2 = 0 /\ Width \in Nat /\ Width % R = 0 /\ Width >= 2 * R
(* The members of a cohort agree on the shapes, and expand as much noise. *)
ASSUME ShapeAssumption ==
    /\ Delta \subseteq [Factor -> Seq(Int)]
    /\ \A d \in Delta : \A f \in Factor : Len(d[f]) = Size[f]
    /\ Noise \subseteq [1..Total(Factor) -> Int]
(* Half a quantum in every coordinate. *)
ASSUME SlackAssumption ==
    Clip \in Nat /\ Slack \in 0..Clip /\ 4 * Slack * Slack >= Fine * Fine * Total(Factor)

VARIABLES
    cohort,    \* the sealed peers
    trained,   \* the factors their uploads carry
    delta,     \* what each member trained
    noise,     \* what each pair expanded
    left,      \* the slots _module_sum has still to read
    acc        \* its accumulator, over the whole flat vector

vars == <<cohort, trained, delta, noise, left, acc>>

-----------------------------------------------------------------------------
(* The client: quantize and mask. *)

(* torch.cat over sorted(tensors): the largest key comes last. *)
Flattened(k) ==
    MapThenFoldSet(LAMBDA f, flat : flat \o delta[k][f], <<>>, LAMBDA f : f, Max, trained)

(* Variant: the fraction is cut off. *)
Truncated(x) == x \div Fine

(* torch.round: to the nearest, halves to the even one. *)
Rounded(x) ==
    LET below == x \div Fine
        rest  == 2 * (x % Fine)
    IN  IF rest < Fine \/ (rest = Fine /\ below % 2 = 0) THEN below ELSE below + 1

Quantized(k) ==
    LET flat == Flattened(k)
    IN  [c \in DOMAIN flat |-> Rounded(flat[c]) % R]

(* Variant: only the larger key adds the noise of a pair. *)
OneSided(k, peer) == IF k > peer THEN 1 ELSE 0

(* +1 for the larger key, -1 for the smaller. *)
Sign(k, peer) == IF k > peer THEN 1 ELSE -1

(* One coordinate of what a member uploads, under the given noise. *)
Masked(k, c, eps) ==
    LET AddPeer(peer, out) == (out + Sign(k, peer) * eps[{k, peer}][c]) % R
    IN  FoldSet(AddPeer, Quantized(k)[c], cohort \ {k})

-----------------------------------------------------------------------------
(* The server. *)

(* Two's complement. *)
Wrapped(x) == ((x + Width \div 2) % Width) - Width \div 2

(* A slot holds int64 numbers nobody checks: any representative of a residue. *)
Representative(x, turns) == Wrapped(x + turns * R)

(* Variant: every slice starts like the first. *)
NoOffset(f) == 0

(* Where a factor starts in the flat vector, by the sizes of those before it. *)
Offset(f) == Total({g \in trained : g < f})

(* Variant: neither reduced nor cut to 64 bits. *)
AddedUp(a, s) == a + s

Added(a, s) == Wrapped(a + s) % R

(* _module_sum's loop, for all factors at once: the first slot is taken as it
   is, the others are added.                                               *)
ReadSlot(k, turns) ==
    LET slot == [c \in 1..Total(trained) |-> Representative(Masked(k, c, noise), turns)]
    IN  /\ k \in left
        /\ acc' = IF acc = <<>> THEN slot ELSE [c \in DOMAIN acc |-> Added(acc[c], slot[c])]
        /\ left' = left \ {k}
        /\ UNCHANGED <<cohort, trained, delta, noise>>

(* dequantize: residues from R/2 on are negative. *)
Signed(x) == IF x >= Half THEN x - R ELSE x

(* What the fold is handed for one factor. *)
Summed(f) == [c \in 1..Size[f] |-> Signed(acc[Offset(f) + c] % R)]

Square(x) == x * x

SquareNorm(v) == SumFunction([c \in DOMAIN v |-> Square(v[c])])

(* Variant: the bound of a single upload. *)
BoundOfOne == Clip
NormBound == Clip * Cardinality(cohort)

(* _fold_streamed: the norm of all factors together, against the bound. *)
NormExceeded ==
    SumFunction([f \in trained |-> SquareNorm(Summed(f))]) * Square(Fine) > Square(NormBound)

-----------------------------------------------------------------------------
Pairs(keys) == {p \in SUBSET keys : Cardinality(p) = 2}

Init ==
    /\ cohort \in {keys \in SUBSET Key : Cardinality(keys) >= 2}
    /\ trained \in SUBSET Factor \ {{}}
    /\ delta \in [cohort -> Delta]
    /\ noise \in [Pairs(cohort) -> Noise]
    /\ left = cohort
    /\ acc = <<>>

(* The multiples of R that keep a residue inside int64, at its limits and zero. *)
Turns == {-(Width \div (2 * R)), 0, Width \div (2 * R) - 1}

Next == \E k \in Key, turns \in Turns : ReadSlot(k, turns)

SumSpec == Init /\ [][Next]_vars

-----------------------------------------------------------------------------
(* TypeOK: what is added up next never leaves int64. *)
TypeOK ==
    /\ left \subseteq cohort
    /\ acc \in Seq(-(Width \div 2)..(Width \div 2 - 1))
    /\ left # cohort => Len(acc) = Total(trained)

Done == left = {}

(* The sum over the members of one element of one factor, as reals and as the
   numbers they were rounded to.                                           *)
RealSum(f, c)  == SumFunction([k \in cohort |-> delta[k][f][c]])
ExactSum(f, c) == SumFunction([k \in cohort |-> Rounded(delta[k][f][c])])

InRing(f, c) == ExactSum(f, c) \in -Half..(Half - 1)

(* MasksCancel: over the whole cohort the masks cancel: every element of every
   factor is the sum of what its members rounded, in whatever order the slots
   are read and whatever int64 representatives they hold, as long as that sum
   is inside the ring.                                                     *)
MasksCancel ==
    Done => \A f \in trained : \A c \in 1..Size[f] :
                InRing(f, c) => Summed(f)[c] = ExactSum(f, c)

(* SumIsClose: what is folded is the sum of what was trained, up to half a
   quantum for each member.                                                *)
SumIsClose ==
    Done => \A f \in trained : \A c \in 1..Size[f] :
                InRing(f, c) =>
                    2 * Fine * Summed(f)[c] - 2 * RealSum(f, c)
                        \in -(Fine * Cardinality(cohort))..(Fine * Cardinality(cohort))

(* The square of the norm of the sum of what was trained. *)
RealNorm ==
    SumFunction([f \in trained |-> SquareNorm([c \in 1..Size[f] |-> RealSum(f, c)])])

(* NormTestIsClose: the norm the server measures, of rounded numbers it never
   saw apart, factor by factor, decides about the norm of the sum of what was
   trained, up to the rounding of each member: what is refused is not within
   the bound by more than that, and what exceeds it by more is refused
   (_fold_streamed, "commit iff within k*clip").                           *)
NormTestIsClose ==
    (Done /\ \A f \in trained : \A c \in 1..Size[f] : InRing(f, c)) =>
        /\ NormExceeded => RealNorm > Square(Cardinality(cohort) * (Clip - Slack))
        /\ RealNorm > Square(Cardinality(cohort) * (Clip + Slack)) => NormExceeded

(* PartHidesMembers: what is summed over a part of the cohort says nothing
   about its members: for every value some noise of the missing pairs leads
   to it.  This is why a cohort that is not whole must be voided and never
   summed.                                                                 *)
PartHidesMembers ==
    left \notin {{}, cohort} => \A c \in DOMAIN acc :
        \E in \in cohort \ left, out \in left :
            LET Eps(e) == [noise EXCEPT ![{in, out}][c] = e]
                PartSum(e) == SumFunction([k \in cohort \ left |-> Masked(k, c, Eps(e))]) % R
            IN  {PartSum(e) : e \in 0..(R - 1)} = 0..(R - 1)

-----------------------------------------------------------------------------
(* What a comment of the source promises and the code does not keep. *)

(* A member that clipped what it trained. *)
Clipped(k) == SumFunction([f \in trained |-> SquareNorm(delta[k][f])]) <= Square(Clip)

(* HonestIsFolded: a cohort whose members all clipped is never refused for its
   norm: aggregate.py _fold_streamed, "commit iff within k*clip. An honest
   clipped cohort always is (triangle ineq)".  They clip before they round.  *)
HonestIsFolded == (Done /\ \A k \in cohort : Clipped(k)) => ~NormExceeded
=============================================================================
