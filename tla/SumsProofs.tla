----------------------------- MODULE SumsProofs -----------------------------
(***************************************************************************)
(* What a sum over the values of a function becomes when one value         *)
(* changes, for any finite domain.                                         *)
(*                                                                         *)
(* SumFunction adds the values in an order that nothing is known of but    *)
(* that it is the same for two functions with one domain.  Each fact is    *)
(* shown by induction on the subsets of the domain; SubsetInduction says   *)
(* what induction is of the set of the subsets for which a fact holds, so  *)
(* that no operator has to be guessed where it is used.                    *)
(***************************************************************************)
EXTENDS Functions, FiniteSetTheorems, TLAPS

\* A set of subsets that has each one whose smaller ones it has, has all.
LEMMA SubsetInduction ==
    ASSUME NEW S, IsFiniteSet(S), NEW G \in SUBSET (SUBSET S),
           \A T \in SUBSET S : (\A U \in SUBSET T : U # T => U \in G) => T \in G
    PROVE  G = SUBSET S
<1> DEFINE R == StrictSubsetOrdering(S)
           B == (SUBSET S) \ G
<1>1. IsWellFoundedOn(R, FiniteSubsetsOf(S))
    BY FS_StrictSubsetOrderingWellFounded
<1>2. B \subseteq FiniteSubsetsOf(S)
    BY FS_FiniteSubsetsOfFinite
<1>3. ASSUME NEW T \in SUBSET S, NEW U \in SUBSET T, U # T PROVE <<U, T>> \in R
    BY <1>3 DEF StrictSubsetOrdering
<1>4. ASSUME B # {} PROVE \E T \in B : \A U \in B : ~(<<U, T>> \in R)
    <2> HIDE DEF R, B
    <2> QED
        BY <1>1, <1>2, <1>4, WFMin
<1>5. ASSUME NEW T \in B, \A U \in B : ~(<<U, T>> \in R) PROVE FALSE
    <2>1. ASSUME NEW U \in SUBSET T, U # T PROVE U \in G
        <3>1. <<U, T>> \in R /\ U \in SUBSET S
            BY <1>3, <2>1
        <3> HIDE DEF R
        <3> QED
            BY <1>5, <3>1
    <2> QED
        BY <2>1
<1>6. B = {}
    BY <1>4, <1>5
<1> QED
    BY <1>6

-----------------------------------------------------------------------------
(* The recursive function behind the sum exists.                           *)

First(T) == CHOOSE x \in T : TRUE

Sums(h, v, U) ==
    h = [T \in SUBSET U |-> IF T = {} THEN 0 ELSE v[First(T)] + h[T \ {First(T)}]]

LEMMA FirstIn == ASSUME NEW T, T # {} PROVE First(T) \in T
    BY DEF First

LEMMA SumsAt ==
    ASSUME NEW v, NEW U, NEW h, Sums(h, v, U)
    PROVE  /\ h[{}] = 0
           /\ \A T \in SUBSET U : T # {} =>
                First(T) \in T /\ h[T] = v[First(T)] + h[T \ {First(T)}]
<1>1. ASSUME NEW T \in SUBSET U
      PROVE  h[T] = IF T = {} THEN 0 ELSE v[First(T)] + h[T \ {First(T)}]
    BY Zenon DEF Sums
<1>2. {} \in SUBSET U
    OBVIOUS
<1> QED
    BY <1>1, <1>2, FirstIn

\* Two such functions agree where both are defined.
LEMMA SumsUnique ==
    ASSUME NEW v, NEW U, NEW W \in SUBSET U, IsFiniteSet(W),
           NEW h, NEW k, Sums(h, v, U), Sums(k, v, W)
    PROVE  h[W] = k[W]
<1> DEFINE G == {T \in SUBSET W : h[T] = k[T]}
<1>1. ASSUME NEW T \in SUBSET W, \A V \in SUBSET T : V # T => V \in G
      PROVE  T \in G
    <2>1. CASE T = {}
        BY <2>1, SumsAt
    <2>2. CASE T # {}
        <3> DEFINE x == First(T)
        <3>1. T \in SUBSET U
            OBVIOUS
        <3>2. h[T] = v[x] + h[T \ {x}]
            BY <2>2, <3>1, SumsAt
        <3>3. x \in T /\ k[T] = v[x] + k[T \ {x}]
            BY <2>2, SumsAt
        <3> HIDE DEF x
        <3>4. T \ {x} \in G
            BY <1>1, <3>3
        <3> QED
            BY <3>2, <3>3, <3>4
    <2> QED
        BY <2>1, <2>2
<1>2. G \in SUBSET (SUBSET W)
    OBVIOUS
<1> HIDE DEF G
<1>3. G = SUBSET W
    BY <1>1, <1>2, SubsetInduction
<1> QED
    BY <1>3 DEF G

LEMMA SumsExist ==
    ASSUME NEW v, NEW S, IsFiniteSet(S)
    PROVE  \E h : Sums(h, v, S)
<1> DEFINE G == {U \in SUBSET S : \E h : Sums(h, v, U)}
           H(V) == CHOOSE h : Sums(h, v, V)
<1>1. ASSUME NEW U \in SUBSET S, \A V \in SUBSET U : V # U => V \in G
      PROVE  \E h : Sums(h, v, U)
    <2> DEFINE k == [T \in SUBSET U |->
                        IF T = {} THEN 0 ELSE v[First(T)] + H(T \ {First(T)})[T \ {First(T)}]]
    <2>1. ASSUME NEW V \in SUBSET U, V # U PROVE Sums(H(V), v, V) /\ IsFiniteSet(V)
        <3>1. \E h : Sums(h, v, V)
            BY <1>1, <2>1
        <3> QED
            BY <3>1, FS_Subset
    <2>2. ASSUME NEW V \in SUBSET U
          PROVE  /\ V = {} => k[V] = 0
                 /\ V # {} => k[V] = v[First(V)] + H(V \ {First(V)})[V \ {First(V)}]
        OBVIOUS
    <2>3. k = [T \in SUBSET U |->
                  IF T = {} THEN 0 ELSE v[First(T)] + H(T \ {First(T)})[T \ {First(T)}]]
        OBVIOUS
    <2> HIDE DEF H, k
    <2>4. ASSUME NEW V \in SUBSET U, V # U PROVE k[V] = H(V)[V]
        <3>1. Sums(H(V), v, V) /\ IsFiniteSet(V)
            BY <2>1, <2>4
        <3>2. CASE V = {}
            BY <2>2, <3>1, <3>2, SumsAt
        <3>3. CASE V # {}
            <4> DEFINE y == First(V)
            <4>1. y \in V /\ H(V)[V] = v[y] + H(V)[V \ {y}] /\ V \ {y} \in SUBSET V
                BY <3>1, <3>3, SumsAt
            <4>2. k[V] = v[y] + H(V \ {y})[V \ {y}]
                BY <2>2, <3>3
            <4> HIDE DEF y
            <4>3. Sums(H(V \ {y}), v, V \ {y}) /\ IsFiniteSet(V \ {y})
                BY <2>1, <4>1
            <4>4. H(V)[V \ {y}] = H(V \ {y})[V \ {y}]
                BY <3>1, <4>1, <4>3, SumsUnique
            <4> QED
                BY <4>1, <4>2, <4>4
        <3> QED
            BY <3>2, <3>3
    <2>5. ASSUME NEW T \in SUBSET U, T # {}
          PROVE  H(T \ {First(T)})[T \ {First(T)}] = k[T \ {First(T)}]
        BY <2>4, <2>5, FirstIn
    <2>6. k = [T \in SUBSET U |-> IF T = {} THEN 0 ELSE v[First(T)] + k[T \ {First(T)}]]
        BY <2>3, <2>5
    <2> QED
        BY <2>6 DEF Sums
<1>2. \A U \in SUBSET S : (\A V \in SUBSET U : V # U => V \in G) => U \in G
    BY <1>1
<1>3. G \in SUBSET (SUBSET S)
    OBVIOUS
<1> HIDE DEF G
<1>4. G = SUBSET S
    BY <1>2, <1>3, SubsetInduction
<1> QED
    BY <1>4 DEF G

\* What a proof by induction needs of such a function, and that the sum is one.
SumsTo(h, v, S) ==
    /\ SumFunctionOnSet(v, S) = h[S]
    /\ h[{}] = 0
    /\ \A T \in SUBSET S : T # {} =>
          First(T) \in T /\ h[T] = v[First(T)] + h[T \ {First(T)}]

LEMMA SumIsSums == ASSUME NEW v, NEW S, IsFiniteSet(S) PROVE \E h : SumsTo(h, v, S)
<1> DEFINE h == CHOOSE h : Sums(h, v, S)
<1>1. Sums(h, v, S)
    BY SumsExist
<1>2. SumFunctionOnSet(v, S) = h[S]
    BY DEF SumFunctionOnSet, FoldFunctionOnSet, MapThenFoldSet, Sums, First
<1> HIDE DEF h
<1>3. /\ h[{}] = 0
      /\ \A T \in SUBSET S : T # {} =>
            First(T) \in T /\ h[T] = v[First(T)] + h[T \ {First(T)}]
    BY <1>1, SumsAt
<1> QED
    BY <1>2, <1>3 DEF SumsTo

-----------------------------------------------------------------------------
(* What the proofs about sums of money need.                               *)

\* A sum of whole numbers is a whole number.
LEMMA SumInt ==
    ASSUME NEW S, IsFiniteSet(S), NEW v \in [S -> Int]
    PROVE  SumFunction(v) \in Int
<1>1. PICK h : SumsTo(h, v, S)
    BY SumIsSums
<1> DEFINE G == {T \in SUBSET S : h[T] \in Int}
<1>2. ASSUME NEW T \in SUBSET S, \A V \in SUBSET T : V # T => V \in G
      PROVE  T \in G
    <2>1. CASE T = {}
        BY <1>1, <2>1 DEF SumsTo
    <2>2. CASE T # {}
        <3> DEFINE x == First(T)
        <3>1. x \in T /\ h[T] = v[x] + h[T \ {x}]
            BY <1>1, <2>2 DEF SumsTo
        <3> HIDE DEF x
        <3>2. T \ {x} \in G /\ v[x] \in Int
            BY <1>2, <3>1
        <3> QED
            BY <3>1, <3>2
    <2> QED
        BY <2>1, <2>2
<1>3. G \in SUBSET (SUBSET S)
    OBVIOUS
<1> HIDE DEF G
<1>4. G = SUBSET S
    BY <1>2, <1>3, SubsetInduction
<1> QED
    BY <1>1, <1>4 DEF SumsTo, SumFunction, G

\* Nothing adds up to nothing.
LEMMA SumZero ==
    ASSUME NEW S, IsFiniteSet(S)
    PROVE  SumFunction([x \in S |-> 0]) = 0
<1> DEFINE v == [x \in S |-> 0]
<1>1. PICK h : SumsTo(h, v, S)
    BY SumIsSums
<1>2. DOMAIN v = S /\ \A x \in S : v[x] = 0
    OBVIOUS
<1> HIDE DEF v
<1> DEFINE G == {T \in SUBSET S : h[T] = 0}
<1>3. ASSUME NEW T \in SUBSET S, \A V \in SUBSET T : V # T => V \in G
      PROVE  T \in G
    <2>1. CASE T = {}
        BY <1>1, <2>1 DEF SumsTo
    <2>2. CASE T # {}
        <3> DEFINE x == First(T)
        <3>1. x \in T /\ h[T] = v[x] + h[T \ {x}]
            BY <1>1, <2>2 DEF SumsTo
        <3> HIDE DEF x
        <3>2. T \ {x} \in G /\ v[x] = 0
            BY <1>2, <1>3, <3>1
        <3> QED
            BY <3>1, <3>2
    <2> QED
        BY <2>1, <2>2
<1>4. G \in SUBSET (SUBSET S)
    OBVIOUS
<1> HIDE DEF G
<1>5. G = SUBSET S
    BY <1>3, <1>4, SubsetInduction
<1>6. SumFunction(v) = 0
    BY <1>1, <1>2, <1>5 DEF SumsTo, SumFunction, G
<1> QED
    BY <1>6 DEF v

\* The sum moves by what one value moves.
LEMMA SumMoves ==
    ASSUME NEW S, IsFiniteSet(S), NEW v \in [S -> Int], NEW w \in [S -> Int],
           NEW x \in S, \A y \in S \ {x} : w[y] = v[y]
    PROVE  SumFunction(w) = SumFunction(v) + (w[x] - v[x])
<1>1. PICK h : SumsTo(h, v, S)
    BY SumIsSums
<1>2. PICK k : SumsTo(k, w, S)
    BY SumIsSums
<1> DEFINE G == {T \in SUBSET S :
                    /\ h[T] \in Int
                    /\ k[T] = h[T] + (IF x \in T THEN w[x] - v[x] ELSE 0)}
<1>3. ASSUME NEW T \in SUBSET S, \A V \in SUBSET T : V # T => V \in G
      PROVE  T \in G
    <2>1. CASE T = {}
        BY <1>1, <1>2, <2>1 DEF SumsTo
    <2>2. CASE T # {}
        <3>1. PICK y \in T : h[T] = v[y] + h[T \ {y}] /\ k[T] = w[y] + k[T \ {y}]
            BY <1>1, <1>2, <2>2 DEF SumsTo
        <3>2. T \ {y} \in G
            BY <1>3, <3>1
        <3>3. v[y] \in Int /\ w[y] \in Int /\ v[x] \in Int /\ w[x] \in Int
            BY <3>1
        <3>4. CASE y = x
            BY <3>1, <3>2, <3>3, <3>4
        <3>5. CASE y # x
            <4>1. w[y] = v[y]
                BY <3>1, <3>5
            <4> QED
                BY <3>1, <3>2, <3>3, <3>5, <4>1
        <3> QED
            BY <3>4, <3>5
    <2> QED
        BY <2>1, <2>2
<1>4. G \in SUBSET (SUBSET S)
    OBVIOUS
<1> HIDE DEF G
<1>5. G = SUBSET S
    BY <1>3, <1>4, SubsetInduction
<1>6. k[S] = h[S] + (w[x] - v[x])
    BY <1>5 DEF G
<1> QED
    BY <1>1, <1>2, <1>6 DEF SumsTo, SumFunction
=============================================================================
