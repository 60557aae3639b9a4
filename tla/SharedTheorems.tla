---------------------------- MODULE SharedTheorems ----------------------------
(***************************************************************************)
(* What the proofs of several components rest on: the sums that the models *)
(* take over finite sets and sequences, and the theorem about ranks that   *)
(* makes pruning sound.                                                    *)
(*                                                                         *)
(* SumFunction is a recursive function on the subsets of a domain.  That   *)
(* there is such a function, and what its values are, is proved by         *)
(* induction over finite sets, in a form that speaks of a set of subsets   *)
(* instead of a predicate: if T contains every subset whose smaller ones   *)
(* are all in T, then T contains every subset.                             *)
(***************************************************************************)
EXTENDS RankPruning, Sequences, FiniteSetsExt, Functions,
        FiniteSetTheorems, WellFoundedInduction, TLAPS

\* A nonempty set of natural numbers has a smallest element.
LEMMA SmallestNat ==
    ASSUME NEW T, T \subseteq Nat, T # {}
    PROVE  \E n \in T : \A m \in T : n <= m
<1> DEFINE R == OpToRel(<, Nat)
<1>1. IsWellFoundedOn(R, Nat)
  BY NatLessThanWellFounded
<1>2. PICK n \in T : \A m \in T : ~(<<m, n>> \in R)
  BY <1>1, WFMin
<1>3. \A m \in T : <<m, n>> \in R <=> m < n
  BY DEF OpToRel
<1>4. n \in Nat /\ \A m \in T : m \in Nat
  OBVIOUS
<1>5. \A m \in T : ~(m < n)
  BY <1>2, <1>3
<1>6. \A m \in T : n <= m
  BY <1>4, <1>5
<1> QED
  BY <1>6

\* The element that the sums take first.
Pick(A) == CHOOSE x \in A : TRUE

\* It is an element, and without it the set is smaller.
LEMMA PickProps ==
    ASSUME NEW A, A # {}
    PROVE  /\ Pick(A) \in A
           /\ IsFiniteSet(A) =>
                /\ Cardinality(A) \in Nat
                /\ IsFiniteSet(A \ {Pick(A)})
                /\ Cardinality(A \ {Pick(A)}) = Cardinality(A) - 1
<1>1. Pick(A) \in A
  BY DEF Pick
<1> QED
  BY <1>1, FS_RemoveElement, FS_CardinalityType

\* Induction over the subsets of a finite set, by their size.
LEMMA SubsetInduction ==
    ASSUME NEW S, IsFiniteSet(S), NEW T,
           \A A \in SUBSET S :
              (\A B \in SUBSET S : Cardinality(B) < Cardinality(A) => B \in T)
                 => A \in T
    PROVE  SUBSET S \subseteq T
<1> SUFFICES ASSUME NEW C \in SUBSET S, C \notin T PROVE FALSE
  OBVIOUS
<1>1. \A A \in SUBSET S : Cardinality(A) \in Nat
  BY FS_Subset, FS_CardinalityType
<1> DEFINE Sizes == {Cardinality(A) : A \in (SUBSET S) \ T}
<1>2. Sizes \subseteq Nat /\ Sizes # {}
  BY <1>1
<1>3. PICK n \in Sizes : \A m \in Sizes : n <= m
  BY <1>2, SmallestNat
<1>4. PICK A \in (SUBSET S) \ T : n = Cardinality(A)
  BY <1>3
<1>5. ASSUME NEW B \in SUBSET S, Cardinality(B) < Cardinality(A) PROVE B \in T
  <2> SUFFICES ASSUME B \notin T PROVE FALSE
    OBVIOUS
  <2>1. Cardinality(B) \in Sizes
    OBVIOUS
  <2> HIDE DEF Sizes
  <2>2. n <= Cardinality(B) /\ Cardinality(B) \in Nat /\ n \in Nat
    BY <1>1, <1>2, <1>3, <2>1
  <2> QED
    BY <1>4, <1>5, <2>2
<1> QED
  BY <1>4, <1>5

-----------------------------------------------------------------------------
(***************************************************************************)
(* SumOf(g, f, S): g[A] is the sum of f over A, for all A \subseteq S.     *)
(***************************************************************************)
SumOf(g, f, S) ==
    g = [A \in SUBSET S |->
            IF A = {} THEN 0 ELSE f[Pick(A)] + g[A \ {Pick(A)}]]

\* The recursion, one subset at a time.
LEMMA SumStep ==
    ASSUME NEW g, NEW f, NEW S, SumOf(g, f, S)
    PROVE  /\ g[{}] = 0
           /\ \A A \in SUBSET S :
                 A # {} => g[A] = f[Pick(A)] + g[A \ {Pick(A)}]
<1>1. \A A \in SUBSET S :
         g[A] = IF A = {} THEN 0 ELSE f[Pick(A)] + g[A \ {Pick(A)}]
  BY DEF SumOf
<1>2. {} \in SUBSET S
  OBVIOUS
<1> QED
  BY <1>1, <1>2

\* There is such a function: it is built for the subsets of at most n elements.
LEMMA SumExists ==
    ASSUME NEW f, NEW S, IsFiniteSet(S)
    PROVE  \E g : SumOf(g, f, S)
<1> DEFINE Small(n) == {A \in SUBSET S : Cardinality(A) <= n}
           Body(g, A) == IF A = {} THEN 0 ELSE f[Pick(A)] + g[A \ {Pick(A)}]
           Good(g, n) == \A A \in Small(n) : g[A] = Body(g, A)
           Bad == {n \in Nat : ~ \E g : Good(g, n)}
<1>1. \A A \in SUBSET S : IsFiniteSet(A) /\ Cardinality(A) \in Nat
                           /\ (Cardinality(A) = 0 <=> A = {})
  BY FS_Subset, FS_CardinalityType, FS_EmptySet
<1>2. 0 \notin Bad
  <2>1. Good([A \in {{}} |-> 0], 0)
    BY <1>1
  <2> QED
    BY <2>1
<1>3. ASSUME NEW n \in Nat, NEW g, Good(g, n) PROVE \E h : Good(h, n + 1)
  <2> DEFINE h == [A \in SUBSET S |-> IF A \in Small(n) THEN g[A] ELSE Body(g, A)]
  <2>1. ASSUME NEW A \in Small(n + 1) PROVE h[A] = Body(h, A)
    <3>1. CASE A = {}
      BY <1>1, <1>3, <3>1
    <3>2. CASE A # {}
      <4>1. Pick(A) \in A /\ A \ {Pick(A)} \in SUBSET S
            /\ Cardinality(A \ {Pick(A)}) = Cardinality(A) - 1
        BY <1>1, <3>2, PickProps
      <4>2. A \ {Pick(A)} \in Small(n)
        BY <1>1, <4>1
      <4>3. h[A \ {Pick(A)}] = g[A \ {Pick(A)}]
        BY <4>1, <4>2
      <4>4. h[A] = Body(g, A)
        BY <1>3
      <4> QED
        BY <4>3, <4>4, <3>2
    <3> QED
      BY <3>1, <3>2
  <2>2. Good(h, n + 1)
    BY <2>1
  <2> QED
    BY <2>2
<1>4. Bad = {}
  <2> SUFFICES ASSUME Bad # {} PROVE FALSE
    OBVIOUS
  <2>1. PICK n \in Bad : \A m \in Bad : n <= m
    <3>1. Bad \subseteq Nat
      OBVIOUS
    <3> HIDE DEF Bad
    <3> QED
      BY <3>1, SmallestNat
  <2>2. n \in Nat /\ n # 0 /\ n - 1 \in Nat /\ n - 1 \notin Bad /\ (n - 1) + 1 = n
    <3>1. n \in Nat /\ n # 0
      BY <1>2
    <3> HIDE DEF Bad
    <3> QED
      BY <2>1, <3>1
  <2>3. PICK g : Good(g, n - 1)
    BY <2>2
  <2>4. \E h : Good(h, (n - 1) + 1)
    <3> HIDE DEF Good
    <3> QED
      BY <1>3, <2>2, <2>3
  <2>5. \E h : Good(h, n)
    BY ZenonT(60), <2>2, <2>4
  <2> QED
    BY <2>5
<1>5. Cardinality(S) \in Nat
  BY <1>1
<1>6. PICK g : Good(g, Cardinality(S))
  BY <1>4, <1>5
<1>7. \A A \in SUBSET S : A \in Small(Cardinality(S))
  BY FS_Subset
<1> DEFINE h == [A \in SUBSET S |-> g[A]]
<1>8. ASSUME NEW A \in SUBSET S PROVE h[A] = Body(h, A)
  <2>1. g[A] = Body(g, A)
    BY <1>6, <1>7
  <2>2. A # {} => h[A \ {Pick(A)}] = g[A \ {Pick(A)}]
    OBVIOUS
  <2> QED
    BY <2>1, <2>2
<1>9. h = [A \in SUBSET S |-> Body(h, A)]
  BY <1>8
<1>10. SumOf(h, f, S)
  BY <1>9 DEF SumOf
<1> QED
  BY <1>10

-----------------------------------------------------------------------------
(***************************************************************************)
(* What sums are.                                                          *)
(***************************************************************************)
\* The subsets that are left in a step of the recursion.
LEMMA Rest ==
    ASSUME NEW S, IsFiniteSet(S), NEW A \in SUBSET S, A # {}
    PROVE  /\ Pick(A) \in A /\ Pick(A) \in S
           /\ A \ {Pick(A)} \in SUBSET S
           /\ Cardinality(A \ {Pick(A)}) < Cardinality(A)
<1>1. IsFiniteSet(A)
  BY FS_Subset
<1>2. /\ Pick(A) \in A /\ Cardinality(A) \in Nat
      /\ Cardinality(A \ {Pick(A)}) = Cardinality(A) - 1
  BY <1>1, PickProps
<1> QED
  BY <1>2

\* Sums of integers are integers, sums of natural numbers natural numbers.
LEMMA SumType ==
    ASSUME NEW S, IsFiniteSet(S), NEW f, NEW g, SumOf(g, f, S),
           \A x \in S : f[x] \in Int
    PROVE  \A A \in SUBSET S : /\ g[A] \in Int
                               /\ (\A x \in A : f[x] >= 0) => g[A] \in Nat
<1>s. /\ g[{}] = 0
      /\ \A A \in SUBSET S : A # {} => g[A] = f[Pick(A)] + g[A \ {Pick(A)}]
  BY SumStep
<1> DEFINE P(A) == /\ g[A] \in Int
                   /\ (\A x \in A : f[x] >= 0) => g[A] \in Nat
           T == {A \in SUBSET S : P(A)}
<1>1. ASSUME NEW A \in SUBSET S,
             \A B \in SUBSET S : Cardinality(B) < Cardinality(A) => B \in T
      PROVE  A \in T
  <2>1. CASE A = {}
    BY <2>1, <1>s
  <2>2. CASE A # {}
    <3>1. /\ Pick(A) \in A /\ Pick(A) \in S /\ P(A \ {Pick(A)})
      BY <1>1, <2>2, Rest
    <3>2. g[A] = f[Pick(A)] + g[A \ {Pick(A)}]
      BY <2>2, <1>s
    <3> QED
      BY <3>1, <3>2
  <2> QED
    BY <2>1, <2>2
<1> HIDE DEF T
<1>2. SUBSET S \subseteq T
  BY <1>1, SubsetInduction
<1> QED
  BY <1>2 DEF T

\* The sum does not depend on the set that the function is defined on, nor on
\* the values outside of the set that is summed over.
LEMMA SumAgree ==
    ASSUME NEW S, IsFiniteSet(S), NEW f, NEW g, SumOf(g, f, S),
           NEW R, NEW k, NEW h, SumOf(h, k, R), S \subseteq R,
           \A x \in S : f[x] = k[x]
    PROVE  \A A \in SUBSET S : g[A] = h[A]
<1>s. /\ g[{}] = 0
      /\ \A A \in SUBSET S : A # {} => g[A] = f[Pick(A)] + g[A \ {Pick(A)}]
  BY SumStep
<1>t. /\ h[{}] = 0
      /\ \A A \in SUBSET R : A # {} => h[A] = k[Pick(A)] + h[A \ {Pick(A)}]
  BY SumStep
<1> DEFINE T == {A \in SUBSET S : g[A] = h[A]}
<1>1. ASSUME NEW A \in SUBSET S,
             \A B \in SUBSET S : Cardinality(B) < Cardinality(A) => B \in T
      PROVE  A \in T
  <2>0. A \in SUBSET R
    OBVIOUS
  <2>1. CASE A = {}
    BY <2>0, <2>1, <1>s, <1>t
  <2>2. CASE A # {}
    <3>1. /\ Pick(A) \in S /\ g[A \ {Pick(A)}] = h[A \ {Pick(A)}]
      BY <1>1, <2>2, Rest
    <3>2. g[A] = f[Pick(A)] + g[A \ {Pick(A)}]
      BY <2>2, <1>s
    <3>3. h[A] = k[Pick(A)] + h[A \ {Pick(A)}]
      BY <2>0, <2>2, <1>t
    <3> QED
      BY <3>1, <3>2, <3>3
  <2> QED
    BY <2>1, <2>2
<1> HIDE DEF T
<1>2. SUBSET S \subseteq T
  BY <1>1, SubsetInduction
<1> QED
  BY <1>2 DEF T

\* A sum of larger numbers is larger.
LEMMA SumMonotone ==
    ASSUME NEW S, IsFiniteSet(S), NEW f, NEW g, SumOf(g, f, S),
           NEW k, NEW h, SumOf(h, k, S),
           \A x \in S : f[x] \in Int /\ k[x] \in Int /\ f[x] <= k[x]
    PROVE  \A A \in SUBSET S : g[A] <= h[A]
<1>s. /\ g[{}] = 0
      /\ \A A \in SUBSET S : A # {} => g[A] = f[Pick(A)] + g[A \ {Pick(A)}]
  BY SumStep
<1>t. /\ h[{}] = 0
      /\ \A A \in SUBSET S : A # {} => h[A] = k[Pick(A)] + h[A \ {Pick(A)}]
  BY SumStep
<1> DEFINE T == {A \in SUBSET S : g[A] <= h[A]}
<1>0. \A A \in SUBSET S : g[A] \in Int /\ h[A] \in Int
  BY SumType
<1>1. ASSUME NEW A \in SUBSET S,
             \A B \in SUBSET S : Cardinality(B) < Cardinality(A) => B \in T
      PROVE  A \in T
  <2>1. CASE A = {}
    BY <2>1, <1>s, <1>t
  <2>2. CASE A # {}
    <3>1. /\ Pick(A) \in S /\ A \ {Pick(A)} \in SUBSET S
          /\ g[A \ {Pick(A)}] <= h[A \ {Pick(A)}]
      BY <1>1, <2>2, Rest
    <3>2. g[A] = f[Pick(A)] + g[A \ {Pick(A)}]
      BY <2>2, <1>s
    <3>3. h[A] = k[Pick(A)] + h[A \ {Pick(A)}]
      BY <2>2, <1>t
    <3> QED
      BY <1>0, <3>1, <3>2, <3>3
  <2> QED
    BY <2>1, <2>2
<1> HIDE DEF T
<1>2. SUBSET S \subseteq T
  BY <1>1, SubsetInduction
<1> QED
  BY <1>2 DEF T

\* Where one value differs, the sums differ by as much.
LEMMA SumUpdate ==
    ASSUME NEW S, IsFiniteSet(S), NEW f, NEW g, SumOf(g, f, S),
           NEW k, NEW h, SumOf(h, k, S), NEW s \in S,
           \A x \in S : f[x] \in Int /\ k[x] \in Int,
           \A x \in S \ {s} : f[x] = k[x]
    PROVE  h[S] = g[S] + (k[s] - f[s])
<1>s. /\ g[{}] = 0
      /\ \A A \in SUBSET S : A # {} => g[A] = f[Pick(A)] + g[A \ {Pick(A)}]
  BY ZenonT(60), SumStep
<1>t. /\ h[{}] = 0
      /\ \A A \in SUBSET S : A # {} => h[A] = k[Pick(A)] + h[A \ {Pick(A)}]
  BY ZenonT(60), SumStep
<1> DEFINE P(A) == h[A] = g[A] + (IF s \in A THEN k[s] - f[s] ELSE 0)
           T == {A \in SUBSET S : P(A)}
<1>0. \A A \in SUBSET S : g[A] \in Int /\ h[A] \in Int
  BY SumType
<1>1. ASSUME NEW A \in SUBSET S,
             \A B \in SUBSET S : Cardinality(B) < Cardinality(A) => B \in T
      PROVE  A \in T
  <2>1. CASE A = {}
    BY <2>1, <1>s, <1>t
  <2>2. CASE A # {}
    <3>1. /\ Pick(A) \in A /\ Pick(A) \in S /\ A \ {Pick(A)} \in SUBSET S
          /\ P(A \ {Pick(A)})
      BY <1>1, <2>2, Rest
    <3>2. g[A] = f[Pick(A)] + g[A \ {Pick(A)}]
      BY <2>2, <1>s
    <3>3. h[A] = k[Pick(A)] + h[A \ {Pick(A)}]
      BY <2>2, <1>s, <1>t
    <3>4. CASE Pick(A) = s
      BY <1>0, <3>1, <3>2, <3>3, <3>4
    <3>5. CASE Pick(A) # s
      BY <1>0, <3>1, <3>2, <3>3, <3>5
    <3> QED
      BY <3>4, <3>5
  <2> QED
    BY <2>1, <2>2
<1> HIDE DEF T
<1>2. SUBSET S \subseteq T
  BY <1>1, SubsetInduction
<1> QED
  BY <1>2 DEF T

\* The order does not matter: any element can be taken first.
LEMMA SumAdd ==
    ASSUME NEW S, IsFiniteSet(S), NEW f, NEW g, SumOf(g, f, S),
           \A x \in S : f[x] \in Int, NEW s \in S
    PROVE  g[S] = f[s] + g[S \ {s}]
<1>s. /\ g[{}] = 0
      /\ \A A \in SUBSET S : A # {} => g[A] = f[Pick(A)] + g[A \ {Pick(A)}]
  BY SumStep
<1> DEFINE P(A) == \A x \in A : g[A] = f[x] + g[A \ {x}]
           T == {A \in SUBSET S : P(A)}
<1>0. \A A \in SUBSET S : g[A] \in Int
  BY SumType
<1>1. ASSUME NEW A \in SUBSET S,
             \A B \in SUBSET S : Cardinality(B) < Cardinality(A) => B \in T
      PROVE  A \in T
  <2> SUFFICES ASSUME NEW x \in A PROVE g[A] = f[x] + g[A \ {x}]
    OBVIOUS
  <2> DEFINE p == Pick(A)
  <2>1. p \in A /\ p \in S /\ A \ {p} \in SUBSET S /\ P(A \ {p})
    BY <1>1, Rest
  <2>2. g[A] = f[p] + g[A \ {p}]
    BY <1>s
  <2>3. CASE x = p
    BY <2>2, <2>3
  <2>4. CASE x # p
    <3>1. g[A \ {p}] = f[x] + g[(A \ {p}) \ {x}]
      BY <2>1, <2>4
    <3>2. P(A \ {x})
      <4>1. Cardinality(A \ {x}) < Cardinality(A)
        BY FS_Subset, FS_RemoveElement, FS_CardinalityType
      <4> QED
        BY <1>1, <4>1
    <3>3. g[A \ {x}] = f[p] + g[(A \ {x}) \ {p}]
      BY <2>1, <2>4, <3>2
    <3>4. (A \ {x}) \ {p} = (A \ {p}) \ {x}
      OBVIOUS
    <3>5. /\ g[A] \in Int /\ g[A \ {p}] \in Int /\ g[A \ {x}] \in Int
          /\ g[(A \ {p}) \ {x}] \in Int /\ f[x] \in Int /\ f[p] \in Int
      BY <1>0, <2>1
    <3>6. f[p] + (f[x] + g[(A \ {p}) \ {x}]) = f[x] + (f[p] + g[(A \ {p}) \ {x}])
      <4> HIDE DEF p
      <4> QED
        BY <3>5
    <3> QED
      BY Zenon, <2>2, <3>1, <3>3, <3>4, <3>6
  <2> QED
    BY <2>3, <2>4
<1> HIDE DEF T
<1>2. SUBSET S \subseteq T
  BY <1>1, SubsetInduction
<1> QED
  BY <1>2 DEF T

\* A sum of zeros is zero.
LEMMA SumZero ==
    ASSUME NEW S, IsFiniteSet(S), NEW f, NEW g, SumOf(g, f, S),
           \A x \in S : f[x] = 0
    PROVE  g[S] = 0
<1>s. /\ g[{}] = 0
      /\ \A A \in SUBSET S : A # {} => g[A] = f[Pick(A)] + g[A \ {Pick(A)}]
  BY SumStep
<1> DEFINE T == {A \in SUBSET S : g[A] = 0}
<1>1. ASSUME NEW A \in SUBSET S,
             \A B \in SUBSET S : Cardinality(B) < Cardinality(A) => B \in T
      PROVE  A \in T
  <2>1. CASE A = {}
    BY <2>1, <1>s
  <2>2. CASE A # {}
    <3>1. Pick(A) \in S /\ g[A \ {Pick(A)}] = 0
      BY <1>1, <2>2, Rest
    <3>2. g[A] = f[Pick(A)] + g[A \ {Pick(A)}]
      BY <2>2, <1>s
    <3> QED
      BY <3>1, <3>2
  <2> QED
    BY <2>1, <2>2
<1> HIDE DEF T
<1>2. SUBSET S \subseteq T
  BY <1>1, SubsetInduction
<1> QED
  BY <1>2 DEF T

-----------------------------------------------------------------------------
(***************************************************************************)
(* SumFunction, of a function with a finite domain.                        *)
(***************************************************************************)
\* It is the value of such a recursive function.
LEMMA SumFunctionIsSum ==
    ASSUME NEW S, IsFiniteSet(S), NEW f, DOMAIN f = S
    PROVE  \E g : SumOf(g, f, S) /\ SumFunction(f) = g[S]
<1> DEFINE g == CHOOSE g : SumOf(g, f, S)
<1>1. SumOf(g, f, S)
  BY SumExists
<1>2. SumFunction(f) = g[DOMAIN f]
  BY DEF SumFunction, SumFunctionOnSet, FoldFunctionOnSet, MapThenFoldSet,
         SumOf, Pick
<1> QED
  BY <1>1, <1>2

\* Its type.
LEMMA SumFunctionType ==
    ASSUME NEW S, IsFiniteSet(S), NEW f \in [S -> Int]
    PROVE  /\ SumFunction(f) \in Int
           /\ (\A x \in S : f[x] >= 0) => SumFunction(f) \in Nat
<1>1. PICK g : SumOf(g, f, S) /\ SumFunction(f) = g[S]
  BY SumFunctionIsSum
<1>2. S \in SUBSET S /\ \A x \in S : f[x] \in Int
  OBVIOUS
<1> QED
  BY <1>1, <1>2, SumType

\* An assignment to one place changes the sum by the difference.
LEMMA SumFunctionUpdate ==
    ASSUME NEW S, IsFiniteSet(S), NEW f \in [S -> Int], NEW s \in S,
           NEW v \in Int
    PROVE  SumFunction([f EXCEPT ![s] = v]) = SumFunction(f) + (v - f[s])
<1> DEFINE k == [f EXCEPT ![s] = v]
<1>0. /\ k \in [S -> Int] /\ k[s] = v
      /\ \A x \in S \ {s} : f[x] = k[x]
      /\ \A x \in S : f[x] \in Int /\ k[x] \in Int
  OBVIOUS
<1> HIDE DEF k
<1>1. PICK g : SumOf(g, f, S) /\ SumFunction(f) = g[S]
  BY SumFunctionIsSum
<1>2. PICK h : SumOf(h, k, S) /\ SumFunction(k) = h[S]
  BY <1>0, SumFunctionIsSum
<1>3. h[S] = g[S] + (k[s] - f[s])
  BY <1>0, <1>1, <1>2, SumUpdate
<1>4. SumFunction(k) = SumFunction(f) + (v - f[s])
  BY <1>0, <1>1, <1>2, <1>3
<1> QED
  BY <1>4 DEF k

\* Larger functions have larger sums.
LEMMA SumFunctionMonotone ==
    ASSUME NEW S, IsFiniteSet(S), NEW f \in [S -> Int], NEW k \in [S -> Int],
           \A x \in S : f[x] <= k[x]
    PROVE  SumFunction(f) <= SumFunction(k)
<1>1. PICK g : SumOf(g, f, S) /\ SumFunction(f) = g[S]
  BY SumFunctionIsSum
<1>2. PICK h : SumOf(h, k, S) /\ SumFunction(k) = h[S]
  BY SumFunctionIsSum
<1>3. \A A \in SUBSET S : g[A] <= h[A]
  BY <1>1, <1>2, SumMonotone
<1> QED
  BY <1>1, <1>2, <1>3

\* The function that is zero everywhere has the sum zero.
LEMMA SumFunctionZero ==
    ASSUME NEW S, IsFiniteSet(S), NEW f, DOMAIN f = S, \A x \in S : f[x] = 0
    PROVE  SumFunction(f) = 0
  BY SumFunctionIsSum, SumZero

\* The sum of a sequence grows by what is appended.
LEMMA SumFunctionAppend ==
    ASSUME NEW s \in Seq(Int), NEW v \in Int
    PROVE  SumFunction(Append(s, v)) = SumFunction(s) + v
<1> DEFINE k == Append(s, v)
           n == Len(s)
           D == 1 .. n
           E == 1 .. (n + 1)
<1>0. /\ DOMAIN s = D /\ DOMAIN k = E
      /\ k[n + 1] = v /\ \A x \in D : s[x] = k[x]
      /\ \A x \in E : k[x] \in Int
      /\ D \subseteq E /\ n + 1 \in E /\ E \ {n + 1} = D
  OBVIOUS
<1>1. IsFiniteSet(D) /\ IsFiniteSet(E)
  BY FS_Interval
<1> DEFINE last == n + 1
<1> HIDE DEF k, D, E, n
<1>2. PICK g : SumOf(g, s, D) /\ SumFunction(s) = g[D]
  BY <1>0, <1>1, SumFunctionIsSum
<1>3. PICK h : SumOf(h, k, E) /\ SumFunction(k) = h[E]
  BY <1>0, <1>1, SumFunctionIsSum
<1>4. g[D] = h[D]
  BY <1>0, <1>1, <1>2, <1>3, SumAgree
<1>5. h[E] = k[last] + h[E \ {last}]
  <2> HIDE DEF last
  <2>1. last \in E /\ IsFiniteSet(E) /\ SumOf(h, k, E)
        /\ \A x \in E : k[x] \in Int
    BY <1>0, <1>1, <1>3 DEF last
  <2> QED
    BY <2>1, SumAdd
<1>6. h[D] \in Int
  BY <1>0, <1>1, <1>3, SumType
<1>7. k[last] = v /\ E \ {last} = D
  BY <1>0
<1> HIDE DEF last
<1>8. v + h[D] = h[D] + v
  BY <1>6
<1>9. SumFunction(k) = SumFunction(s) + v
  BY Zenon, <1>2, <1>3, <1>4, <1>5, <1>7, <1>8
<1> QED
  BY <1>9 DEF k
\* The sum of differences is the difference of the sums.
LEMMA SumDifference ==
    ASSUME NEW S, IsFiniteSet(S), NEW f, NEW g, SumOf(g, f, S),
           NEW k, NEW h, SumOf(h, k, S), NEW d, NEW e, SumOf(e, d, S),
           \A x \in S : f[x] \in Int /\ k[x] \in Int /\ d[x] = f[x] - k[x]
    PROVE  \A A \in SUBSET S : e[A] = g[A] - h[A]
<1>s. /\ g[{}] = 0
      /\ \A A \in SUBSET S : A # {} => g[A] = f[Pick(A)] + g[A \ {Pick(A)}]
  BY SumStep
<1>t. /\ h[{}] = 0
      /\ \A A \in SUBSET S : A # {} => h[A] = k[Pick(A)] + h[A \ {Pick(A)}]
  BY SumStep
<1>u. /\ e[{}] = 0
      /\ \A A \in SUBSET S : A # {} => e[A] = d[Pick(A)] + e[A \ {Pick(A)}]
  BY SumStep
<1> DEFINE T == {A \in SUBSET S : e[A] = g[A] - h[A]}
<1>0. \A A \in SUBSET S : g[A] \in Int /\ h[A] \in Int
  BY SumType
<1>1. ASSUME NEW A \in SUBSET S,
             \A B \in SUBSET S : Cardinality(B) < Cardinality(A) => B \in T
      PROVE  A \in T
  <2>1. CASE A = {}
    BY <2>1, <1>s, <1>t, <1>u
  <2>2. CASE A # {}
    <3> DEFINE x == Pick(A)
               B == A \ {Pick(A)}
    <3>1. /\ x \in S /\ B \in SUBSET S
          /\ e[B] = g[B] - h[B]
      BY <1>1, <2>2, Rest
    <3>2. g[A] = f[x] + g[B] /\ h[A] = k[x] + h[B] /\ e[A] = d[x] + e[B]
      BY <2>2, <1>s, <1>t, <1>u
    <3>3. g[B] \in Int /\ h[B] \in Int /\ f[x] \in Int /\ k[x] \in Int /\ d[x] = f[x] - k[x]
      BY <1>0, <3>1
    <3> HIDE DEF x, B
    <3>4. e[A] = g[A] - h[A]
      BY <3>1, <3>2, <3>3
    <3> QED
      BY <3>4
  <2> QED
    BY <2>1, <2>2
<1> HIDE DEF T
<1>2. SUBSET S \subseteq T
  BY <1>1, SubsetInduction
<1> QED
  BY <1>2 DEF T

\* The sum of a difference of functions.
LEMMA SumFunctionDifference ==
    ASSUME NEW S, IsFiniteSet(S), NEW f \in [S -> Int], NEW k \in [S -> Int]
    PROVE  SumFunction([x \in S |-> f[x] - k[x]]) = SumFunction(f) - SumFunction(k)
<1> DEFINE d == [x \in S |-> f[x] - k[x]]
<1>0. DOMAIN d = S /\ \A x \in S : d[x] = f[x] - k[x]
  OBVIOUS
<1> HIDE DEF d
<1>1. PICK g : SumOf(g, f, S) /\ SumFunction(f) = g[S]
  BY SumFunctionIsSum
<1>2. PICK h : SumOf(h, k, S) /\ SumFunction(k) = h[S]
  BY SumFunctionIsSum
<1>3. PICK e : SumOf(e, d, S) /\ SumFunction(d) = e[S]
  BY <1>0, SumFunctionIsSum
<1>4. \A A \in SUBSET S : e[A] = g[A] - h[A]
  BY <1>0, <1>1, <1>2, <1>3, SumDifference
<1>5. SumFunction(d) = SumFunction(f) - SumFunction(k)
  BY <1>1, <1>2, <1>3, <1>4
<1> QED
  BY <1>5 DEF d

\* A sum of natural numbers is at least each of them.
LEMMA SumFunctionElement ==
    ASSUME NEW S, IsFiniteSet(S), NEW f \in [S -> Nat], NEW s \in S
    PROVE  f[s] <= SumFunction(f)
<1> DEFINE k == [f EXCEPT ![s] = 0]
<1>1. k \in [S -> Int] /\ f \in [S -> Int] /\ \A x \in S : k[x] >= 0
  OBVIOUS
<1>2. SumFunction(k) = SumFunction(f) + (0 - f[s])
  BY <1>1, SumFunctionUpdate
<1> HIDE DEF k
<1>3. SumFunction(k) \in Nat /\ SumFunction(f) \in Int
  BY <1>1, SumFunctionType
<1> QED
  BY <1>2, <1>3

-----------------------------------------------------------------------------
(***************************************************************************)
(* Pruning is sound whatever it drops, as long as it keeps the rows whose  *)
(* rank among all the rows is at most k.                                   *)
(***************************************************************************)
\* Ranks are positive numbers, and they grow with the set of rows.
LEMMA RankType ==
    ASSUME NEW data, NEW S, IsFiniteSet(S), NEW r
    PROVE  /\ IsFiniteSet(Smaller(data, S, r))
           /\ Cardinality(Smaller(data, S, r)) \in Nat
           /\ Rank(data, S, r) \in Nat
           /\ Rank(data, S, r) >= 1
<1>1. Smaller(data, S, r) \in SUBSET S
  BY DEF Smaller
<1>2. IsFiniteSet(Smaller(data, S, r))
  BY <1>1, FS_Subset
<1>3. Cardinality(Smaller(data, S, r)) \in Nat
  BY <1>2, FS_CardinalityType
<1> QED
  BY <1>2, <1>3 DEF Rank

\* The rows before a row with rank up to k have a rank up to k themselves.
LEMMA SmallerHaveTopRanks ==
    ASSUME NEW data, NEW S, IsFiniteSet(S), NEW k \in Nat,
           \A r \in S : data[r].value \in Int,
           NEW r \in TopK(data, S, k), NEW s \in Smaller(data, S, r)
    PROVE  s \in TopK(data, S, k)
<1>1. r \in S /\ s \in S
  BY DEF TopK, Smaller
<1>2. data[s].value \in Int /\ data[r].value \in Int
  BY <1>1
<1>3. Smaller(data, S, s) \in SUBSET Smaller(data, S, r)
  BY <1>1, <1>2 DEF Smaller
<1>4. Cardinality(Smaller(data, S, s)) <= Cardinality(Smaller(data, S, r))
  BY <1>3, RankType, FS_Subset
<1>5. Rank(data, S, r) <= k
  BY DEF TopK
<1>6. /\ Cardinality(Smaller(data, S, s)) \in Nat
      /\ Cardinality(Smaller(data, S, r)) \in Nat
  BY RankType
<1>7. Rank(data, S, s) <= k
  BY <1>4, <1>5, <1>6 DEF Rank
<1> QED
  BY <1>1, <1>7 DEF TopK

\* Of the rows before a row whose rank is above k, at least k have a rank up to k.
LEMMA EnoughTopRanks ==
    ASSUME NEW data, NEW S, IsFiniteSet(S), NEW k \in Nat,
           \A x \in S : data[x].value \in Int,
           NEW r \in S, r \notin TopK(data, S, k)
    PROVE  Cardinality(Smaller(data, S, r) \cap TopK(data, S, k)) >= k
<1> DEFINE All == Smaller(data, S, r)
           Top == All \cap TopK(data, S, k)
           Ranks == {Rank(data, S, x) : x \in All \ Top}
<1>1. /\ IsFiniteSet(All) /\ Cardinality(All) \in Nat
      /\ Rank(data, S, r) \in Nat
  BY RankType
<1>2. Cardinality(All) >= k
  <2>1. ~(Rank(data, S, r) <= k)
    BY DEF TopK
  <2> QED
    BY <1>1, <2>1 DEF Rank
<1>3. Top \in SUBSET All /\ IsFiniteSet(Top) /\ Cardinality(Top) \in Nat
  BY <1>1, FS_Subset, FS_CardinalityType
<1>4. CASE All \ Top = {}
  <2>1. Top = All
    BY <1>4
  <2> QED
    BY <2>1, <1>2
<1>5. CASE All \ Top # {}
  <2>1. Ranks \subseteq Nat /\ Ranks # {}
    BY <1>5, RankType
  <2> HIDE DEF Ranks
  <2>2. PICK n \in Ranks : \A m \in Ranks : n <= m
    BY <2>1, SmallestNat
  <2>3. PICK x \in All \ Top : n = Rank(data, S, x)
    BY <2>2 DEF Ranks
  <2>4. x \in S /\ r \in S /\ data[x].value \in Int /\ data[r].value \in Int
    BY DEF Smaller
  <2>5. x \notin TopK(data, S, k)
    BY <2>3
  <2>6. Smaller(data, S, x) \in SUBSET Top
    <3> SUFFICES ASSUME NEW y \in Smaller(data, S, x) PROVE y \in Top
      OBVIOUS
    <3>1. y \in S /\ data[y].value \in Int
      BY DEF Smaller
    <3>2. y \in All
      BY <2>3, <2>4, <3>1 DEF Smaller
    <3>3. Smaller(data, S, y) \in SUBSET Smaller(data, S, x)
      BY <2>4, <3>1 DEF Smaller
    <3>4. y \in Smaller(data, S, x) /\ y \notin Smaller(data, S, y)
      BY <3>1 DEF Smaller
    <3>5. Cardinality(Smaller(data, S, y)) < Cardinality(Smaller(data, S, x))
      <4>1. /\ IsFiniteSet(Smaller(data, S, x))
            /\ Cardinality(Smaller(data, S, x)) \in Nat
            /\ Cardinality(Smaller(data, S, y)) \in Nat
        BY RankType
      <4>2. /\ Cardinality(Smaller(data, S, y))
                  <= Cardinality(Smaller(data, S, x))
            /\ Cardinality(Smaller(data, S, y))
                  # Cardinality(Smaller(data, S, x))
        BY <3>3, <3>4, <4>1, FS_Subset
      <4> QED
        BY <4>1, <4>2
    <3>6. Rank(data, S, y) < n
      BY <2>3, <3>5, RankType DEF Rank
    <3>7. Rank(data, S, y) \notin Ranks
      BY <2>1, <2>2, <3>6, RankType
    <3>8. y \notin All \ Top
      BY <3>7 DEF Ranks
    <3> QED
      BY <3>2, <3>8
  <2>7. Cardinality(Smaller(data, S, x)) <= Cardinality(Top)
    BY <2>6, <1>3, FS_Subset
  <2>8. ~(Rank(data, S, x) <= k) /\ Cardinality(Smaller(data, S, x)) \in Nat
    BY <2>4, <2>5, RankType DEF TopK
  <2> QED
    BY <1>3, <2>7, <2>8 DEF Rank
<1> QED
  BY <1>4, <1>5

\* The pruning theorem: rows that contain every row of rank up to k give the
\* same answer as all the rows, with the same ranks, whatever else was dropped
\* (partition pruning in HashedSort::Sink, merge pruning in SortedRunMerger).
THEOREM PruningSound ==
    ASSUME NEW data, NEW S, IsFiniteSet(S), NEW k \in Nat,
           \A x \in S : data[x].value \in Int,
           NEW Kept \in SUBSET S, TopK(data, S, k) \subseteq Kept
    PROVE  SameAnswer(data, S, Kept, k)
<1>0. IsFiniteSet(Kept)
  BY FS_Subset
<1>1. ASSUME NEW r \in TopK(data, S, k)
      PROVE  r \in Kept /\ Rank(data, Kept, r) = Rank(data, S, r)
  <2>1. Smaller(data, S, r) \subseteq TopK(data, S, k)
    BY SmallerHaveTopRanks
  <2>2. Smaller(data, Kept, r) = Smaller(data, S, r)
    BY <2>1 DEF Smaller
  <2> QED
    BY <2>2 DEF Rank
<1>2. ASSUME NEW r \in Kept, r \notin TopK(data, S, k)
      PROVE  ~(Rank(data, Kept, r) <= k)
  <2> DEFINE Top == Smaller(data, S, r) \cap TopK(data, S, k)
  <2>1. Cardinality(Top) >= k
    <3>1. r \in S
      OBVIOUS
    <3> QED
      BY <3>1, <1>2, EnoughTopRanks
  <2>2. Top \in SUBSET Smaller(data, Kept, r)
    BY DEF Smaller
  <2>3. /\ IsFiniteSet(Smaller(data, Kept, r))
        /\ Cardinality(Smaller(data, Kept, r)) \in Nat
    BY <1>0, RankType
  <2>4. IsFiniteSet(Top) /\ Cardinality(Top) <= Cardinality(Smaller(data, Kept, r))
    BY <2>2, <2>3, FS_Subset
  <2>5. Cardinality(Top) \in Nat
    BY <2>4, FS_CardinalityType
  <2> QED
    BY <2>1, <2>3, <2>4, <2>5 DEF Rank
<1>3. TopK(data, Kept, k) \subseteq TopK(data, S, k)
  BY <1>2 DEF TopK
<1>4. TopK(data, S, k) \subseteq TopK(data, Kept, k)
  BY <1>1 DEF TopK
<1> QED
  BY <1>1, <1>3, <1>4 DEF SameAnswer
=============================================================================
