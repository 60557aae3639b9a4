--------------------------- MODULE MergePath_proofs ---------------------------
(***************************************************************************)
(* The merge path finds the one cut of the stable merge, for any runs,     *)
(* ties, partition size and starting point.                                *)
(***************************************************************************)
EXTENDS MergePath, MergeSplit, SharedTheorems

-----------------------------------------------------------------------------
(***************************************************************************)
(* Sums that count.                                                        *)
(***************************************************************************)
\* The pairs of an element x of A and an element of P[x].
Column(P, x) == {<<x, i>> : i \in P[x]}
Pairs(P, A) == UNION {Column(P, x) : x \in A}

\* The pairs of one element are as many as P[x].
LEMMA ColumnCount ==
    ASSUME NEW P, NEW x, IsFiniteSet(P[x])
    PROVE  IsFiniteSet(Column(P, x)) /\ Cardinality(Column(P, x)) = Cardinality(P[x])
<1> DEFINE h == [i \in P[x] |-> <<x, i>>]
           C == Column(P, x)
<1>1. h \in [P[x] -> C]
  BY DEF Column
<1>2. \A i, j \in P[x] : h[i] = h[j] => i = j
  OBVIOUS
<1>3. \A c \in C : \E i \in P[x] : h[i] = c
  BY DEF Column
<1> HIDE DEF h, C
<1>4. h \in Bijection(P[x], C)
  BY <1>1, <1>2, <1>3 DEF Bijection, Injection, IsInjective, Surjection
<1>5. ExistsBijection(P[x], C)
  BY <1>4 DEF ExistsBijection
<1> QED BY <1>5, FS_Bijection DEF C

\* All pairs are as many as the sum says.
LEMMA PairsCount ==
    ASSUME NEW S, IsFiniteSet(S), NEW P, \A x \in S : IsFiniteSet(P[x])
    PROVE  /\ IsFiniteSet(Pairs(P, S))
           /\ Cardinality(Pairs(P, S)) = SumFunction([x \in S |-> Cardinality(P[x])])
<1> DEFINE f == [x \in S |-> Cardinality(P[x])]
<1>f. DOMAIN f = S /\ \A x \in S : f[x] = Cardinality(P[x]) /\ f[x] \in Nat
  BY FS_CardinalityType
<1> HIDE DEF f
<1>1. PICK g : SumOf(g, f, S) /\ SumFunction(f) = g[S]
  BY <1>f, SumFunctionIsSum
<1>2. /\ g[{}] = 0
      /\ \A A \in SUBSET S : A # {} => g[A] = f[Pick(A)] + g[A \ {Pick(A)}]
  BY <1>1, SumStep
<1> DEFINE T == {A \in SUBSET S : /\ IsFiniteSet(Pairs(P, A))
                                  /\ Cardinality(Pairs(P, A)) = g[A]}
<1>3. ASSUME NEW A \in SUBSET S,
             \A B \in SUBSET S : Cardinality(B) < Cardinality(A) => B \in T
      PROVE  A \in T
  <2>1. CASE A = {}
    <3>1. Pairs(P, A) = {}
      BY <2>1 DEF Pairs
    <3> QED BY <1>2, <2>1, <3>1, FS_EmptySet
  <2>2. CASE A # {}
    <3> DEFINE x == Pick(A)
               B == A \ {x}
    <3>1. x \in A /\ x \in S /\ B \in SUBSET S /\ Cardinality(B) < Cardinality(A)
      BY <2>2, Rest
    <3>2. IsFiniteSet(Pairs(P, B)) /\ Cardinality(Pairs(P, B)) = g[B]
      BY <1>3, <3>1
    <3>3. g[A] = f[x] + g[B]
      BY <1>2, <2>2
    <3> HIDE DEF x
    <3>4. IsFiniteSet(Column(P, x)) /\ Cardinality(Column(P, x)) = f[x]
      BY <1>f, <3>1, ColumnCount
    <3>5. Pairs(P, A) = Pairs(P, B) \cup Column(P, x)
      BY <3>1 DEF Pairs
    <3>6. Pairs(P, B) \cap Column(P, x) = {}
      <4>1. \A y, c : c \in Column(P, y) => c[1] = y
        BY DEF Column
      <4>2. x \notin B
        OBVIOUS
      <4> QED BY <4>1, <4>2 DEF Pairs
    <3> HIDE DEF B
    <3>7. /\ IsFiniteSet(Pairs(P, A))
          /\ Cardinality(Pairs(P, A)) = Cardinality(Pairs(P, B)) + Cardinality(Column(P, x)) - 0
      BY <3>2, <3>4, <3>5, <3>6, FS_Union, FS_EmptySet
    <3>8. g[B] \in Nat /\ f[x] \in Nat
      BY <1>f, <3>1, <3>2, FS_CardinalityType
    <3>9. Cardinality(Pairs(P, A)) = g[A]
      BY <3>2, <3>3, <3>4, <3>7, <3>8
    <3> QED BY <3>7, <3>9
  <2> QED BY <2>1, <2>2
<1> HIDE DEF T
<1>4. S \in T
  BY <1>3, SubsetInduction
<1> QED BY <1>1, <1>4 DEF T, f

\* A sum whose terms are a constant on a part and zero elsewhere.
LEMMA SumConstant ==
    ASSUME NEW S, IsFiniteSet(S), NEW A \in SUBSET S, NEW d \in Nat
    PROVE  SumFunction([x \in S |-> IF x \in A THEN d ELSE 0]) = Cardinality(A) * d
<1> DEFINE f == [x \in S |-> IF x \in A THEN d ELSE 0]
<1>f. DOMAIN f = S /\ (\A x \in A : f[x] = d) /\ (\A x \in S \ A : f[x] = 0)
  OBVIOUS
<1> HIDE DEF f
<1>1. PICK g : SumOf(g, f, S) /\ SumFunction(f) = g[S]
  BY <1>f, SumFunctionIsSum
<1>2. /\ g[{}] = 0
      /\ \A B \in SUBSET S : B # {} => g[B] = f[Pick(B)] + g[B \ {Pick(B)}]
  BY <1>1, SumStep
<1> DEFINE T == {B \in SUBSET S : g[B] = Cardinality(B \cap A) * d}
<1>c. \A B \in SUBSET S : IsFiniteSet(B) /\ IsFiniteSet(B \cap A) /\ Cardinality(B \cap A) \in Nat
  BY FS_Subset, FS_CardinalityType
<1>3. ASSUME NEW B \in SUBSET S,
             \A C \in SUBSET S : Cardinality(C) < Cardinality(B) => C \in T
      PROVE  B \in T
  <2>1. CASE B = {}
    <3>1. Cardinality(B \cap A) = 0
      BY <2>1, FS_EmptySet
    <3> QED BY <1>2, <2>1, <3>1
  <2>2. CASE B # {}
    <3> DEFINE x == Pick(B)
               C == B \ {x}
               n == Cardinality(C \cap A)
    <3>1. x \in B /\ x \in S /\ C \in SUBSET S /\ Cardinality(C) < Cardinality(B)
      BY <2>2, Rest
    <3>2. g[C] = n * d
      BY <1>3, <3>1
    <3>3. g[B] = f[x] + g[C]
      BY <1>2, <2>2
    <3>n. n \in Nat
      BY <1>c, <3>1
    <3> HIDE DEF x
    <3>4. CASE x \in A
      <4>1. B \cap A = (C \cap A) \cup {x} /\ x \notin C \cap A
        BY <3>1, <3>4
      <4>2. Cardinality(B \cap A) = n + 1
        BY <1>c, <3>1, <4>1, FS_AddElement
      <4>3. f[x] = d
        BY <1>f, <3>4
      <4> HIDE DEF n, C
      <4>4. (n + 1) * d = d + n * d
        BY <3>n, SMT
      <4> QED BY <3>2, <3>3, <4>2, <4>3, <4>4
    <3>5. CASE x \notin A
      <4>1. B \cap A = C \cap A
        BY <3>5
      <4>2. f[x] = 0
        BY <1>f, <3>1, <3>5
      <4>3. n * d \in Nat
        <5> HIDE DEF n
        <5> QED BY <3>n, SMT
      <4>4. g[B] = g[C]
        BY <3>2, <3>3, <4>2, <4>3
      <4> QED BY <3>2, <4>1, <4>4
    <3> QED BY <3>4, <3>5
  <2> QED BY <2>1, <2>2
<1> HIDE DEF T
<1>4. S \in T
  BY <1>3, SubsetInduction
<1>5. S \cap A = A
  OBVIOUS
<1> QED BY <1>1, <1>4, <1>5 DEF T, f

-----------------------------------------------------------------------------
(***************************************************************************)
(* The order of the stable merge.                                          *)
(***************************************************************************)
SortedRuns == runs \in [Runs -> SortedSeqs]

Key(x) == runs[x[1]][x[2]]

\* A run is a sequence of keys that does not fall.
LEMMA RunFacts ==
    ASSUME SortedRuns, NEW r \in Runs
    PROVE  /\ Count(r) \in Nat /\ r \in Nat
           /\ \A i \in 1 .. Count(r) : runs[r][i] \in Int
           /\ \A i, j \in 1 .. Count(r) : i <= j => runs[r][i] <= runs[r][j]
<1> DEFINE s == runs[r]
<1>1. s \in SortedSeqs
  BY DEF SortedRuns
<1>2. PICK n \in 0 .. MaxRun : s \in [1 .. n -> Keys]
  BY <1>1 DEF SortedSeqs
<1>3. n \in Nat /\ Len(s) = n
  BY <1>2, PathAssumption
<1>4. \A i \in 1 .. n : s[i] \in Int
  BY <1>2, PathAssumption
<1>5. \A i \in 1 .. n - 1 : s[i] <= s[i + 1]
  BY <1>1, <1>3 DEF SortedSeqs
<1> HIDE DEF s
<1>6. ASSUME NEW i \in 1 .. n, NEW j \in 1 .. n, i <= j PROVE s[i] <= s[j]
  <2> DEFINE Bad == {k \in Nat : i + k <= n /\ ~(s[i] <= s[i + k])}
  <2>1. Bad = {}
    <3> SUFFICES ASSUME Bad # {} PROVE FALSE
      OBVIOUS
    <3>1. PICK k \in Bad : \A m \in Bad : k <= m
      <4>1. Bad \subseteq Nat
        OBVIOUS
      <4> HIDE DEF Bad
      <4> QED BY <4>1, SmallestNat
    <3>2. k \in Nat /\ i + k <= n /\ ~(s[i] <= s[i + k])
      OBVIOUS
    <3>3. k # 0
      BY <1>4, <3>2
    <3>4. /\ k - 1 \in Nat /\ i + (k - 1) <= n /\ k - 1 < k
          /\ i + (k - 1) \in 1 .. n - 1 /\ i + k \in 1 .. n
      BY <1>3, <3>2, <3>3
    <3>5. s[i] <= s[i + (k - 1)]
      <4>1. k - 1 \notin Bad
        <5> HIDE DEF Bad
        <5> QED BY <3>1, <3>2, <3>4
      <4> QED BY <3>4, <4>1
    <3>6. s[i + (k - 1)] <= s[i + k]
      <4>1. (i + (k - 1)) + 1 = i + k
        BY <3>2
      <4> QED BY <1>5, <3>4, <4>1
    <3>7. s[i] \in Int /\ s[i + (k - 1)] \in Int /\ s[i + k] \in Int
      BY <1>3, <1>4, <3>4
    <3> HIDE DEF Bad
    <3> QED BY <3>2, <3>5, <3>6, <3>7
  <2>2. j - i \in Nat /\ i + (j - i) = j
    BY <1>3, <1>6
  <2>3. j - i \notin Bad
    BY <2>1
  <2> QED BY <1>3, <2>2, <2>3
<1>7. r \in Nat
  BY PathAssumption DEF Runs
<1> QED BY <1>3, <1>4, <1>6, <1>7 DEF Count, s

\* A row, its run, its position and its key.
LEMMA RowFacts ==
    ASSUME SortedRuns
    PROVE  /\ \A x \in Rows : /\ x[1] \in Runs /\ x[2] \in 1 .. Count(x[1])
                              /\ x = <<x[1], x[2]>>
                              /\ x[1] \in Nat /\ x[2] \in Nat /\ Key(x) \in Int
           /\ \A r \in Runs : \A i \in 1 .. Count(r) : <<r, i>> \in Rows
           /\ \A x, y \in Rows : x[1] = y[1] /\ x[2] <= y[2] => Key(x) <= Key(y)
<1>1. ASSUME NEW x \in Rows
      PROVE  /\ x[1] \in Runs /\ x[2] \in 1 .. Count(x[1]) /\ x = <<x[1], x[2]>>
             /\ x[1] \in Nat /\ x[2] \in Nat /\ Key(x) \in Int
  <2>1. PICK r \in Runs : \E i \in 1 .. Count(r) : x = <<r, i>>
    BY DEF Rows
  <2>2. PICK i \in 1 .. Count(r) : x = <<r, i>>
    BY <2>1
  <2>3. x[1] = r /\ x[2] = i
    BY <2>2
  <2>4. Count(r) \in Nat /\ r \in Nat /\ runs[r][i] \in Int
    BY RunFacts
  <2> QED BY <2>2, <2>3, <2>4 DEF Key
<1>2. \A r \in Runs : \A i \in 1 .. Count(r) : <<r, i>> \in Rows
  BY DEF Rows
<1>3. ASSUME NEW x \in Rows, NEW y \in Rows, x[1] = y[1], x[2] <= y[2]
      PROVE  Key(x) <= Key(y)
  <2>1. x[1] \in Runs /\ x[2] \in 1 .. Count(x[1]) /\ y[2] \in 1 .. Count(x[1])
    BY <1>1, <1>3
  <2> QED BY <1>3, <2>1, RunFacts DEF Key
<1> QED BY <1>1, <1>2, <1>3

\* Precedes is a strict order in which any two rows compare.
LEMMA TotalOrder ==
    ASSUME SortedRuns
    PROVE  /\ \A x \in Rows : ~Precedes(x, x)
           /\ \A x, y, z \in Rows : Precedes(x, y) /\ Precedes(y, z) => Precedes(x, z)
           /\ \A x, y \in Rows : x # y => Precedes(x, y) \/ Precedes(y, x)
<1>1. \A x, y : Precedes(x, y) <=> \/ Key(x) < Key(y)
                                   \/ Key(x) = Key(y) /\ x[1] < y[1]
                                   \/ x[1] = y[1] /\ x[2] < y[2]
  BY DEF Precedes, Key
<1>2. ASSUME NEW x \in Rows PROVE ~Precedes(x, x)
  <2>1. x[1] \in Nat /\ x[2] \in Nat /\ Key(x) \in Int
    BY RowFacts
  <2> QED BY <1>1, <2>1
<1>3. ASSUME NEW x \in Rows, NEW y \in Rows, NEW z \in Rows, Precedes(x, y), Precedes(y, z)
      PROVE  Precedes(x, z)
  <2>1. /\ x[1] \in Nat /\ x[2] \in Nat /\ Key(x) \in Int
        /\ y[1] \in Nat /\ y[2] \in Nat /\ Key(y) \in Int
        /\ z[1] \in Nat /\ z[2] \in Nat /\ Key(z) \in Int
    BY RowFacts
  <2>2. /\ x[1] = y[1] /\ x[2] <= y[2] => Key(x) <= Key(y)
        /\ y[1] = z[1] /\ y[2] <= z[2] => Key(y) <= Key(z)
    BY RowFacts
  <2>3. /\ \/ Key(x) < Key(y)
           \/ Key(x) = Key(y) /\ x[1] < y[1]
           \/ x[1] = y[1] /\ x[2] < y[2]
        /\ \/ Key(y) < Key(z)
           \/ Key(y) = Key(z) /\ y[1] < z[1]
           \/ y[1] = z[1] /\ y[2] < z[2]
    BY <1>1, <1>3
  <2>4. \/ Key(x) < Key(z)
        \/ Key(x) = Key(z) /\ x[1] < z[1]
        \/ x[1] = z[1] /\ x[2] < z[2]
    BY <2>1, <2>2, <2>3
  <2> QED BY <1>1, <2>4
<1>4. ASSUME NEW x \in Rows, NEW y \in Rows, x # y
      PROVE  Precedes(x, y) \/ Precedes(y, x)
  <2>1. /\ x[1] \in Nat /\ x[2] \in Nat /\ Key(x) \in Int
        /\ y[1] \in Nat /\ y[2] \in Nat /\ Key(y) \in Int
    BY RowFacts
  <2>2. x[1] # y[1] \/ x[2] # y[2]
    BY <1>4, RowFacts
  <2> QED BY <1>1, <2>1, <2>2
<1> QED BY <1>2, <1>3, <1>4

\* A set of positions that contains what is below its elements is an interval.
LEMMA PrefixSet ==
    ASSUME NEW m \in Nat, NEW P, P \subseteq 1 .. m,
           \A i \in P : \A j \in 1 .. m : j <= i => j \in P
    PROVE  Cardinality(P) \in 0 .. m /\ P = 1 .. Cardinality(P)
<1> DEFINE Out == {j \in Nat : j >= 1 /\ j \notin P}
<1>1. Out \subseteq Nat /\ m + 1 \in Out
  OBVIOUS
<1>2. PICK e \in Out : \A j \in Out : e <= j
  <2> HIDE DEF Out
  <2> QED BY <1>1, SmallestNat
<1>3. e \in Nat /\ e >= 1 /\ e \notin P /\ e <= m + 1
  BY <1>1, <1>2
<1>4. ASSUME NEW j \in 1 .. e - 1 PROVE j \in P
  <2>1. j \in Nat /\ j >= 1 /\ ~(e <= j)
    BY <1>3
  <2> QED BY <1>2, <2>1
<1>5. ASSUME NEW j \in P PROVE j \in 1 .. e - 1
  <2>1. j \in 1 .. m
    OBVIOUS
  <2>2. ~(e <= j)
    <3> SUFFICES ASSUME e <= j PROVE FALSE
      OBVIOUS
    <3>1. e \in 1 .. m
      BY <1>3, <2>1
    <3> QED BY <1>3, <3>1
  <2> QED BY <1>3, <2>1, <2>2
<1> HIDE DEF Out
<1>6. P = 1 .. e - 1
  BY <1>4, <1>5
<1>7. Cardinality(1 .. e - 1) = e - 1
  BY <1>3, FS_Interval
<1> QED BY <1>3, <1>6, <1>7

-----------------------------------------------------------------------------
(***************************************************************************)
(* Positions and cuts.                                                     *)
(***************************************************************************)
\* There are total_count rows.
LEMMA TotalCount ==
    ASSUME SortedRuns
    PROVE  /\ IsFiniteSet(Rows) /\ Cardinality(Rows) = total_count
           /\ total_count \in Nat /\ IsFiniteSet(Runs)
<1> DEFINE P == [r \in Runs |-> 1 .. Count(r)]
<1>1. IsFiniteSet(Runs)
  BY PathAssumption, FS_Interval DEF Runs
<1>2. ASSUME NEW r \in Runs PROVE IsFiniteSet(P[r]) /\ Cardinality(P[r]) = Count(r)
  <2>1. Count(r) \in Nat
    BY RunFacts
  <2>2. IsFiniteSet(1 .. Count(r)) /\ Cardinality(1 .. Count(r)) = Count(r)
    BY <2>1, FS_Interval
  <2> QED BY <2>2
<1>3. Pairs(P, Runs) = Rows
  BY DEF Pairs, Column, Rows
<1> HIDE DEF P
<1>4. [r \in Runs |-> Cardinality(P[r])] = [r \in Runs |-> Count(r)]
  BY <1>2
<1>5. IsFiniteSet(Rows) /\ Cardinality(Rows) = total_count
  BY <1>1, <1>2, <1>3, <1>4, PairsCount DEF total_count
<1> QED BY <1>1, <1>5, FS_CardinalityType

\* Positions follow the order, and are below the number of rows.
LEMMA Positions ==
    ASSUME SortedRuns
    PROVE  /\ \A x \in Rows : Position(x) \in Nat /\ Position(x) < total_count
           /\ \A x, y \in Rows : Precedes(x, y) => Position(x) < Position(y)
<1> DEFINE B(x) == {y \in Rows : Precedes(y, x)}
<1>0. IsFiniteSet(Rows) /\ Cardinality(Rows) = total_count /\ total_count \in Nat
  BY TotalCount
<1>1. ASSUME NEW x PROVE /\ B(x) \in SUBSET Rows /\ IsFiniteSet(B(x))
                         /\ Position(x) = Cardinality(B(x)) /\ Position(x) \in Nat
  <2>1. B(x) \in SUBSET Rows
    OBVIOUS
  <2>2. IsFiniteSet(B(x)) /\ Cardinality(B(x)) \in Nat
    BY <1>0, <2>1, FS_Subset, FS_CardinalityType
  <2>3. Position(x) = Cardinality(B(x))
    BY DEF Position
  <2> QED BY <2>1, <2>2, <2>3
<1>2. ASSUME NEW x \in Rows PROVE Position(x) < total_count
  <2>1. x \notin B(x)
    BY TotalOrder
  <2>2. B(x) # Rows
    BY <2>1
  <2> HIDE DEF B
  <2>3. Cardinality(B(x)) <= Cardinality(Rows) /\ Cardinality(B(x)) # Cardinality(Rows)
    BY <1>0, <1>1, <2>2, FS_Subset
  <2> QED BY <1>0, <1>1, <2>3
<1>3. ASSUME NEW x \in Rows, NEW y \in Rows, Precedes(x, y) PROVE Position(x) < Position(y)
  <2>1. x \notin B(x) /\ x \in B(y)
    BY <1>3, TotalOrder
  <2>2. B(x) \in SUBSET B(y)
    BY <1>3, TotalOrder
  <2> HIDE DEF B
  <2>3. Cardinality(B(x)) <= Cardinality(B(y)) /\ Cardinality(B(x)) # Cardinality(B(y))
    BY <1>1, <2>1, <2>2, FS_Subset
  <2> QED BY <1>1, <2>3
<1> QED BY <1>1, <1>2, <1>3

\* The first n rows are n rows: positions are different and there is none left
\* out.
LEMMA CountFirst ==
    ASSUME SortedRuns, NEW n \in 0 .. total_count
    PROVE  Cardinality({x \in Rows : Position(x) < n}) = n
<1> DEFINE F == {x \in Rows : Position(x) < n}
           L == Rows \ F
           f == [x \in F |-> Position(x)]
           l == [x \in L |-> Position(x)]
           N == total_count
<1>0. IsFiniteSet(Rows) /\ Cardinality(Rows) = N /\ N \in Nat
  BY TotalCount
<1>1. n \in Nat /\ n <= N
  BY <1>0
<1>2. \A x \in Rows : Position(x) \in Nat /\ Position(x) < N
  BY Positions
<1>3. ASSUME NEW x \in Rows, NEW y \in Rows, Position(x) = Position(y) PROVE x = y
  <2> SUFFICES ASSUME x # y PROVE FALSE
    OBVIOUS
  <2>1. Position(x) < Position(y) \/ Position(y) < Position(x)
    BY TotalOrder, Positions
  <2> QED BY <1>2, <1>3, <2>1
<1> HIDE DEF N
<1>4. IsFiniteSet(F) /\ IsFiniteSet(L) /\ Cardinality(F) \in Nat /\ Cardinality(L) \in Nat
  <2>1. F \in SUBSET Rows /\ L \in SUBSET Rows
    OBVIOUS
  <2> HIDE DEF F, L
  <2> QED BY <1>0, <2>1, FS_Subset, FS_CardinalityType
<1>5. Cardinality(F) <= n
  <2>1. \A x \in F : Position(x) \in 0 .. n - 1
    BY <1>1, <1>2
  <2>2. f \in [F -> 0 .. n - 1]
    <3> HIDE DEF F
    <3> QED BY <2>1
  <2>3. \A x, y \in F : f[x] = f[y] => x = y
    BY <1>3
  <2> HIDE DEF f, F
  <2>4. f \in Injection(F, 0 .. n - 1)
    BY <2>2, <2>3 DEF Injection, IsInjective
  <2>5. IsFiniteSet(0 .. n - 1) /\ Cardinality(0 .. n - 1) = n
    BY <1>1, FS_Interval
  <2> QED BY <2>4, <2>5, FS_Injection
<1>6. Cardinality(L) <= N - n
  <2>1. \A x \in L : Position(x) \in n .. N - 1
    BY <1>0, <1>1, <1>2
  <2>2. l \in [L -> n .. N - 1]
    <3> HIDE DEF L
    <3> QED BY <2>1
  <2>3. \A x, y \in L : l[x] = l[y] => x = y
    BY <1>3
  <2> HIDE DEF l, L
  <2>4. l \in Injection(L, n .. N - 1)
    BY <2>2, <2>3 DEF Injection, IsInjective
  <2>5. IsFiniteSet(n .. N - 1) /\ Cardinality(n .. N - 1) = N - n
    <3>1. n \in Int /\ N - 1 \in Int
      BY <1>0, <1>1
    <3>2. /\ IsFiniteSet(n .. N - 1)
          /\ Cardinality(n .. N - 1) = IF n > N - 1 THEN 0 ELSE (N - 1) - n + 1
      BY <3>1, FS_Interval
    <3> QED BY <1>0, <1>1, <3>2
  <2>6. Cardinality(L) <= Cardinality(n .. N - 1)
    BY <2>4, <2>5, FS_Injection
  <2> QED BY <2>5, <2>6
<1>7. N = Cardinality(F) + Cardinality(L) - 0
  <2>1. F \cup L = Rows /\ F \cap L = {}
    OBVIOUS
  <2> HIDE DEF F, L
  <2> QED BY <1>0, <1>4, <2>1, FS_Union, FS_EmptySet
<1> HIDE DEF F, L
<1>8. Cardinality(F) = n
  BY <1>0, <1>1, <1>4, <1>5, <1>6, <1>7
<1> QED BY <1>8 DEF F

\* A cut takes from each run the rows up to a position.
LEMMA CutFacts ==
    ASSUME SortedRuns, NEW n \in Nat, NEW r \in Runs
    PROVE  /\ Cut(n)[r] \in 0 .. Count(r) /\ Cut(n)[r] \in Nat
           /\ \A i \in 1 .. Count(r) : i <= Cut(n)[r] <=> Position(<<r, i>>) < n
<1> DEFINE P == {i \in 1 .. Count(r) : Position(<<r, i>>) < n}
<1>0. Count(r) \in Nat
  BY RunFacts
<1>1. ASSUME NEW i \in P, NEW j \in 1 .. Count(r), j <= i PROVE j \in P
  <2>1. <<r, i>> \in Rows /\ <<r, j>> \in Rows /\ i \in Nat /\ j \in Nat
    BY <1>0, RowFacts
  <2>2. CASE i = j
    BY <2>2
  <2>3. CASE i # j
    <3>1. Precedes(<<r, j>>, <<r, i>>)
      BY <1>1, <2>1, <2>3 DEF Precedes
    <3>2. /\ Position(<<r, j>>) < Position(<<r, i>>)
          /\ Position(<<r, j>>) \in Nat /\ Position(<<r, i>>) \in Nat
      BY <2>1, <3>1, Positions
    <3>3. Position(<<r, i>>) < n
      OBVIOUS
    <3>4. Position(<<r, j>>) < n
      BY <3>2, <3>3
    <3> QED BY <3>4
  <2> QED BY <2>2, <2>3
<1>2. P \subseteq 1 .. Count(r)
  OBVIOUS
<1>3. Cut(n)[r] = Cardinality(P)
  BY DEF Cut
<1>4. \A i \in 1 .. Count(r) : i \in P <=> Position(<<r, i>>) < n
  OBVIOUS
<1> HIDE DEF P
<1>5. Cardinality(P) \in 0 .. Count(r) /\ P = 1 .. Cardinality(P)
  BY <1>0, <1>1, <1>2, PrefixSet
<1>6. Cardinality(P) \in Nat
  BY <1>0, <1>5
<1>7. \A i \in 1 .. Count(r) : i <= Cardinality(P) <=> i \in P
  BY <1>0, <1>5, <1>6
<1> QED BY <1>3, <1>4, <1>5, <1>6, <1>7

\* The cut after n rows has n rows.
LEMMA CutSum ==
    ASSUME SortedRuns, NEW n \in 0 .. total_count
    PROVE  SumFunction(Cut(n)) = n
<1> DEFINE P == [r \in Runs |-> {i \in 1 .. Count(r) : Position(<<r, i>>) < n}]
<1>1. \A r \in Runs : IsFiniteSet(P[r])
  <2> TAKE r \in Runs
  <2>1. Count(r) \in Nat
    BY RunFacts
  <2>2. P[r] \in SUBSET (1 .. Count(r)) /\ IsFiniteSet(1 .. Count(r))
    BY <2>1, FS_Interval
  <2> QED BY <2>2, FS_Subset
<1>2. Pairs(P, Runs) = {x \in Rows : Position(x) < n}
  <2> DEFINE F == {x \in Rows : Position(x) < n}
  <2>1. ASSUME NEW x \in F PROVE x \in Pairs(P, Runs)
    <3>1. x[1] \in Runs /\ x[2] \in 1 .. Count(x[1]) /\ x = <<x[1], x[2]>>
      BY RowFacts
    <3>2. x[2] \in P[x[1]]
      BY <3>1
    <3>3. x \in Column(P, x[1])
      BY <3>1, <3>2 DEF Column
    <3> QED BY <3>1, <3>3 DEF Pairs
  <2>2. ASSUME NEW x \in Pairs(P, Runs) PROVE x \in F
    <3>1. PICK r \in Runs : x \in Column(P, r)
      BY <2>2 DEF Pairs
    <3>2. PICK i \in P[r] : x = <<r, i>>
      BY <3>1 DEF Column
    <3>3. i \in 1 .. Count(r) /\ Position(<<r, i>>) < n
      BY <3>2
    <3> QED BY <3>2, <3>3, RowFacts
  <2> QED BY <2>1, <2>2
<1>3. Cut(n) = [r \in Runs |-> Cardinality(P[r])]
  BY DEF Cut
<1> HIDE DEF P
<1> QED BY <1>1, <1>2, <1>3, PairsCount, CountFirst, TotalCount

\* Cuts grow, and a cut behind all rows takes everything.
LEMMA CutGrows ==
    ASSUME SortedRuns, NEW n \in Nat, NEW m \in Nat, n <= m, NEW r \in Runs
    PROVE  /\ Cut(n)[r] <= Cut(m)[r]
           /\ m >= total_count => Cut(m)[r] = Count(r)
<1>0. /\ Count(r) \in Nat
      /\ Cut(n)[r] \in 0 .. Count(r) /\ Cut(n)[r] \in Nat
      /\ \A i \in 1 .. Count(r) : i <= Cut(n)[r] <=> Position(<<r, i>>) < n
      /\ Cut(m)[r] \in 0 .. Count(r) /\ Cut(m)[r] \in Nat
      /\ \A i \in 1 .. Count(r) : i <= Cut(m)[r] <=> Position(<<r, i>>) < m
  BY CutFacts, RunFacts
<1> DEFINE a == Cut(n)[r]
           b == Cut(m)[r]
<1>p. /\ \A i \in 1 .. Count(r) : /\ Position(<<r, i>>) \in Nat
                                  /\ Position(<<r, i>>) < total_count
      /\ total_count \in Nat
  BY RowFacts, Positions, TotalCount
<1>1. a <= b
  <2>1. CASE a = 0
    BY <1>0, <2>1
  <2>2. CASE a # 0
    <3>1. a \in 1 .. Count(r)
      BY <1>0, <2>2
    <3>2. Position(<<r, a>>) < n /\ Position(<<r, a>>) \in Nat
      BY <1>0, <1>p, <3>1
    <3>3. Position(<<r, a>>) < m
      BY <3>2
    <3> QED BY <1>0, <3>1, <3>3
  <2> QED BY <2>1, <2>2
<1>2. ASSUME m >= total_count PROVE b = Count(r)
  <2>1. CASE Count(r) = 0
    BY <1>0, <2>1
  <2>2. CASE Count(r) # 0
    <3>1. Count(r) \in 1 .. Count(r)
      BY <1>0, <2>2
    <3>2. Position(<<r, Count(r)>>) < total_count /\ Position(<<r, Count(r)>>) \in Nat
      BY <1>p, <3>1
    <3>3. Position(<<r, Count(r)>>) < m
      BY <1>2, <1>p, <3>2
    <3>4. Count(r) <= b
      BY <1>0, <3>1, <3>3
    <3> QED BY <1>0, <3>4
  <2> QED BY <2>1, <2>2
<1> QED BY <1>1, <1>2

-----------------------------------------------------------------------------
(***************************************************************************)
(* The inductive invariant: the boundary is inside the interval of every   *)
(* run, and the missing rows are those between the begins and the          *)
(* boundary.                                                               *)
(***************************************************************************)
\* The rows before the end of the partition.
Target == (p_idx + 1) * PartitionSize

Begins == [r \in Runs |-> run_boundaries[r].begin]

IntervalsOK ==
    /\ run_boundaries \in [Runs -> [begin : Nat, end : Nat]]
    /\ \A r \in Runs :
          /\ run_boundaries[r].begin <= Cut(Target)[r]
          /\ Cut(Target)[r] <= run_boundaries[r].end
          /\ run_boundaries[r].end <= Count(r)
          /\ IsLastPartition => run_boundaries[r].end = Count(r)

Found ==
    \A r \in Runs : /\ run_boundaries[r].begin = Cut(Target)[r]
                    /\ run_boundaries[r].end = run_boundaries[r].begin

PathInv ==
    /\ SortedRuns /\ p_idx \in 0 .. num_partitions - 1
    /\ done \in BOOLEAN /\ total_remaining \in Nat
    /\ IntervalsOK
    /\ ~IsLastPartition => total_remaining = Target - SumFunction(Begins)
    /\ done => Found /\ (~IsLastPartition => total_remaining = 0)

\* Division that rounds up.
LEMMA CeilDivFacts ==
    ASSUME NEW a \in Nat, NEW b \in Nat \ {0}
    PROVE  LET c == CeilDiv(a, b)
           IN  /\ c \in Nat /\ c * b >= a
               /\ (c - 1) * b < a
               /\ a # 0 => c >= 1
<1> DEFINE c == CeilDiv(a, b)
           x == a + b - 1
           m == x % b
<1>1. x \in Nat
  OBVIOUS
<1>2. c = x \div b
  BY DEF CeilDiv
<1>3. c \in Nat /\ m \in 0 .. b - 1 /\ x = b * c + m
  <2>1. x \div b \in Nat /\ x % b \in 0 .. b - 1 /\ x = b * (x \div b) + (x % b)
    <3> HIDE DEF x
    <3> QED BY <1>1, SMT
  <2> QED BY <1>2, <2>1
<1> HIDE DEF c, m
<1>4. c * b = x - m
  BY <1>3, SMT
<1>5. (c - 1) * b = c * b - b
  BY <1>3, SMT
<1>6. c * b >= a /\ (c - 1) * b < a
  BY <1>3, <1>4, <1>5
<1>7. ASSUME a # 0, c = 0 PROVE FALSE
  <2>1. c * b = 0
    BY <1>7, SMT
  <2> QED BY <1>6, <1>7, <2>1
<1> QED BY <1>3, <1>6, <1>7 DEF c

\* The first rows of the partitions are rows, and so is the end of every
\* partition but the last.
LEMMA Targets ==
    ASSUME SortedRuns, p_idx \in 0 .. num_partitions - 1
    PROVE  /\ Target \in Nat /\ p_idx \in Nat
           /\ IsLastPartition => Target >= total_count
           /\ ~IsLastPartition => Target < total_count /\ Target \in 0 .. total_count
           /\ \A q \in 0 .. p_idx : /\ q * PartitionSize \in 0 .. total_count
                                    /\ q * PartitionSize <= Target
                                    /\ q * PartitionSize \in Nat
<1> DEFINE P == PartitionSize
           N == total_count
           c == num_partitions
<1>0. P \in Nat \ {0} /\ N \in Nat
  BY PathAssumption, TotalCount
<1>1. c \in Nat /\ c * P >= N /\ (c - 1) * P < N
  BY <1>0, CeilDivFacts DEF num_partitions
<1>2. p_idx \in Nat /\ p_idx <= c - 1 /\ Target = (p_idx + 1) * P
  BY <1>1 DEF Target
<1>3. IsLastPartition <=> p_idx = c - 1
  BY DEF IsLastPartition
<1> HIDE DEF P, N, c
<1>t. Target \in Nat
  BY <1>0, <1>2, SMT
<1>4. ASSUME IsLastPartition PROVE Target >= N
  <2>1. p_idx + 1 = c
    BY <1>1, <1>2, <1>3, <1>4
  <2> QED BY <1>1, <1>2, <2>1
<1>5. ASSUME ~IsLastPartition PROVE Target < N
  <2>1. p_idx + 1 <= c - 1
    BY <1>1, <1>2, <1>3, <1>5
  <2>2. (p_idx + 1) * P <= (c - 1) * P
    BY <1>0, <1>1, <1>2, <2>1, SMT
  <2>3. (c - 1) * P \in Int
    BY <1>0, <1>1, SMT
  <2> QED BY <1>0, <1>1, <1>2, <1>t, <2>2, <2>3
<1>6. ASSUME NEW q \in 0 .. p_idx
      PROVE  q * P \in 0 .. N /\ q * P <= Target /\ q * P \in Nat
  <2>1. q \in Nat /\ q <= c - 1 /\ q <= p_idx + 1
    BY <1>1, <1>2
  <2>2. q * P \in Nat
    BY <1>0, <2>1, SMT
  <2>3. q * P <= (c - 1) * P
    BY <1>0, <1>1, <2>1, SMT
  <2>4. q * P <= (p_idx + 1) * P
    BY <1>0, <1>2, <2>1, SMT
  <2>5. (c - 1) * P \in Int
    BY <1>0, <1>1, SMT
  <2> QED BY <1>0, <1>1, <1>2, <2>2, <2>3, <2>4, <2>5
<1>7. ~IsLastPartition => Target \in 0 .. N
  BY <1>0, <1>5, <1>t
<1> QED BY <1>2, <1>4, <1>5, <1>6, <1>7, <1>t DEF P, N

\* The smaller of two numbers.
LEMMA MinPair ==
    ASSUME NEW a \in Nat, NEW b \in Nat
    PROVE  LET m == Min({a, b})
           IN  m \in Nat /\ (m = a \/ m = b) /\ m <= a /\ m <= b
<1>1. \E m \in {a, b} : \A x \in {a, b} : m <= x
  BY SmallestNat
<1>2. Min({a, b}) \in {a, b} /\ \A x \in {a, b} : Min({a, b}) <= x
  BY <1>1 DEF Min
<1> QED BY <1>2

\* The search starts in the invariant, from any earlier partition's begin.
LEMMA PathInit == Init => PathInv
<1> SUFFICES ASSUME Init PROVE PathInv
  OBVIOUS
<1>0. SortedRuns /\ p_idx \in 0 .. num_partitions - 1 /\ done = FALSE
  BY DEF Init, SortedRuns
<1>1. PICK q \in 0 .. p_idx, final \in BOOLEAN :
         /\ run_boundaries = StartBoundaries(Cut(q * PartitionSize), final)
         /\ total_remaining = Target - SumFunction(Cut(q * PartitionSize))
  BY DEF Init, Target
<1> DEFINE s == q * PartitionSize
<1>2. /\ Target \in Nat /\ p_idx \in Nat
      /\ IsLastPartition => Target >= total_count
      /\ ~IsLastPartition => Target < total_count /\ Target \in 0 .. total_count
      /\ s \in 0 .. total_count /\ s <= Target /\ s \in Nat
  BY <1>0, Targets
<1>3. total_count \in Nat /\ IsFiniteSet(Runs)
  BY <1>0, TotalCount
<1>4. SumFunction(Cut(s)) = s
  BY <1>0, <1>2, CutSum
<1>5. total_remaining \in Nat
  BY <1>1, <1>2, <1>4
<1>6. run_boundaries = [r \in Runs |->
         [begin |-> Cut(s)[r], end |-> IF final THEN Cut(Target)[r] ELSE MaximumEnd(r, p_idx)]]
  BY <1>1 DEF StartBoundaries, Target
<1> HIDE DEF s
<1>7. ASSUME NEW r \in Runs
      PROVE  /\ run_boundaries[r] \in [begin : Nat, end : Nat]
             /\ run_boundaries[r].begin = Cut(s)[r]
             /\ run_boundaries[r].begin <= Cut(Target)[r]
             /\ Cut(Target)[r] <= run_boundaries[r].end
             /\ run_boundaries[r].end <= Count(r)
             /\ IsLastPartition => run_boundaries[r].end = Count(r)
  <2>1. /\ Count(r) \in Nat
        /\ Cut(s)[r] \in Nat /\ Cut(Target)[r] \in Nat
        /\ Cut(Target)[r] <= Count(r)
        /\ Cut(s)[r] <= Cut(Target)[r]
        /\ IsLastPartition => Cut(Target)[r] = Count(r)
    BY <1>0, <1>2, CutFacts, CutGrows, RunFacts
  <2>2. Count(r) <= total_count
    <3> DEFINE f == [x \in Runs |-> Count(x)]
    <3>1. f \in [Runs -> Nat] /\ f[r] = Count(r)
      BY <1>0, RunFacts
    <3>2. total_count = SumFunction(f)
      BY DEF total_count
    <3> HIDE DEF f
    <3> QED BY <1>3, <3>1, <3>2, SumFunctionElement
  <2>3. Cut(Target)[r] <= Target
    <3>1. CASE IsLastPartition
      BY <1>2, <1>3, <2>1, <2>2, <3>1
    <3>2. CASE ~IsLastPartition
      <4>1. SumFunction(Cut(Target)) = Target
        BY <1>0, <1>2, <3>2, CutSum
      <4>2. Cut(Target) \in [Runs -> Nat]
        <5>1. \A x \in Runs : Cut(Target)[x] \in Nat
          BY <1>0, <1>2, CutFacts
        <5>2. Cut(Target) = [x \in Runs |-> Cut(Target)[x]]
          BY DEF Cut
        <5> QED BY <5>1, <5>2
      <4>3. Cut(Target)[r] <= SumFunction(Cut(Target))
        BY <1>3, <4>2, SumFunctionElement
      <4> QED BY <4>1, <4>3
    <3> QED BY <3>1, <3>2
  <2>4. /\ MaximumEnd(r, p_idx) \in Nat /\ MaximumEnd(r, p_idx) <= Count(r)
        /\ MaximumEnd(r, p_idx) = Count(r) \/ MaximumEnd(r, p_idx) = Target
        /\ MaximumEnd(r, p_idx) <= Target
    <3>1. MaximumEnd(r, p_idx) = Min({Count(r), Target})
      BY DEF MaximumEnd, Target
    <3> QED BY <1>2, <2>1, <3>1, MinPair
  <2>5. PICK e : e = run_boundaries[r].end
    OBVIOUS
  <2>6. e = IF final THEN Cut(Target)[r] ELSE MaximumEnd(r, p_idx)
    BY <1>6, <2>5
  <2>7. e \in Nat /\ Cut(Target)[r] <= e /\ e <= Count(r)
    BY <2>1, <2>3, <2>4, <2>6
  <2>8. IsLastPartition => e = Count(r)
    BY <1>2, <1>3, <2>1, <2>2, <2>4, <2>6
  <2>9. run_boundaries[r] = [begin |-> Cut(s)[r], end |-> e]
    BY <1>6, <2>6
  <2> QED BY <2>1, <2>7, <2>8, <2>9
<1>8. IntervalsOK
  <2>1. run_boundaries = [r \in Runs |-> run_boundaries[r]]
    BY <1>6
  <2> QED BY <1>7, <2>1 DEF IntervalsOK
<1>9. Begins = Cut(s)
  <2>1. Cut(s) = [r \in Runs |-> Cut(s)[r]]
    BY DEF Cut
  <2> QED BY <1>7, <2>1 DEF Begins
<1>10. total_remaining = Target - SumFunction(Begins)
  BY <1>1, <1>9 DEF s
<1> QED BY <1>0, <1>5, <1>8, <1>10 DEF PathInv

-----------------------------------------------------------------------------
(***************************************************************************)
(* The search.                                                             *)
(***************************************************************************)
\* The missing rows, by run.
Missing == [r \in Runs |-> Cut(Target)[r] - Begins[r]]

\* They are the rows between the begins and the boundary.
LEMMA MissingSum ==
    ASSUME SortedRuns, p_idx \in 0 .. num_partitions - 1, IntervalsOK, ~IsLastPartition
    PROVE  /\ Missing \in [Runs -> Nat] /\ IsFiniteSet(Runs)
           /\ Begins \in [Runs -> Nat]
           /\ SumFunction(Missing) = Target - SumFunction(Begins)
           /\ SumFunction(Missing) \in Nat
<1>1. Target \in 0 .. total_count /\ Target \in Nat
  BY Targets
<1>2. IsFiniteSet(Runs)
  BY TotalCount
<1>3. Cut(Target) \in [Runs -> Nat]
  <2>1. \A x \in Runs : Cut(Target)[x] \in Nat
    BY <1>1, CutFacts
  <2>2. Cut(Target) = [x \in Runs |-> Cut(Target)[x]]
    BY DEF Cut
  <2> QED BY <2>1, <2>2
<1>4. Begins \in [Runs -> Nat] /\ \A r \in Runs : Begins[r] = run_boundaries[r].begin
  BY DEF Begins, IntervalsOK
<1>5. \A r \in Runs : Begins[r] <= Cut(Target)[r]
  BY <1>4 DEF IntervalsOK
<1>6. Missing \in [Runs -> Nat]
  BY <1>3, <1>4, <1>5 DEF Missing
<1>7. SumFunction(Missing) = SumFunction(Cut(Target)) - SumFunction(Begins)
  <2>1. Cut(Target) \in [Runs -> Int] /\ Begins \in [Runs -> Int]
    BY <1>3, <1>4
  <2> QED BY <1>2, <2>1, SumFunctionDifference DEF Missing
<1>8. SumFunction(Cut(Target)) = Target
  BY <1>1, CutSum
<1>9. SumFunction(Missing) \in Nat
  <2>1. Missing \in [Runs -> Int] /\ \A x \in Runs : Missing[x] >= 0
    BY <1>6
  <2> QED BY <1>2, <2>1, SumFunctionType
<1> QED BY <1>2, <1>4, <1>6, <1>7, <1>8, <1>9

\* What the active runs offer.
LEMMA Offers ==
    ASSUME PathInv, ~IsLastPartition, total_remaining # 0
    PROVE  LET K == Cardinality(active_run_idxs)
               d == CeilDiv(total_remaining, K)
           IN  /\ active_run_idxs # {} /\ active_run_idxs \in SUBSET Runs
               /\ K \in Nat \ {0} /\ d \in Nat /\ d >= 1
               /\ K * (d - 1) < total_remaining
               /\ \A r \in active_run_idxs :
                     /\ ComputeBoundaryDelta(r) \in Nat
                     /\ ComputeBoundaryDelta(r) >= 1 /\ ComputeBoundaryDelta(r) <= d
                     /\ Begins[r] + ComputeBoundaryDelta(r) <= run_boundaries[r].end
                     /\ Begins[r] + ComputeBoundaryDelta(r) \in 1 .. Count(r)
               /\ \A r \in Runs \ active_run_idxs : Missing[r] = 0
<1> DEFINE A == active_run_idxs
           K == Cardinality(A)
           T == total_remaining
           d == CeilDiv(T, K)
<1>0. /\ SortedRuns /\ p_idx \in 0 .. num_partitions - 1 /\ IntervalsOK
      /\ T \in Nat /\ T # 0 /\ T = Target - SumFunction(Begins)
  BY DEF PathInv
<1>1. /\ Missing \in [Runs -> Nat] /\ IsFiniteSet(Runs) /\ SumFunction(Missing) = T
      /\ Begins \in [Runs -> Nat]
  BY <1>0, MissingSum
<1>2. ASSUME NEW r \in Runs
      PROVE  /\ Begins[r] = run_boundaries[r].begin /\ Begins[r] \in Nat
             /\ run_boundaries[r].end \in Nat /\ Count(r) \in Nat
             /\ Cut(Target)[r] \in Nat
             /\ Begins[r] <= Cut(Target)[r] /\ Cut(Target)[r] <= run_boundaries[r].end
             /\ run_boundaries[r].end <= Count(r)
             /\ Missing[r] = Cut(Target)[r] - Begins[r]
  <2>1. Target \in Nat
    BY <1>0, Targets
  <2> QED BY <1>0, <1>1, <2>1, CutFacts, RunFacts DEF IntervalsOK, Begins, Missing
<1>3. \A r \in Runs \ A : Missing[r] = 0
  <2> TAKE r \in Runs \ A
  <2>1. Begins[r] = run_boundaries[r].end
    BY <1>2 DEF active_run_idxs
  <2> QED BY <1>2, <2>1
<1>4. A \in SUBSET Runs
  BY DEF active_run_idxs
<1>5. A # {}
  <2> SUFFICES ASSUME A = {} PROVE FALSE
    OBVIOUS
  <2>1. \A r \in Runs : Missing[r] = 0
    BY <1>3
  <2>2. SumFunction(Missing) = 0
    BY <1>1, <2>1, SumFunctionZero
  <2> QED BY <1>0, <1>1, <2>2
<1> HIDE DEF A, T
<1>6. K \in Nat \ {0}
  BY <1>1, <1>4, <1>5, FS_Subset, FS_CardinalityType, FS_EmptySet
<1> HIDE DEF K
<1>7. d \in Nat /\ (d - 1) * K < T /\ d >= 1
  BY <1>0, <1>6, CeilDivFacts
<1>8. K * (d - 1) < T
  <2> HIDE DEF d
  <2>1. K * (d - 1) = (d - 1) * K
    BY <1>6, <1>7, SMT
  <2> QED BY <1>7, <2>1
<1>9. ASSUME NEW r \in A
      PROVE  /\ ComputeBoundaryDelta(r) \in Nat
             /\ ComputeBoundaryDelta(r) >= 1 /\ ComputeBoundaryDelta(r) <= d
             /\ Begins[r] + ComputeBoundaryDelta(r) <= run_boundaries[r].end
             /\ Begins[r] + ComputeBoundaryDelta(r) \in 1 .. Count(r)
  <2> DEFINE w == run_boundaries[r].end - run_boundaries[r].begin
             x == ComputeBoundaryDelta(r)
  <2>1. r \in Runs /\ run_boundaries[r].begin # run_boundaries[r].end
    BY DEF active_run_idxs, A
  <2>2. w \in Nat /\ w >= 1 /\ Begins[r] + w = run_boundaries[r].end
    BY <1>2, <2>1
  <2>3. x = Min({d, w})
    BY DEF ComputeBoundaryDelta, K, A, T
  <2> HIDE DEF w, x, d
  <2>4. x \in Nat /\ (x = d \/ x = w) /\ x <= d /\ x <= w
    BY <1>7, <2>2, <2>3, MinPair
  <2>5. x >= 1
    BY <1>7, <2>2, <2>4
  <2>6. Begins[r] + x <= run_boundaries[r].end /\ Begins[r] + x \in 1 .. Count(r)
    <3>1. /\ Begins[r] \in Nat /\ run_boundaries[r].end \in Nat /\ Count(r) \in Nat
          /\ run_boundaries[r].end <= Count(r)
      BY <1>2, <2>1
    <3>2. Begins[r] + x <= run_boundaries[r].end
      BY <2>2, <2>4, <3>1
    <3> QED BY <2>4, <2>5, <3>1, <3>2
  <2> QED BY <2>4, <2>5, <2>6 DEF x
<1> HIDE DEF d
<1> QED BY <1>3, <1>4, <1>5, <1>6, <1>7, <1>8, <1>9 DEF A, K, T, d

\* The step of the chosen run stays before the boundary.  Otherwise no active
\* run could offer a row before it, as their rows come later, and then fewer
\* rows would be missing than are.
LEMMA MinRunStaysBefore ==
    ASSUME PathInv, ~IsLastPartition, total_remaining # 0, NEW r \in Runs, IsMinRun(r)
    PROVE  Begins[r] + ComputeBoundaryDelta(r) <= Cut(Target)[r]
<1> DEFINE A == active_run_idxs
           K == Cardinality(A)
           T == total_remaining
           d == CeilDiv(T, K)
           o(s) == Begins[s] + ComputeBoundaryDelta(s)
<1>0. /\ SortedRuns /\ p_idx \in 0 .. num_partitions - 1 /\ IntervalsOK
      /\ T \in Nat /\ T # 0 /\ T = Target - SumFunction(Begins)
  BY DEF PathInv
<1>1. /\ Missing \in [Runs -> Nat] /\ IsFiniteSet(Runs) /\ SumFunction(Missing) = T
      /\ Begins \in [Runs -> Nat]
  BY <1>0, MissingSum
<1>2. /\ A \in SUBSET Runs /\ K \in Nat \ {0} /\ d \in Nat /\ d >= 1
      /\ K * (d - 1) < T
      /\ \A s \in A : /\ ComputeBoundaryDelta(s) \in Nat /\ ComputeBoundaryDelta(s) <= d
                      /\ o(s) \in 1 .. Count(s)
      /\ \A s \in Runs \ A : Missing[s] = 0
  BY Offers
<1>3. r \in A
  BY DEF IsMinRun
<1>4. Target \in Nat
  BY <1>0, Targets
<1>5. \A s \in Runs : Cut(Target)[s] \in Nat /\ \A j \in 1 .. Count(s) :
                          j <= Cut(Target)[s] <=> Position(<<s, j>>) < Target
  BY <1>0, <1>4, CutFacts
<1> SUFFICES ASSUME ~(o(r) <= Cut(Target)[r]) PROVE FALSE
  OBVIOUS
<1>6. ~(Position(<<r, o(r)>>) < Target)
  BY <1>2, <1>3, <1>5
<1>7. ASSUME NEW s \in A PROVE ~(o(s) <= Cut(Target)[s])
  <2> DEFINE x == <<r, o(r)>>
             y == <<s, o(s)>>
  <2>1. x \in Rows /\ y \in Rows /\ r \in Nat /\ s \in Nat /\ s \in Runs
    BY <1>0, <1>2, <1>3, RowFacts, RunFacts
  <2>2. Key(x) = OfferedKey(r) /\ Key(y) = OfferedKey(s)
    BY <1>2, <1>3 DEF Key, OfferedKey, Begins
  <2>3. Key(x) < Key(y) \/ (Key(x) = Key(y) /\ r <= s)
    BY <2>2 DEF IsMinRun
  <2>4. x = y \/ Precedes(x, y)
    <3>1. CASE r = s
      BY <3>1
    <3>2. CASE r # s
      <4>1. Key(x) < Key(y) \/ (Key(x) = Key(y) /\ r < s)
        BY <2>1, <2>3, <3>2
      <4> QED BY <4>1 DEF Precedes, Key
    <3> QED BY <3>1, <3>2
  <2>5. Position(x) <= Position(y) /\ Position(x) \in Nat /\ Position(y) \in Nat
    BY <1>0, <2>1, <2>4, Positions
  <2>6. ~(Position(y) < Target)
    BY <1>4, <1>6, <2>5
  <2> QED BY <1>2, <1>5, <2>1, <2>6
<1> DEFINE k == [s \in Runs |-> IF s \in A THEN d - 1 ELSE 0]
<1>8. SumFunction(k) = K * (d - 1) /\ k \in [Runs -> Nat]
  <2>1. d - 1 \in Nat
    BY <1>2
  <2> HIDE DEF A, d
  <2> QED BY <1>1, <1>2, <2>1, SumConstant
<1>9. ASSUME NEW s \in Runs PROVE Missing[s] <= k[s]
  <2>1. CASE s \notin A
    BY <1>2, <2>1
  <2>2. CASE s \in A
    <3>1. o(s) > Cut(Target)[s]
      BY <1>1, <1>2, <1>5, <1>7, <2>2
    <3>2. /\ Missing[s] = Cut(Target)[s] - Begins[s] /\ Begins[s] \in Nat
          /\ Cut(Target)[s] \in Nat /\ ComputeBoundaryDelta(s) \in Nat
          /\ ComputeBoundaryDelta(s) <= d /\ d \in Nat
      BY <1>1, <1>2, <1>5, <2>2 DEF Missing
    <3>3. Missing[s] <= d - 1
      <4> HIDE DEF d
      <4> QED BY <3>1, <3>2
    <3>4. k[s] = d - 1
      BY <2>2
    <3> QED BY <3>3, <3>4
  <2> QED BY <2>1, <2>2
<1> HIDE DEF k
<1>10. SumFunction(Missing) <= SumFunction(k)
  <2>1. Missing \in [Runs -> Int] /\ k \in [Runs -> Int]
    BY <1>1, <1>8
  <2> QED BY <1>1, <1>9, <2>1, SumFunctionMonotone
<1>11. K * (d - 1) \in Int
  <2>1. K \in Int /\ d - 1 \in Int
    BY <1>2
  <2> HIDE DEF K, d
  <2> QED BY <2>1, SMT
<1> HIDE DEF K, d
<1> QED BY <1>0, <1>1, <1>2, <1>8, <1>10, <1>11

\* The runs and the partition stay what they are, and so does the boundary.
LEMMA SameRuns ==
    ASSUME runs' = runs, p_idx' = p_idx
    PROVE  /\ SortedRuns' = SortedRuns /\ num_partitions' = num_partitions
           /\ IsLastPartition' = IsLastPartition /\ Target' = Target
           /\ \A r : Count(r)' = Count(r)
           /\ (Cut(Target))' = Cut(Target)
<1>1. \A r : Count(r)' = Count(r)
  BY DEF Count
<1>2. Target' = Target /\ SortedRuns' = SortedRuns
  BY DEF Target, SortedRuns
<1>3. total_count' = total_count
  BY <1>1 DEF total_count
<1>4. num_partitions' = num_partitions
  BY <1>3 DEF num_partitions
<1>5. IsLastPartition' = IsLastPartition
  BY <1>4 DEF IsLastPartition
<1>6. Rows' = Rows
  BY <1>1 DEF Rows
<1>7. \A x, y : Precedes(x, y)' = Precedes(x, y)
  BY DEF Precedes
<1>8. \A x : Position(x)' = Position(x)
  BY <1>6, <1>7 DEF Position
<1>9. (Cut(Target))' = Cut(Target)
  BY <1>1, <1>2, <1>8 DEF Cut
<1> QED BY <1>1, <1>2, <1>4, <1>5, <1>9

\* The last partition takes all the rows, which are before its end.
LEMMA TakeAllKeeps ==
    ASSUME PathInv, TakeAll
    PROVE  PathInv'
<1>0. /\ IsLastPartition /\ done' = TRUE /\ runs' = runs /\ p_idx' = p_idx
      /\ total_remaining' = total_remaining
      /\ run_boundaries' = [r \in Runs |-> [run_boundaries[r] EXCEPT !.begin = Count(r)]]
  BY DEF TakeAll
<1>1. /\ SortedRuns /\ p_idx \in 0 .. num_partitions - 1 /\ IntervalsOK
      /\ total_remaining \in Nat
  BY DEF PathInv
<1>2. /\ SortedRuns' = SortedRuns /\ num_partitions' = num_partitions
      /\ IsLastPartition' = IsLastPartition /\ Target' = Target
      /\ \A r : Count(r)' = Count(r)
      /\ (Cut(Target))' = Cut(Target)
  BY <1>0, SameRuns
<1>3. ASSUME NEW r \in Runs
      PROVE  /\ run_boundaries'[r] \in [begin : Nat, end : Nat]
             /\ run_boundaries'[r].begin = Count(r) /\ run_boundaries'[r].end = Count(r)
             /\ Cut(Target)[r] = Count(r) /\ Count(r) \in Nat
  <2>1. Target \in Nat /\ Target >= total_count
    BY <1>0, <1>1, Targets
  <2>2. Cut(Target)[r] = Count(r) /\ Count(r) \in Nat
    BY <1>1, <2>1, CutGrows, RunFacts
  <2>3. run_boundaries[r] \in [begin : Nat, end : Nat] /\ run_boundaries[r].end = Count(r)
    BY <1>0, <1>1 DEF IntervalsOK
  <2>4. run_boundaries'[r] = [run_boundaries[r] EXCEPT !.begin = Count(r)]
    BY <1>0
  <2> QED BY <2>2, <2>3, <2>4
<1>4. IntervalsOK'
  <2>1. run_boundaries' = [r \in Runs |-> run_boundaries'[r]]
    BY <1>0
  <2>2. run_boundaries' \in [Runs -> [begin : Nat, end : Nat]]
    BY <1>3, <2>1
  <2> QED BY <1>2, <1>3, <2>2 DEF IntervalsOK
<1>5. Found'
  BY <1>2, <1>3 DEF Found
<1> QED BY <1>0, <1>1, <1>2, <1>4, <1>5 DEF PathInv

\* The boundary of the chosen run moves, and as many rows are no longer missing.
LEMMA AdvanceKeeps ==
    ASSUME PathInv, Advance
    PROVE  PathInv'
<1>0. /\ ~done /\ ~IsLastPartition /\ total_remaining # 0
      /\ done' = done /\ runs' = runs /\ p_idx' = p_idx
  BY DEF Advance
<1>1. PICK r \in Runs :
         /\ IsMinRun(r)
         /\ run_boundaries' = [run_boundaries EXCEPT ![r].begin = @ + ComputeBoundaryDelta(r)]
         /\ total_remaining' = total_remaining - ComputeBoundaryDelta(r)
  BY DEF Advance
<1>2. /\ SortedRuns /\ p_idx \in 0 .. num_partitions - 1 /\ IntervalsOK
      /\ total_remaining \in Nat /\ total_remaining = Target - SumFunction(Begins)
  BY <1>0 DEF PathInv
<1>3. /\ SortedRuns' = SortedRuns /\ num_partitions' = num_partitions
      /\ IsLastPartition' = IsLastPartition /\ Target' = Target
      /\ \A s : Count(s)' = Count(s)
      /\ (Cut(Target))' = Cut(Target)
  BY <1>0, SameRuns
<1>4. PICK x : x = ComputeBoundaryDelta(r)
  OBVIOUS
<1>5. r \in active_run_idxs
  BY <1>1 DEF IsMinRun
<1>6. x \in Nat /\ Begins[r] + x <= Cut(Target)[r]
  BY <1>0, <1>1, <1>4, <1>5, Offers, MinRunStaysBefore
<1>7. Begins[r] = run_boundaries[r].begin /\ Begins \in [Runs -> Nat]
  BY <1>2 DEF Begins, IntervalsOK
<1>8. run_boundaries' = [run_boundaries EXCEPT ![r].begin = Begins[r] + x]
  BY <1>1, <1>2, <1>4, <1>7 DEF IntervalsOK
<1>b. PICK v \in Nat : v = Begins[r] + x
  BY <1>6, <1>7
<1>9. IntervalsOK'
  <2>1. run_boundaries \in [Runs -> [begin : Nat, end : Nat]]
    BY <1>2 DEF IntervalsOK
  <2>2. run_boundaries' = [run_boundaries EXCEPT ![r].begin = v]
    BY <1>8, <1>b
  <2>3. run_boundaries' \in [Runs -> [begin : Nat, end : Nat]]
    BY <2>1, <2>2
  <2>4. \A s \in Runs : /\ run_boundaries'[s].end = run_boundaries[s].end
                        /\ s # r => run_boundaries'[s].begin = run_boundaries[s].begin
    BY <2>1, <2>2
  <2>5. run_boundaries'[r].begin = v
    BY <2>1, <2>2
  <2>6. \A s \in Runs : run_boundaries'[s].begin <= Cut(Target)[s]
    BY <1>2, <1>6, <1>b, <2>4, <2>5 DEF IntervalsOK
  <2> QED BY <1>2, <1>3, <2>3, <2>4, <2>6 DEF IntervalsOK
<1>10. Begins' = [Begins EXCEPT ![r] = v]
  <2>1. run_boundaries \in [Runs -> [begin : Nat, end : Nat]]
    BY <1>2 DEF IntervalsOK
  <2> QED BY <1>8, <1>b, <2>1 DEF Begins
<1>11. SumFunction(Begins') = SumFunction(Begins) + x
  <2>1. IsFiniteSet(Runs) /\ Begins \in [Runs -> Int] /\ v \in Int
    BY <1>2, <1>7, TotalCount
  <2>2. SumFunction(Begins') = SumFunction(Begins) + (v - Begins[r])
    BY <1>10, <2>1, SumFunctionUpdate
  <2>3. v - Begins[r] = x
    BY <1>6, <1>7, <1>b
  <2> QED BY <2>2, <2>3
<1>12. SumFunction(Begins) \in Int /\ Target \in Nat
  <2>1. IsFiniteSet(Runs) /\ Begins \in [Runs -> Int]
    BY <1>2, <1>7, TotalCount
  <2> QED BY <1>2, <2>1, SumFunctionType, Targets
<1>13. total_remaining' = Target' - SumFunction(Begins')
  BY <1>1, <1>2, <1>3, <1>4, <1>6, <1>11, <1>12
<1>14. total_remaining' \in Nat
  <2>1. /\ Missing \in [Runs -> Nat] /\ IsFiniteSet(Runs)
        /\ SumFunction(Missing) = total_remaining
    BY <1>0, <1>2, MissingSum
  <2>2. Missing[r] <= total_remaining
    BY <2>1, SumFunctionElement
  <2>3. Missing[r] = Cut(Target)[r] - Begins[r] /\ Cut(Target)[r] \in Nat
    BY <1>2, <1>12, CutFacts DEF Missing
  <2> QED BY <1>1, <1>2, <1>4, <1>6, <1>7, <2>1, <2>2, <2>3
<1> QED BY <1>0, <1>2, <1>3, <1>9, <1>13, <1>14 DEF PathInv

\* When no rows are missing the begins are the boundary.
LEMMA FinishKeeps ==
    ASSUME PathInv, Finish
    PROVE  PathInv'
<1>0. /\ ~done /\ ~IsLastPartition /\ total_remaining = 0
      /\ done' = TRUE /\ runs' = runs /\ p_idx' = p_idx
      /\ total_remaining' = total_remaining
      /\ run_boundaries' = [r \in Runs |->
             [run_boundaries[r] EXCEPT !.end = run_boundaries[r].begin]]
  BY DEF Finish
<1>2. /\ SortedRuns /\ p_idx \in 0 .. num_partitions - 1 /\ IntervalsOK
      /\ total_remaining \in Nat /\ total_remaining = Target - SumFunction(Begins)
  BY <1>0 DEF PathInv
<1>3. /\ SortedRuns' = SortedRuns /\ num_partitions' = num_partitions
      /\ IsLastPartition' = IsLastPartition /\ Target' = Target
      /\ \A s : Count(s)' = Count(s)
      /\ (Cut(Target))' = Cut(Target)
  BY <1>0, SameRuns
<1>4. /\ Missing \in [Runs -> Nat] /\ IsFiniteSet(Runs)
      /\ SumFunction(Missing) = 0 /\ Begins \in [Runs -> Nat]
  BY <1>0, <1>2, MissingSum
<1>5. ASSUME NEW r \in Runs
      PROVE  /\ run_boundaries'[r] \in [begin : Nat, end : Nat]
             /\ run_boundaries'[r].begin = Cut(Target)[r]
             /\ run_boundaries'[r].end = Cut(Target)[r]
             /\ Cut(Target)[r] \in Nat /\ Cut(Target)[r] <= Count(r)
  <2>1. Missing[r] = 0
    <3>1. Missing[r] <= 0
      BY <1>4, SumFunctionElement
    <3> QED BY <1>4, <3>1
  <2>2. Target \in Nat
    BY <1>2, Targets
  <2>3. /\ Missing[r] = Cut(Target)[r] - Begins[r] /\ Begins[r] = run_boundaries[r].begin
        /\ Cut(Target)[r] \in Nat /\ Cut(Target)[r] \in 0 .. Count(r) /\ Count(r) \in Nat
    BY <1>2, <2>2, CutFacts, RunFacts DEF Missing, Begins
  <2>4. run_boundaries[r].begin = Cut(Target)[r]
    BY <1>4, <2>1, <2>3
  <2>5. run_boundaries[r] \in [begin : Nat, end : Nat]
    BY <1>2 DEF IntervalsOK
  <2>6. run_boundaries'[r] = [run_boundaries[r] EXCEPT !.end = run_boundaries[r].begin]
    BY <1>0
  <2> QED BY <2>3, <2>4, <2>5, <2>6
<1>6. IntervalsOK'
  <2>1. run_boundaries' = [r \in Runs |-> run_boundaries'[r]]
    BY <1>0
  <2>2. run_boundaries' \in [Runs -> [begin : Nat, end : Nat]]
    BY <1>5, <2>1
  <2> QED BY <1>0, <1>3, <1>5, <2>2 DEF IntervalsOK
<1>7. Found'
  BY <1>3, <1>5 DEF Found
<1>8. Begins' = Begins
  <2>1. \A r \in Runs : run_boundaries'[r].begin = run_boundaries[r].begin
    <3> TAKE r \in Runs
    <3>1. run_boundaries[r] \in [begin : Nat, end : Nat]
      BY <1>2 DEF IntervalsOK
    <3>2. run_boundaries'[r] = [run_boundaries[r] EXCEPT !.end = run_boundaries[r].begin]
      BY <1>0
    <3> QED BY <3>1, <3>2
  <2> QED BY <2>1 DEF Begins
<1> QED BY <1>0, <1>2, <1>3, <1>6, <1>7, <1>8 DEF PathInv

-----------------------------------------------------------------------------
(***************************************************************************)
(* The theorems.                                                           *)
(***************************************************************************)
\* Every step keeps the invariant.
LEMMA PathNext ==
    ASSUME PathInv, [Next]_vars
    PROVE  PathInv'
<1>1. CASE TakeAll
  BY <1>1, TakeAllKeeps
<1>2. CASE Advance
  BY <1>2, AdvanceKeeps
<1>3. CASE Finish
  BY <1>3, FinishKeeps
<1>4. CASE UNCHANGED vars
  <2>1. /\ runs' = runs /\ p_idx' = p_idx /\ run_boundaries' = run_boundaries
        /\ total_remaining' = total_remaining /\ done' = done
    BY <1>4 DEF vars
  <2>2. /\ SortedRuns' = SortedRuns /\ num_partitions' = num_partitions
        /\ IsLastPartition' = IsLastPartition /\ Target' = Target
        /\ \A s : Count(s)' = Count(s)
        /\ (Cut(Target))' = Cut(Target)
    BY <2>1, SameRuns
  <2>3. IntervalsOK' = IntervalsOK /\ Found' = Found /\ Begins' = Begins
    BY <2>1, <2>2 DEF IntervalsOK, Found, Begins
  <2> QED BY <2>1, <2>2, <2>3 DEF PathInv
<1> QED BY <1>1, <1>2, <1>3, <1>4 DEF Next

\* The invariant holds in every state.
LEMMA PathInvariant == Spec => []PathInv
  BY PathInit, PathNext, PTL DEF Spec

\* The assertions of the search hold: boundaries stay in their runs, the rows
\* still missing never become negative, and while some are missing a run is
\* active, so that there is one to choose.
THEOREM PathTypes == Spec => []TypeOK
<1>1. ASSUME PathInv PROVE TypeOK
  <2>1. /\ SortedRuns /\ p_idx \in 0 .. num_partitions - 1 /\ IntervalsOK
        /\ total_remaining \in Nat /\ done \in BOOLEAN
    BY <1>1 DEF PathInv
  <2>2. ASSUME NEW r \in Runs
        PROVE  /\ run_boundaries[r].begin \in 0 .. Count(r)
               /\ run_boundaries[r].end \in 0 .. Count(r)
    <3>1. Target \in Nat
      BY <2>1, Targets
    <3>2. /\ Cut(Target)[r] \in Nat /\ Count(r) \in Nat
          /\ run_boundaries[r] \in [begin : Nat, end : Nat]
          /\ run_boundaries[r].begin <= Cut(Target)[r]
          /\ Cut(Target)[r] <= run_boundaries[r].end
          /\ run_boundaries[r].end <= Count(r)
      BY <2>1, <3>1, CutFacts, RunFacts DEF IntervalsOK
    <3>3. run_boundaries[r].begin \in Nat /\ run_boundaries[r].end \in Nat
      BY <3>2
    <3> QED BY <3>2, <3>3
  <2>3. total_remaining # 0 /\ ~IsLastPartition => active_run_idxs # {}
    BY <1>1, Offers
  <2> QED BY <2>1, <2>2, <2>3 DEF TypeOK, SortedRuns
<1> QED BY <1>1, PathInvariant, PTL

\* Whatever run offers the smallest key, the rows of its step come before the
\* boundary.
THEOREM PathNeverOvershoots == Spec => []NeverOvershoots
<1>1. PathInv => NeverOvershoots
  BY DEF PathInv, IntervalsOK, NeverOvershoots, Target
<1> QED BY <1>1, PathInvariant, PTL

\* The boundary that the search finds is that of the stable merge, for any
\* runs, any ties and any earlier boundary to start from: threads that compute
\* it twice, or compute neighbouring ones, agree.
THEOREM PathFindsTheCut == Spec => []FindsTheCut
<1>1. PathInv => FindsTheCut
  BY DEF PathInv, Found, FindsTheCut, Target
<1> QED BY <1>1, PathInvariant, PTL

-----------------------------------------------------------------------------
(***************************************************************************)
(* What the merger relies on.                                              *)
(***************************************************************************)
\* The boundaries of all merge partitions: the one that ends partition p - 1 is found
\* by the search for it (PathFindsTheCut).
Splits == [p \in 0 .. num_partitions |-> Cut(p * PartitionSize)]

\* The cuts before the last one have p * PartitionSize rows, the last one has all.
LEMMA SplitFacts ==
    ASSUME SortedRuns, num_partitions \in Nat \ {0}, NEW p \in 0 .. num_partitions
    PROVE  /\ p * PartitionSize \in Nat
           /\ Cut(p * PartitionSize) \in [Runs -> Nat]
           /\ SumFunction(Cut(p * PartitionSize)) = Min({total_count, p * PartitionSize})
           /\ p < num_partitions => p * PartitionSize < total_count
           /\ p = num_partitions => SumFunction(Cut(p * PartitionSize)) = total_count
<1> DEFINE P == PartitionSize
           N == total_count
           c == num_partitions
           x == p * P
<1>0. P \in Nat \ {0} /\ N \in Nat /\ p \in Nat /\ c \in Nat \ {0} /\ p <= c
  BY PathAssumption, TotalCount
<1>1. c * P >= N /\ (c - 1) * P < N
  BY <1>0, CeilDivFacts DEF num_partitions
<1>2. x \in Nat
  BY <1>0, SMT
<1>3. \A r \in Runs : Cut(x)[r] \in Nat
  BY <1>2, CutFacts
<1>4. Cut(x) \in [Runs -> Nat]
  BY <1>3 DEF Cut
<1>5. p < c => x < N
  <2> SUFFICES ASSUME p < c PROVE x < N
    OBVIOUS
  <2> HIDE DEF P, N, c
  <2>1. p <= c - 1 /\ c - 1 \in Nat
    BY <1>0
  <2>2. p * P <= (c - 1) * P /\ (c - 1) * P \in Nat
    BY <1>0, <2>1, SMT
  <2> HIDE DEF x
  <2> QED BY <1>0, <1>1, <1>2, <2>2 DEF x
<1>6. p = c => x >= N
  BY <1>1
<1>7. SumFunction(Cut(x)) = IF x < N THEN x ELSE N
  <2>1. CASE x < N
    <3>1. x \in 0 .. total_count
      BY <1>0, <1>2, <2>1
    <3> HIDE DEF x
    <3> QED BY <2>1, <3>1, CutSum
  <2>2. CASE ~(x < N)
    <3>1. N \in 0 .. total_count /\ N <= x /\ x >= N /\ N >= N
      BY <1>0, <1>2, <2>2
    <3>2. \A r \in Runs : Cut(x)[r] = Cut(N)[r]
      <4> TAKE r \in Runs
      <4>1. Cut(x)[r] = Count(r)
        BY <1>0, <1>2, <3>1, CutGrows
      <4>2. Cut(N)[r] = Count(r)
        BY <1>0, <3>1, CutGrows
      <4> QED BY <4>1, <4>2
    <3>3. Cut(N) \in [Runs -> Nat]
      <4>1. \A r \in Runs : Cut(N)[r] \in Nat
        BY <1>0, CutFacts
      <4> QED BY <4>1 DEF Cut
    <3>4. Cut(x) = Cut(N)
      BY <1>4, <3>2, <3>3
    <3>5. SumFunction(Cut(N)) = N
      BY <3>1, CutSum
    <3> QED BY <2>2, <3>4, <3>5
  <2> QED BY <2>1, <2>2
<1>8. Min({N, x}) = IF x < N THEN x ELSE N
  <2>1. LET m == Min({N, x}) IN m \in Nat /\ (m = N \/ m = x) /\ m <= N /\ m <= x
    BY <1>0, <1>2, MinPair
  <2> HIDE DEF x, N
  <2> QED BY <1>0, <1>2, <2>1
<1>9. p = c => SumFunction(Cut(x)) = N
  <2> HIDE DEF x, N, c
  <2> QED BY <1>0, <1>2, <1>6, <1>7
<1>10. SumFunction(Cut(x)) = Min({N, x})
  BY <1>7, <1>8
<1> QED BY <1>2, <1>4, <1>5, <1>9, <1>10

\* What SortedRunMerger assumes of its split (MergersAssumption) is what the boundaries
\* of MergePath satisfy, for any runs that have rows: each merge partition but the last
\* has PartitionSize rows, together they have all rows, none is empty, and a boundary is
\* never before an earlier one.
THEOREM PathSplitsTheRuns == Spec => []IsSplit(Runs, Splits, PartitionSize)
<1>1. PathInv => IsSplit(Runs, Splits, PartitionSize)
  <2> SUFFICES ASSUME PathInv PROVE IsSplit(Runs, Splits, PartitionSize)
    OBVIOUS
  <2> DEFINE c == num_partitions
             s == Splits
             n == Max(DOMAIN s)
  <2>0. SortedRuns /\ p_idx \in 0 .. c - 1
    BY DEF PathInv
  <2>1. c \in Nat \ {0}
    <3>1. c \in Nat
      BY <2>0, PathAssumption, TotalCount, CeilDivFacts DEF num_partitions
    <3> QED BY <2>0, <3>1
  <2>2. DOMAIN s = 0 .. c /\ \A p \in 0 .. c : s[p] = Cut(p * PartitionSize)
    BY DEF Splits
  <2> HIDE DEF s, c
  <2>3. n = c
    <3>1. c \in 0 .. c /\ \A x \in 0 .. c : c >= x
      BY <2>1
    <3>2. \A m \in 0 .. c : (\A x \in 0 .. c : m >= x) => m = c
      BY <2>1, <3>1
    <3>3. Max(0 .. c) = c
      BY <3>1, <3>2 DEF Max
    <3> QED BY <2>2, <3>3
  <2> HIDE DEF n
  <2>4. ASSUME NEW p \in 0 .. c
        PROVE  /\ p * PartitionSize \in Nat /\ s[p] \in [Runs -> Nat]
               /\ SumFunction(s[p]) = Min({total_count, p * PartitionSize})
               /\ p < c => p * PartitionSize < total_count
               /\ p = c => SumFunction(s[p]) = total_count
    BY <2>0, <2>1, <2>2, SplitFacts DEF c
  <2>5. s \in [0 .. c -> [Runs -> Nat]]
    <3>1. s = [p \in 0 .. c |-> s[p]]
      BY <2>2 DEF s, Splits, c
    <3> QED BY <2>4, <3>1
  <2>6. SumFunction(s[c]) = total_count
    <3>1. c \in 0 .. c
      BY <2>1
    <3> QED BY <2>4, <3>1
  <2>7. ASSUME NEW p \in 1 .. c
        PROVE  (\A r \in Runs : s[p - 1][r] <= s[p][r]) /\ s[p - 1] # s[p]
    <3> DEFINE a == (p - 1) * PartitionSize
               b == p * PartitionSize
    <3>1. p - 1 \in 0 .. c /\ p \in 0 .. c /\ p - 1 < c
      BY <2>1
    <3>2. a \in Nat /\ b \in Nat /\ a < total_count
      BY <2>4, <3>1
    <3>3. a < b
      <4>1. PartitionSize \in Nat \ {0} /\ p \in Nat
        BY <2>1, PathAssumption
      <4>2. b = a + PartitionSize
        BY <4>1, SMT
      <4> HIDE DEF a, b
      <4> QED BY <3>2, <4>1, <4>2
    <3>4. SumFunction(s[p - 1]) = Min({total_count, a}) /\ SumFunction(s[p]) = Min({total_count, b})
      BY <2>4, <3>1
    <3>t. total_count \in Nat
      BY <2>0, TotalCount
    <3>5. s[p - 1] = Cut(a) /\ s[p] = Cut(b)
      BY <2>2, <3>1
    <3> HIDE DEF a, b
    <3>6. Min({total_count, a}) = a /\ Min({total_count, b}) > a
      <4>1. LET m == Min({total_count, a})
            IN  m \in Nat /\ (m = total_count \/ m = a) /\ m <= total_count /\ m <= a
        BY <3>2, <3>t, MinPair
      <4>2. LET m == Min({total_count, b})
            IN  m \in Nat /\ (m = total_count \/ m = b) /\ m <= total_count /\ m <= b
        BY <3>2, <3>t, MinPair
      <4> QED BY <3>2, <3>3, <3>t, <4>1, <4>2
    <3>7. s[p - 1] # s[p]
      BY <3>2, <3>4, <3>6
    <3>8. \A r \in Runs : Cut(a)[r] <= Cut(b)[r]
      BY <2>0, <3>2, <3>3, CutGrows
    <3> QED BY <3>5, <3>7, <3>8
  <2>8. \A p \in 0 .. c : SumFunction(s[p]) = Min({SumFunction(s[c]), p * PartitionSize})
    BY <2>4, <2>6
  <2> QED BY <2>1, <2>3, <2>5, <2>7, <2>8 DEF IsSplit, n, s
<1> QED BY <1>1, PathInvariant, PTL

=============================================================================
