------------------------ MODULE WindowEvaluation_proofs ------------------------
(***************************************************************************)
(* The masks of a hash group and what is computed from them.               *)
(*                                                                         *)
(* First the MASK stage (WindowMasks), for any group, any number of        *)
(* threads and any sizes of blocks and words: the tasks that run           *)
(* concurrently leave exactly the bits that the rows define.  Then RANK()  *)
(* and DENSE_RANK() on the blocks of the group (RankExecutor), for any     *)
(* rows, window partitions, peers, word size, predicate and blocks:        *)
(* boundaries, ranks and selections are those that the masks define.       *)
(***************************************************************************)
EXTENDS WindowMasks, RankExecutor, FiniteSetTheorems, WellFoundedInduction, TLAPS

-----------------------------------------------------------------------------
(***************************************************************************)
(* Smallest and largest elements.                                          *)
(***************************************************************************)
\* A nonempty set of natural numbers has a smallest element.
LEMMA SmallestNat ==
    ASSUME NEW T, T \subseteq Nat, T # {}
    PROVE  \E n \in T : \A m \in T : n <= m
<1> DEFINE R == OpToRel(<, Nat)
<1>1. PICK n \in T : \A m \in T : ~(<<m, n>> \in R)
  BY NatLessThanWellFounded, WFMin
<1>2. \A m \in T : <<m, n>> \in R <=> m < n
  BY DEF OpToRel
<1>3. n \in Nat /\ \A m \in T : m \in Nat /\ ~(m < n)
  BY <1>1, <1>2
<1>4. \A m \in T : n <= m
  BY <1>3
<1> QED BY <1>4

\* Min is that element.
LEMMA MinProps ==
    ASSUME NEW T, T \subseteq Nat, T # {}
    PROVE  Min(T) \in T /\ \A m \in T : Min(T) <= m
  BY SmallestNat DEF Min

\* Max is the largest element of a set with an upper bound.
LEMMA MaxProps ==
    ASSUME NEW T, T \subseteq Nat, T # {}, NEW n \in Nat, \A m \in T : m <= n
    PROVE  Max(T) \in T /\ \A m \in T : Max(T) >= m
<1> DEFINE D == {n - m : m \in T}
<1>0. \A m \in T : n - m \in Nat
  OBVIOUS
<1>1. D \subseteq Nat /\ D # {}
  BY <1>0
<1>2. PICK d \in D : \A e \in D : d <= e
  <2> HIDE DEF D
  <2> QED BY <1>1, SmallestNat
<1>3. PICK x \in T : d = n - x
  OBVIOUS
<1>4. ASSUME NEW m \in T PROVE x >= m
  <2>1. n - m \in D
    OBVIOUS
  <2>2. n - x <= n - m
    BY <1>2, <1>3, <2>1
  <2>3. x \in Nat /\ m \in Nat
    OBVIOUS
  <2> QED BY <2>2, <2>3
<1> QED BY <1>4 DEF Max

\* Quotient and remainder.
LEMMA DivMod ==
    ASSUME NEW a \in Nat, NEW d \in Nat \ {0}
    PROVE  a \div d \in Nat /\ a % d \in 0 .. d - 1 /\ a = d * (a \div d) + (a % d)
  BY SMT

-----------------------------------------------------------------------------
(***************************************************************************)
(* Arithmetic of words and tasks.                                          *)
(***************************************************************************)
\* Multiplication keeps the order.
LEMMA Multiply ==
    ASSUME NEW a \in Nat, NEW b \in Nat, NEW c \in Nat, a <= b
    PROVE  a * c \in Nat /\ b * c \in Nat /\ a * c <= b * c
<1>1. PICK d \in Nat : b = a + d
  <2>1. b - a \in Nat /\ b = a + (b - a)
    OBVIOUS
  <2> QED BY <2>1
<1>2. b * c = a * c + d * c
  BY <1>1, SMT
<1>3. a * c \in Nat /\ d * c \in Nat
  BY SMT
<1> QED BY <1>2, <1>3

\* A number is below (q + 1) * d and not below q * d for one q only.
LEMMA Quotient ==
    ASSUME NEW a \in Nat, NEW d \in Nat \ {0}, NEW q \in Nat
    PROVE  /\ a < q * d <=> a \div d < q
           /\ q * d <= a <=> q <= a \div d
<1> DEFINE p == a \div d
<1>1. p \in Nat /\ a % d \in 0 .. d - 1 /\ a = d * p + (a % d)
  BY DivMod
<1>2. q * d \in Nat /\ p * d \in Nat /\ d * p = p * d /\ (p + 1) * d = p * d + d
  BY <1>1, SMT
<1>3. p * d <= a /\ a < p * d + d
  BY <1>1, <1>2
<1>4. q <= p => q * d <= p * d
  BY <1>1, Multiply
<1>5. p < q => p * d + d <= q * d
  <2> SUFFICES ASSUME p < q PROVE p * d + d <= q * d
    OBVIOUS
  <2>1. p + 1 \in Nat /\ p + 1 <= q
    BY <1>1
  <2>2. (p + 1) * d <= q * d
    BY <1>1, <2>1, Multiply
  <2> QED BY <1>2, <2>2
<1> HIDE DEF p
<1>6. (a < q * d <=> p < q) /\ (q * d <= a <=> q <= p)
  BY <1>1, <1>2, <1>3, <1>4, <1>5
<1> QED BY <1>6 DEF p

\* Rounding up covers all of a in steps of d.
LEMMA RoundUp ==
    ASSUME NEW a \in Nat, NEW d \in Nat \ {0}
    PROVE  /\ CeilDiv(a, d) \in Nat
           /\ \A q \in Nat : q < CeilDiv(a, d) <=> q * d < a
<1> DEFINE n == a + (d - 1)
           c == n \div d
<1>1. n \in Nat /\ CeilDiv(a, d) = c
  BY DEF CeilDiv
<1>2. c \in Nat
  BY <1>1, DivMod
<1>3. ASSUME NEW q \in Nat PROVE q < c <=> q * d < a
  <2>1. q + 1 \in Nat /\ (q + 1) * d = q * d + d /\ q * d \in Nat
    BY SMT
  <2>2. (q + 1) * d <= n <=> q + 1 <= c
    BY <1>1, <2>1, Quotient
  <2> HIDE DEF c
  <2> QED BY <1>2, <2>1, <2>2
<1> QED BY <1>1, <1>2, <1>3

\* Rounding up what is a multiple.
LEMMA RoundMultiple ==
    ASSUME NEW a \in Nat, NEW d \in Nat \ {0}
    PROVE  CeilDiv(a * d, d) = a
<1>1. a * d \in Nat
  BY SMT
<1>2. CeilDiv(a * d, d) \in Nat /\ \A q \in Nat : q < CeilDiv(a * d, d) <=> q * d < a * d
  BY <1>1, RoundUp
<1>3. \A q \in Nat : q * d < a * d <=> q < a
  <2> TAKE q \in Nat
  <2>1. q * d \in Nat
    BY SMT
  <2>2. a <= q => a * d <= q * d
    BY Multiply
  <2>3. q < a => q * d + d <= a * d
    <3> SUFFICES ASSUME q < a PROVE q * d + d <= a * d
      OBVIOUS
    <3>1. q + 1 \in Nat /\ q + 1 <= a /\ (q + 1) * d = q * d + d
      BY SMT
    <3> QED BY <3>1, Multiply
  <2> QED BY <1>1, <2>1, <2>2, <2>3
<1> DEFINE c == CeilDiv(a * d, d)
<1>4. \A q \in Nat : q < c <=> q < a
  BY <1>2, <1>3
<1>5. c \in Nat
  BY <1>2
<1> HIDE DEF c
<1>6. c = a
  BY <1>4, <1>5
<1> QED BY <1>6 DEF c
-----------------------------------------------------------------------------
(***************************************************************************)
(* The group and its blocks.                                               *)
(***************************************************************************)
GroupOK == group \in Inputs

\* What IsGroup says, in the names of the model.
LEMMA GroupFacts ==
    ASSUME GroupOK
    PROVE  /\ Blocks \in Nat \ {0}
           /\ \A b \in 0 .. Blocks : BlockSum(b) \in Nat
           /\ BlockSum(0) = 0
           /\ \A b \in 0 .. Blocks - 1 :
                 /\ BlockSum(b) < BlockSum(b + 1)
                 /\ BlockSum(b + 1) <= BlockSum(b) + VectorSize
           /\ group.sorted \in BOOLEAN /\ group.shrink_runs \in BOOLEAN
           /\ group.sorted /\ ~group.shrink_runs =>
                 \A b \in 0 .. Blocks - 1 : BlockSum(b) = b * VectorSize
           /\ 0 \in Begins /\ Begins \subseteq 0 .. Count - 1
           /\ ~group.sorted => Begins = {0}
<1> DEFINE s == group.block_sums
<1>1. IsGroup(group)
  BY InputsAssumption DEF GroupOK
<1>2. s \in Seq(Nat) /\ Len(s) > 0 /\ Blocks = Len(s)
  BY <1>1 DEF IsGroup, Blocks
<1>3. Blocks \in Nat \ {0} /\ \A b \in 1 .. Blocks : s[b] \in Nat
  BY <1>2
<1>4. \A b \in 0 .. Blocks : BlockSum(b) \in Nat
  BY <1>3 DEF BlockSum, Before
<1>5. \A b \in 1 .. Blocks : BlockSum(b) = s[b]
  BY <1>3 DEF BlockSum, Before
<1>6. \A b \in 1 .. Blocks : Before(s, b - 1) = BlockSum(b - 1)
  BY DEF BlockSum
<1>7. \A b \in 1 .. Blocks : BlockSum(b - 1) < BlockSum(b)
                             /\ BlockSum(b) <= BlockSum(b - 1) + VectorSize
  BY <1>1, <1>2, <1>5, <1>6 DEF IsGroup
<1>8. \A b \in 0 .. Blocks - 1 : /\ BlockSum(b) < BlockSum(b + 1)
                                 /\ BlockSum(b + 1) <= BlockSum(b) + VectorSize
  <2> TAKE b \in 0 .. Blocks - 1
  <2>1. b + 1 \in 1 .. Blocks /\ (b + 1) - 1 = b
    BY <1>3
  <2> QED BY <1>7, <2>1
<1>9. BlockSum(0) = 0
  BY DEF BlockSum, Before
<1>10. group.sorted \in BOOLEAN /\ group.shrink_runs \in BOOLEAN
  BY <1>1 DEF IsGroup
<1>11. ASSUME group.sorted, ~group.shrink_runs, NEW b \in 0 .. Blocks - 1
       PROVE  BlockSum(b) = b * VectorSize
  <2>1. CASE b = 0
    BY <1>9, <2>1, NumbersAssumption
  <2>2. CASE b # 0
    <3>1. b \in 1 .. Blocks - 1 /\ b \in 1 .. Blocks
      BY <1>3, <2>2
    <3>2. s[b] = b * VectorSize
      BY <1>1, <1>2, <1>11, <3>1 DEF IsGroup
    <3> QED BY <1>5, <3>1, <3>2
  <2> QED BY <2>1, <2>2
<1>12. Count = s[Len(s)] /\ Count \in Nat \ {0}
  <2>1. Blocks \in 1 .. Blocks /\ Blocks \in 0 .. Blocks /\ Blocks - 1 \in 0 .. Blocks
    BY <1>3
  <2>2. Count = BlockSum(Blocks) /\ Count = s[Blocks]
    BY <1>5, <2>1 DEF Count
  <2>3. BlockSum(Blocks - 1) < Count /\ BlockSum(Blocks - 1) \in Nat /\ Count \in Nat
    BY <1>4, <1>7, <2>1, <2>2
  <2> QED BY <1>2, <2>2, <2>3
<1>13. group.begins \subseteq 1 .. Count - 1
  BY <1>1, <1>12 DEF IsGroup
<1>14. 0 \in Begins /\ Begins \subseteq 0 .. Count - 1 /\ (~group.sorted => Begins = {0})
  BY <1>12, <1>13 DEF Begins
<1> QED BY <1>3, <1>4, <1>8, <1>9, <1>10, <1>11, <1>14

\* A group has rows.
LEMMA CountType ==
    ASSUME GroupOK
    PROVE  Count \in Nat \ {0} /\ Count = BlockSum(Blocks)
<1>1. Begins \subseteq 0 .. Count - 1 /\ 0 \in Begins /\ Blocks \in 0 .. Blocks
  BY GroupFacts
<1>2. Count = BlockSum(Blocks) /\ Count \in Nat
  BY <1>1, GroupFacts DEF Count
<1> QED BY <1>1, <1>2

\* The sums grow, by at most VectorSize a block.
LEMMA SumsGrow ==
    ASSUME GroupOK
    PROVE  /\ \A b, c \in 0 .. Blocks : b < c => BlockSum(b) < BlockSum(c)
           /\ \A b \in 0 .. Blocks : BlockSum(b) <= b * VectorSize
<1>0. Blocks \in Nat /\ VectorSize \in Nat
  BY GroupFacts, NumbersAssumption
<1>t. \A b \in 0 .. Blocks : BlockSum(b) \in Nat
  BY GroupFacts
<1>s. \A b \in 0 .. Blocks - 1 : /\ BlockSum(b) < BlockSum(b + 1)
                                 /\ BlockSum(b + 1) <= BlockSum(b) + VectorSize
  BY GroupFacts
<1>1. ASSUME NEW b \in 0 .. Blocks PROVE \A c \in 0 .. Blocks : b < c => BlockSum(b) < BlockSum(c)
  <2> DEFINE Bad == {c \in 0 .. Blocks : b < c /\ ~(BlockSum(b) < BlockSum(c))}
  <2> SUFFICES ASSUME Bad # {} PROVE FALSE
    OBVIOUS
  <2>1. PICK c \in Bad : \A d \in Bad : c <= d
    <3>1. Bad \subseteq Nat
      BY <1>0
    <3> HIDE DEF Bad
    <3> QED BY <3>1, SmallestNat
  <2>2. c \in 0 .. Blocks /\ b < c /\ ~(BlockSum(b) < BlockSum(c))
    OBVIOUS
  <2>3. c - 1 \in 0 .. Blocks - 1 /\ c - 1 \in 0 .. Blocks /\ (c - 1) + 1 = c /\ ~(c <= c - 1)
        /\ (b = c - 1 \/ b < c - 1)
    BY <1>0, <2>2
  <2>4. c - 1 \notin Bad
    <3> HIDE DEF Bad
    <3> QED BY <2>1, <2>3
  <2>5. BlockSum(b) <= BlockSum(c - 1)
    <3>1. CASE b = c - 1
      BY <3>1, <1>t
    <3>2. CASE b < c - 1
      <4>1. BlockSum(b) < BlockSum(c - 1)
        BY <2>3, <2>4, <3>2
      <4> QED BY <1>t, <2>3, <4>1
    <3> QED BY <2>3, <3>1, <3>2
  <2>6. BlockSum(c - 1) < BlockSum(c)
    BY <1>s, <2>3
  <2> QED BY <1>t, <2>2, <2>3, <2>5, <2>6
<1>2. \A b \in 0 .. Blocks : BlockSum(b) <= b * VectorSize
  <2> DEFINE Bad == {c \in 0 .. Blocks : ~(BlockSum(c) <= c * VectorSize)}
  <2> SUFFICES ASSUME Bad # {} PROVE FALSE
    OBVIOUS
  <2>1. PICK c \in Bad : \A d \in Bad : c <= d
    <3>1. Bad \subseteq Nat
      BY <1>0
    <3> HIDE DEF Bad
    <3> QED BY <3>1, SmallestNat
  <2>2. c \in 0 .. Blocks /\ ~(BlockSum(c) <= c * VectorSize)
    OBVIOUS
  <2>3. c # 0
    <3>1. BlockSum(0) = 0 /\ 0 * VectorSize = 0
      BY <1>0, GroupFacts
    <3> QED BY <2>2, <3>1
  <2>4. c - 1 \in 0 .. Blocks - 1 /\ c - 1 \in 0 .. Blocks /\ (c - 1) + 1 = c /\ ~(c <= c - 1)
    BY <1>0, <2>2, <2>3
  <2>5. c - 1 \notin Bad
    <3> HIDE DEF Bad
    <3> QED BY <2>1, <2>4
  <2>6. BlockSum(c - 1) <= (c - 1) * VectorSize
    BY <2>4, <2>5
  <2>7. BlockSum(c) <= BlockSum(c - 1) + VectorSize
    BY <1>s, <2>4
  <2>8. c \in Nat /\ c * VectorSize \in Nat /\ (c - 1) * VectorSize = c * VectorSize - VectorSize
    BY <1>0, <2>2, SMT
  <2>9. BlockSum(c) \in Nat /\ BlockSum(c - 1) \in Nat
    BY <1>t, <2>2, <2>4
  <2> QED BY <1>0, <2>2, <2>6, <2>7, <2>8, <2>9
<1> QED BY <1>1, <1>2

\* Every row is in a block.
LEMMA BlockOfRow ==
    ASSUME GroupOK, NEW r \in 0 .. Count - 1
    PROVE  \E b \in 0 .. Blocks - 1 : BlockSum(b) <= r /\ r < BlockSum(b + 1)
<1>0. Blocks \in Nat \ {0} /\ Count \in Nat /\ Count = BlockSum(Blocks) /\ BlockSum(0) = 0
      /\ \A b \in 0 .. Blocks : BlockSum(b) \in Nat
  BY GroupFacts, CountType
<1> DEFINE Above == {c \in 0 .. Blocks : r < BlockSum(c)}
<1>1. Above \subseteq Nat /\ Blocks \in Above
  BY <1>0
<1>2. PICK c \in Above : \A d \in Above : c <= d
  <2> HIDE DEF Above
  <2> QED BY <1>1, SmallestNat
<1>3. c \in 0 .. Blocks /\ r < BlockSum(c) /\ c # 0
  BY <1>0
<1>4. c - 1 \in 0 .. Blocks - 1 /\ c - 1 \in 0 .. Blocks /\ (c - 1) + 1 = c /\ ~(c <= c - 1)
  BY <1>0, <1>3
<1>5. c - 1 \notin Above
  <2> HIDE DEF Above
  <2> QED BY <1>2, <1>4
<1>6. BlockSum(c - 1) <= r
  BY <1>0, <1>4, <1>5
<1> QED BY <1>3, <1>4, <1>6

-----------------------------------------------------------------------------
(***************************************************************************)
(* The tasks.                                                              *)
(***************************************************************************)
\* AlignedScale blocks of full size fill whole words.
LEMMA ScaleAligns ==
    /\ AlignedScale \in Nat \ {0}
    /\ \E j \in Nat : AlignedScale * VectorSize = j * WordBits
<1>0. VectorSize \in Nat \ {0} /\ WordBits \in Nat \ {0}
  BY NumbersAssumption
<1> DEFINE q == WordBits \div VectorSize
<1>1. q \in Nat /\ WordBits = VectorSize * q + (WordBits % VectorSize)
  BY <1>0, DivMod
<1>2. AlignedScale \in {q, 1} /\ AlignedScale >= 1 /\ AlignedScale >= q
  <2>1. {q, 1} \subseteq Nat /\ {q, 1} # {} /\ q + 1 \in Nat /\ \A m \in {q, 1} : m <= q + 1
    BY <1>1
  <2> HIDE DEF q
  <2>2. Max({q, 1}) \in {q, 1} /\ \A m \in {q, 1} : Max({q, 1}) >= m
    BY <2>1, MaxProps
  <2> QED BY <2>2 DEF AlignedScale, q
<1>3. AlignedScale \in Nat \ {0}
  BY <1>1, <1>2
<1>4. CASE VectorSize % WordBits = 0
  <2> DEFINE k == VectorSize \div WordBits
  <2>1. k \in Nat /\ VectorSize = WordBits * k
    BY <1>0, <1>4, DivMod
  <2>2. AlignedScale * k \in Nat
    BY <1>3, <2>1, SMT
  <2> HIDE DEF k
  <2>3. AlignedScale * VectorSize = (AlignedScale * k) * WordBits
    BY <1>0, <1>3, <2>1, SMT
  <2> QED BY <1>3, <2>2, <2>3
<1>5. CASE WordBits % VectorSize = 0
  <2>1. WordBits = VectorSize * q
    BY <1>0, <1>1, <1>5
  <2> HIDE DEF q
  <2>2. q # 0
    BY <1>0, <2>1
  <2>3. AlignedScale = q
    BY <1>1, <1>2, <2>2
  <2>4. AlignedScale * VectorSize = 1 * WordBits
    BY <1>0, <1>1, <2>1, <2>3, SMT
  <2> QED BY <1>3, <2>4
<1> QED BY <1>4, <1>5, NumbersAssumption

\* The blocks of a task do, too.
LEMMA PerThreadFacts ==
    ASSUME GroupOK
    PROVE  /\ PerThread \in Nat \ {0}
           /\ \E j \in Nat : PerThread * VectorSize = j * WordBits
<1>0. VectorSize \in Nat \ {0} /\ WordBits \in Nat \ {0} /\ NumThreads \in Nat \ {0}
      /\ Blocks \in Nat \ {0} /\ AlignedScale \in Nat \ {0}
  BY NumbersAssumption, GroupFacts, ScaleAligns
<1> DEFINE c == CeilDiv(Blocks, AlignedScale)
           d == CeilDiv(c, NumThreads)
<1>1. c \in Nat /\ 0 < c
  <2>1. c \in Nat /\ (0 < c <=> 0 * AlignedScale < Blocks)
    BY <1>0, RoundUp
  <2>2. 0 * AlignedScale = 0
    BY <1>0
  <2> QED BY <1>0, <2>1, <2>2
<1>2. d \in Nat /\ 0 < d
  <2> HIDE DEF c
  <2>1. d \in Nat /\ (0 < d <=> 0 * NumThreads < c)
    BY <1>0, <1>1, RoundUp
  <2>2. 0 * NumThreads = 0
    BY <1>0
  <2> QED BY <1>1, <2>1, <2>2
<1>3. PerThread = AlignedScale * d
  BY DEF PerThread
<1> HIDE DEF d
<1>4. PerThread \in Nat \ {0}
  BY <1>0, <1>2, <1>3, SMT
<1>5. PICK j \in Nat : AlignedScale * VectorSize = j * WordBits
  BY ScaleAligns
<1>6. d * j \in Nat
  BY <1>2, SMT
<1>7. PerThread * VectorSize = (d * j) * WordBits
  <2>1. (AlignedScale * d) * VectorSize = d * (AlignedScale * VectorSize)
    BY <1>0, <1>2, SMT
  <2>2. d * (j * WordBits) = (d * j) * WordBits
    BY <1>0, <1>2, SMT
  <2> QED BY <1>3, <1>5, <2>1, <2>2
<1> QED BY <1>4, <1>6, <1>7

\* The blocks of the tasks follow each other and cover the group.
LEMMA TaskFacts ==
    ASSUME GroupOK
    PROVE  /\ Tasks \subseteq Nat
           /\ \A t \in Tasks :
                 /\ BlockBegin(t) \in 0 .. Blocks - 1
                 /\ BlockEnd(t) \in 1 .. Blocks
                 /\ BlockBegin(t) < BlockEnd(t)
                 /\ BlockEnd(t) <= (t + 1) * PerThread
                 /\ BlockBegin(t) = 0 <=> t = 0
           /\ \A t, u \in Tasks : t < u => BlockEnd(t) <= BlockBegin(u)
           /\ \A b \in 0 .. Blocks - 1 : \E t \in Tasks :
                 BlockBegin(t) <= b /\ b < BlockEnd(t)
<1>0. Blocks \in Nat \ {0} /\ PerThread \in Nat \ {0}
  BY GroupFacts, PerThreadFacts
<1> DEFINE n == CeilDiv(Blocks, PerThread)
<1>1. n \in Nat /\ \A q \in Nat : q < n <=> q * PerThread < Blocks
  BY <1>0, RoundUp
<1>2. Tasks = 0 .. n - 1
  BY DEF Tasks
<1> HIDE DEF n
<1>3. Tasks \subseteq Nat /\ \A t \in Nat : t \in Tasks <=> t * PerThread < Blocks
  BY <1>1, <1>2
<1>4. ASSUME NEW t \in Nat
      PROVE  /\ t * PerThread \in Nat /\ (t + 1) * PerThread = t * PerThread + PerThread
             /\ BlockEnd(t) = IF (t + 1) * PerThread <= Blocks
                              THEN (t + 1) * PerThread ELSE Blocks
  <2>1. t * PerThread \in Nat /\ (t + 1) * PerThread = t * PerThread + PerThread
    BY <1>0, SMT
  <2> DEFINE e == (t + 1) * PerThread
  <2>2. e \in Nat
    BY <1>0, <2>1
  <2>3. BlockEnd(t) = Min({e, Blocks})
    BY DEF BlockEnd
  <2> HIDE DEF e
  <2>4. Min({e, Blocks}) \in {e, Blocks} /\ \A m \in {e, Blocks} : Min({e, Blocks}) <= m
    BY <1>0, <2>2, MinProps
  <2>5. BlockEnd(t) = IF e <= Blocks THEN e ELSE Blocks
    BY <1>0, <2>2, <2>3, <2>4
  <2> QED BY <2>1, <2>5 DEF e
<1>5. ASSUME NEW t \in Tasks
      PROVE  /\ BlockBegin(t) \in 0 .. Blocks - 1
             /\ BlockEnd(t) \in 1 .. Blocks
             /\ BlockBegin(t) < BlockEnd(t)
             /\ BlockEnd(t) <= (t + 1) * PerThread
             /\ BlockBegin(t) = 0 <=> t = 0
  <2>1. t \in Nat /\ t * PerThread < Blocks /\ BlockBegin(t) = t * PerThread
    BY <1>3 DEF BlockBegin
  <2>2. BlockBegin(t) \in 0 .. Blocks - 1 /\ BlockEnd(t) \in 1 .. Blocks
        /\ BlockBegin(t) < BlockEnd(t) /\ BlockEnd(t) <= (t + 1) * PerThread
    BY <1>0, <1>4, <2>1
  <2>3. t * PerThread = 0 <=> t = 0
    BY <1>0, <2>1, SMT
  <2> QED BY <2>1, <2>2, <2>3
<1>6. ASSUME NEW t \in Tasks, NEW u \in Tasks, t < u PROVE BlockEnd(t) <= BlockBegin(u)
  <2>1. t \in Nat /\ u \in Nat /\ t + 1 \in Nat /\ t + 1 <= u
    BY <1>3, <1>6
  <2>2. (t + 1) * PerThread <= u * PerThread /\ u * PerThread \in Nat
    BY <1>0, <2>1, Multiply
  <2>3. BlockEnd(t) <= (t + 1) * PerThread /\ BlockEnd(t) \in Nat
    BY <1>5, <1>0
  <2>4. (t + 1) * PerThread \in Nat
    BY <1>0, <1>4, <2>1
  <2> QED BY <2>2, <2>3, <2>4 DEF BlockBegin
<1>7. ASSUME NEW b \in 0 .. Blocks - 1
      PROVE  \E t \in Tasks : BlockBegin(t) <= b /\ b < BlockEnd(t)
  <2> DEFINE t == b \div PerThread
  <2>1. b \in Nat /\ t \in Nat
    BY <1>0, DivMod
  <2>2. t * PerThread <= b /\ b < (t + 1) * PerThread
    <3>1. t + 1 \in Nat /\ t <= t /\ t < t + 1
      BY <2>1
    <3> QED BY <1>0, <2>1, <3>1, Quotient
  <2> HIDE DEF t
  <2>3. t \in Tasks
    BY <1>0, <1>3, <1>4, <2>1, <2>2
  <2>4. BlockBegin(t) <= b /\ b < BlockEnd(t)
    BY <1>0, <1>4, <2>1, <2>2 DEF BlockBegin
  <2> QED BY <2>3, <2>4
<1> QED BY <1>3, <1>5, <1>6, <1>7

-----------------------------------------------------------------------------
(***************************************************************************)
(* The rows and words of a task.                                           *)
(***************************************************************************)
\* The rows that a task is responsible for.
Owned(t) ==
    IF group.shrink_runs THEN Compared(t)
    ELSE {r \in 0 .. Count - 1 : BlockBegin(t) * VectorSize <= r /\ r < BlockEnd(t) * VectorSize}

\* The words of a task, without merge pruning.
OwnWords(t) == BeginEntry(t) .. EndEntry(t) - 1

\* The ranges begin at words, and the words of a range are those of its rows.
LEMMA EntryFacts ==
    ASSUME GroupOK, NEW t \in Tasks
    PROVE  /\ BeginEntry(t) \in Nat /\ EndEntry(t) \in Nat
           /\ \A q \in Nat : q < BeginEntry(t) <=> q * WordBits < BlockBegin(t) * VectorSize
           /\ \A q \in Nat : q < EndEntry(t) <=>
                 q * WordBits < BlockEnd(t) * VectorSize /\ q * WordBits < Count
           /\ \A r \in 0 .. Count - 1 :
                 /\ BeginEntry(t) <= r \div WordBits <=> BlockBegin(t) * VectorSize <= r
                 /\ r \div WordBits < EndEntry(t) <=> r < BlockEnd(t) * VectorSize
<1>0. /\ VectorSize \in Nat \ {0} /\ WordBits \in Nat \ {0} /\ PerThread \in Nat \ {0}
      /\ Blocks \in Nat \ {0} /\ Count \in Nat \ {0} /\ t \in Nat
      /\ BlockBegin(t) \in Nat /\ BlockEnd(t) \in Nat
  BY NumbersAssumption, PerThreadFacts, GroupFacts, CountType, TaskFacts
<1>1. PICK j \in Nat : PerThread * VectorSize = j * WordBits
  BY PerThreadFacts
<1>a. ASSUME NEW u \in Nat
      PROVE  u * j \in Nat /\ (u * PerThread) * VectorSize = (u * j) * WordBits
  <2>1. (u * PerThread) * VectorSize = u * (PerThread * VectorSize)
    BY <1>0, SMT
  <2>2. u * (j * WordBits) = (u * j) * WordBits /\ u * j \in Nat
    BY <1>0, SMT
  <2> QED BY <1>1, <2>1, <2>2
<1> DEFINE x == BlockBegin(t) * VectorSize
           y == BlockEnd(t) * VectorSize
           z == Min({y, Count})
<1>2. x \in Nat /\ y \in Nat
  BY <1>0, SMT
<1>3. z = IF y <= Count THEN y ELSE Count
  <2>1. {y, Count} \subseteq Nat /\ {y, Count} # {}
    BY <1>0, <1>2
  <2> HIDE DEF y
  <2>2. z \in {y, Count} /\ \A m \in {y, Count} : z <= m
    BY <2>1, MinProps
  <2> HIDE DEF z
  <2> QED BY <1>0, <1>2, <2>2
<1>4. BeginEntry(t) = EntryCount(x) /\ EndEntry(t) = EntryCount(z)
  BY DEF BeginEntry, EndEntry
<1> HIDE DEF z
<1>5. z \in Nat /\ \A m \in Nat : m < z <=> m < y /\ m < Count
  BY <1>0, <1>2, <1>3
<1>6. BeginEntry(t) \in Nat /\ \A q \in Nat : q < BeginEntry(t) <=> q * WordBits < x
  BY <1>0, <1>2, <1>4, RoundUp, ZenonT(60) DEF EntryCount
<1>7. EndEntry(t) \in Nat /\ \A q \in Nat : q < EndEntry(t) <=> q * WordBits < z
  BY <1>0, <1>4, <1>5, RoundUp DEF EntryCount
<1>8. \A q \in Nat : q < EndEntry(t) <=> q * WordBits < y /\ q * WordBits < Count
  <2> TAKE q \in Nat
  <2>1. q * WordBits \in Nat
    BY <1>0, SMT
  <2> QED BY <1>5, <1>7, <2>1
<1>9. BeginEntry(t) = t * j /\ x = (t * j) * WordBits /\ t * j \in Nat
  <2>1. t * j \in Nat /\ x = (t * j) * WordBits
    BY <1>0, <1>a DEF BlockBegin
  <2>2. CeilDiv((t * j) * WordBits, WordBits) = t * j
    BY <1>0, <2>1, RoundMultiple
  <2> QED BY <1>4, <2>1, <2>2 DEF EntryCount
<1>10. ASSUME NEW r \in 0 .. Count - 1
       PROVE  /\ BeginEntry(t) <= r \div WordBits <=> x <= r
              /\ r \div WordBits < EndEntry(t) <=> r < y
  <2> DEFINE w == r \div WordBits
  <2>1. r \in Nat /\ w \in Nat /\ w * WordBits \in Nat /\ w * WordBits <= r
    <3>1. r \in Nat /\ w \in Nat
      BY <1>0, DivMod
    <3>2. w * WordBits \in Nat
      BY <1>0, <3>1, SMT
    <3>3. w <= w
      BY <3>1
    <3> QED BY <1>0, <3>1, <3>2, <3>3, Quotient
  <2>2. BeginEntry(t) <= w <=> x <= r
    BY <1>0, <1>9, <2>1, Quotient
  <2>3. r < y => w < EndEntry(t)
    <3> HIDE DEF w, x, y
    <3> QED BY <1>0, <1>2, <1>8, <2>1
  <2>4. ASSUME w < EndEntry(t) PROVE r < y
    <3>1. w * WordBits < y
      BY <1>8, <2>1, <2>4
    <3>2. CASE BlockEnd(t) = (t + 1) * PerThread
      <4>1. t + 1 \in Nat
        BY <1>0
      <4>2. y = ((t + 1) * j) * WordBits /\ (t + 1) * j \in Nat
        BY <1>a, <3>2, <4>1
      <4> DEFINE k == (t + 1) * j
      <4>3. k \in Nat /\ y = k * WordBits
        BY <4>2
      <4> HIDE DEF k, y
      <4>4. w * WordBits < k * WordBits
        BY <3>1, <4>3
      <4>5. w < k
        <5>1. k <= w => k * WordBits <= w * WordBits
          BY <1>0, <2>1, <4>3, Multiply
        <5>2. k * WordBits \in Nat
          BY <1>2, <4>3
        <5> HIDE DEF w
        <5> QED BY <2>1, <4>3, <4>4, <5>1, <5>2
      <4>6. r < k * WordBits
        BY <1>0, <2>1, <4>3, <4>5, Quotient
      <4> QED BY <4>3, <4>6
    <3>3. CASE BlockEnd(t) # (t + 1) * PerThread
      <4>1. BlockEnd(t) = Blocks
        <5>1. (t + 1) * PerThread \in Nat
          BY <1>0, SMT
        <5>2. {(t + 1) * PerThread, Blocks} \subseteq Nat
          BY <1>0, <5>1
        <5>3. Min({(t + 1) * PerThread, Blocks}) \in {(t + 1) * PerThread, Blocks}
          BY <5>2, MinProps
        <5> QED BY <3>3, <5>3 DEF BlockEnd
      <4>2. Count <= y
        BY <1>0, <4>1, SumsGrow, CountType
      <4> HIDE DEF y
      <4> QED BY <1>0, <1>2, <4>2
    <3> QED BY <3>2, <3>3
  <2> QED BY <2>2, <2>3, <2>4
<1> QED BY <1>6, <1>7, <1>8, <1>10

\* Two tasks have no word in common.
LEMMA WordsApart ==
    ASSUME GroupOK, NEW t \in Tasks, NEW u \in Tasks, t # u
    PROVE  OwnWords(t) \cap OwnWords(u) = {}
<1>1. ASSUME NEW v \in Tasks, NEW w \in Tasks, v < w PROVE EndEntry(v) <= BeginEntry(w)
  <2>1. BlockEnd(v) * VectorSize <= BlockBegin(w) * VectorSize
        /\ BlockEnd(v) * VectorSize \in Nat /\ BlockBegin(w) * VectorSize \in Nat
    <3>1. BlockEnd(v) \in Nat /\ BlockBegin(w) \in Nat /\ BlockEnd(v) <= BlockBegin(w)
          /\ VectorSize \in Nat
      BY <1>1, TaskFacts, GroupFacts, NumbersAssumption
    <3> QED BY <3>1, Multiply
  <2>2. /\ EndEntry(v) \in Nat /\ BeginEntry(w) \in Nat
        /\ \A q \in Nat : q < BeginEntry(w) <=> q * WordBits < BlockBegin(w) * VectorSize
        /\ \A q \in Nat : q < EndEntry(v) => q * WordBits < BlockEnd(v) * VectorSize
    BY EntryFacts
  <2>3. \A q \in Nat : q < EndEntry(v) => q < BeginEntry(w)
    <3> TAKE q \in Nat
    <3>1. q * WordBits \in Nat
      BY NumbersAssumption, SMT
    <3> QED BY <2>1, <2>2, <3>1
  <2> QED BY <2>2, <2>3
<1>2. t \in Nat /\ u \in Nat
  BY TaskFacts
<1>3. /\ EndEntry(t) \in Nat /\ BeginEntry(t) \in Nat
      /\ EndEntry(u) \in Nat /\ BeginEntry(u) \in Nat
  BY EntryFacts
<1>4. CASE t < u
  BY <1>1, <1>3, <1>4 DEF OwnWords
<1>5. CASE u < t
  BY <1>1, <1>3, <1>5 DEF OwnWords
<1> QED BY <1>2, <1>4, <1>5

\* On sorted rows a task is responsible for the rows that it compares.
LEMMA OwnedCompared ==
    ASSUME GroupOK, NEW t \in Tasks
    PROVE  /\ Compared(t) \subseteq 0 .. Count - 1
           /\ group.shrink_runs \/ group.sorted => Owned(t) = Compared(t)
<1> DEFINE b == BlockBegin(t)
           e == BlockEnd(t)
<1>0. /\ Blocks \in Nat \ {0} /\ Count \in Nat \ {0} /\ Count = BlockSum(Blocks)
      /\ VectorSize \in Nat
      /\ b \in 0 .. Blocks - 1 /\ e \in 1 .. Blocks /\ b < e
  BY GroupFacts, CountType, TaskFacts, NumbersAssumption
<1>1. b \in 0 .. Blocks /\ e \in 0 .. Blocks /\ Blocks \in 0 .. Blocks
  BY <1>0
<1>2. BlockSum(b) \in Nat /\ BlockSum(e) \in Nat
  BY <1>1, GroupFacts
<1>3. BlockSum(e) <= Count /\ (e # Blocks => BlockSum(e) < Count)
  <2>1. CASE e = Blocks
    BY <1>0, <2>1
  <2>2. CASE e # Blocks
    <3>1. e < Blocks
      BY <1>0, <2>2
    <3>2. BlockSum(e) < BlockSum(Blocks)
      BY <1>1, <3>1, SumsGrow
    <3> QED BY <1>0, <1>2, <3>2
  <2> QED BY <2>1, <2>2
<1>4. Compared(t) = BlockSum(b) .. BlockSum(e) - 1
  BY DEF Compared
<1>5. Compared(t) \subseteq 0 .. Count - 1
  <2> HIDE DEF b, e
  <2> QED BY <1>0, <1>2, <1>3, <1>4
<1>6. CASE group.shrink_runs
  BY <1>5, <1>6 DEF Owned
<1>7. CASE ~group.shrink_runs /\ group.sorted
  <2>1. BlockSum(b) = b * VectorSize
    BY <1>0, <1>7, GroupFacts
  <2>2. \A r \in 0 .. Count - 1 : r < BlockSum(e) <=> r < e * VectorSize
    <3>1. CASE e = Blocks
      <4>1. Count <= e * VectorSize /\ e * VectorSize \in Nat
        <5>1. BlockSum(e) <= e * VectorSize
          BY <1>1, SumsGrow
        <5>2. e * VectorSize \in Nat
          BY <1>0, SMT
        <5> QED BY <1>0, <3>1, <5>1, <5>2
      <4> HIDE DEF b, e
      <4> QED BY <1>0, <3>1, <4>1
    <3>2. CASE e # Blocks
      <4>1. e \in 0 .. Blocks - 1
        BY <1>0, <3>2
      <4>2. BlockSum(e) = e * VectorSize
        BY <1>7, <4>1, GroupFacts
      <4> QED BY <4>2
    <3> QED BY <3>1, <3>2
  <2>3. Owned(t) = {r \in 0 .. Count - 1 : b * VectorSize <= r /\ r < e * VectorSize}
    BY <1>7 DEF Owned
  <2> HIDE DEF b, e
  <2>4. Owned(t) = {r \in 0 .. Count - 1 : BlockSum(b) <= r /\ r < BlockSum(e)}
    BY <2>1, <2>2, <2>3, Zenon
  <2>5. \A r : r \in Compared(t) <=> r \in 0 .. Count - 1 /\ BlockSum(b) <= r /\ r < BlockSum(e)
    BY <1>0, <1>2, <1>3, <1>4
  <2> QED BY <1>5, <2>4, <2>5, Zenon
<1> QED BY <1>5, <1>6, <1>7

\* A row has a bit in a word of the mask, and no other row has it.
LEMMA RowFacts ==
    ASSUME GroupOK, NEW r \in 0 .. Count - 1
    PROVE  /\ r \in Nat /\ r \div WordBits \in Nat /\ r % WordBits \in Bits
           /\ r \div WordBits < EntryCount(Count) /\ EntryCount(Count) \in Nat
           /\ r = (r \div WordBits) * WordBits + (r % WordBits)
<1>0. r \in Nat /\ WordBits \in Nat \ {0} /\ Count \in Nat
  BY CountType, NumbersAssumption
<1> DEFINE w == r \div WordBits
<1>1. w \in Nat /\ r % WordBits \in 0 .. WordBits - 1 /\ r = WordBits * w + (r % WordBits)
  BY <1>0, DivMod
<1>2. w * WordBits \in Nat /\ WordBits * w = w * WordBits
  BY <1>0, <1>1, SMT
<1>3. w * WordBits < Count
  <2> HIDE DEF w
  <2> QED BY <1>0, <1>1, <1>2
<1>4. EntryCount(Count) \in Nat /\ w < EntryCount(Count)
  BY <1>0, <1>1, <1>3, RoundUp DEF EntryCount
<1> QED BY <1>0, <1>1, <1>2, <1>4 DEF Bits

\* The word of a row of the task is one of its words.
LEMMA OwnedWord ==
    ASSUME GroupOK, ~group.shrink_runs, NEW t \in Tasks, NEW r \in 0 .. Count - 1
    PROVE  r \in Owned(t) <=> r \div WordBits \in OwnWords(t)
<1>1. /\ BeginEntry(t) <= r \div WordBits <=> BlockBegin(t) * VectorSize <= r
      /\ r \div WordBits < EndEntry(t) <=> r < BlockEnd(t) * VectorSize
  BY EntryFacts
<1>2. r \div WordBits \in Nat /\ BeginEntry(t) \in Nat /\ EndEntry(t) \in Nat
  BY RowFacts, EntryFacts
<1>3. r \in Owned(t) <=> BlockBegin(t) * VectorSize <= r /\ r < BlockEnd(t) * VectorSize
  BY DEF Owned
<1> DEFINE w == r \div WordBits
<1>4. w \in OwnWords(t) <=> BeginEntry(t) <= w /\ w < EndEntry(t)
  <2> HIDE DEF w
  <2> QED BY <1>2 DEF OwnWords, w
<1> QED BY <1>1, <1>3, <1>4

\* Every row belongs to one task.
LEMMA OwnedPartition ==
    ASSUME GroupOK
    PROVE  /\ \A t \in Tasks : Owned(t) \subseteq 0 .. Count - 1
           /\ \A r \in 0 .. Count - 1 : \E t \in Tasks : r \in Owned(t)
           /\ \A t, u \in Tasks : t # u => Owned(t) \cap Owned(u) = {}
<1>0. /\ Blocks \in Nat \ {0} /\ Count \in Nat \ {0} /\ Count = BlockSum(Blocks)
      /\ VectorSize \in Nat \ {0} /\ Tasks \subseteq Nat
  BY GroupFacts, CountType, TaskFacts, NumbersAssumption
<1>s. \A b, c \in 0 .. Blocks : b <= c => BlockSum(b) <= BlockSum(c)
  <2> TAKE b, c \in 0 .. Blocks
  <2>1. BlockSum(b) \in Nat /\ BlockSum(c) \in Nat
    BY GroupFacts
  <2>2. b < c => BlockSum(b) < BlockSum(c)
    BY SumsGrow
  <2> QED BY <1>0, <2>1, <2>2
<1>b. \A t \in Tasks : BlockBegin(t) \in 0 .. Blocks /\ BlockEnd(t) \in 0 .. Blocks
  BY <1>0, TaskFacts
<1>n. \A b \in 0 .. Blocks : BlockSum(b) \in Nat
  BY GroupFacts
<1>1. \A t \in Tasks : Owned(t) \subseteq 0 .. Count - 1
  BY OwnedCompared DEF Owned
<1>2. CASE group.shrink_runs
  <2>1. \A t \in Tasks : Owned(t) = BlockSum(BlockBegin(t)) .. BlockSum(BlockEnd(t)) - 1
    BY <1>2 DEF Owned, Compared
  <2>2. ASSUME NEW r \in 0 .. Count - 1 PROVE \E t \in Tasks : r \in Owned(t)
    <3>1. PICK b \in 0 .. Blocks - 1 : BlockSum(b) <= r /\ r < BlockSum(b + 1)
      BY BlockOfRow
    <3>2. PICK t \in Tasks : BlockBegin(t) <= b /\ b < BlockEnd(t)
      BY TaskFacts
    <3>3. b \in 0 .. Blocks /\ b + 1 \in 0 .. Blocks /\ b + 1 <= BlockEnd(t) /\ r \in Nat
      BY <1>0, <1>b, <3>2
    <3>4. BlockSum(BlockBegin(t)) <= BlockSum(b) /\ BlockSum(b + 1) <= BlockSum(BlockEnd(t))
      BY <1>s, <1>b, <3>2, <3>3
    <3>5. /\ BlockSum(BlockBegin(t)) \in Nat /\ BlockSum(b) \in Nat
          /\ BlockSum(b + 1) \in Nat /\ BlockSum(BlockEnd(t)) \in Nat
      BY <1>n, <1>b, <3>3
    <3>6. r \in BlockSum(BlockBegin(t)) .. BlockSum(BlockEnd(t)) - 1
      BY <3>1, <3>3, <3>4, <3>5
    <3> QED BY <2>1, <3>6
  <2>3. ASSUME NEW t \in Tasks, NEW u \in Tasks, t < u PROVE Owned(t) \cap Owned(u) = {}
    <3>1. BlockEnd(t) <= BlockBegin(u)
      BY <2>3, TaskFacts
    <3>2. BlockSum(BlockEnd(t)) <= BlockSum(BlockBegin(u))
      BY <1>b, <1>s, <3>1
    <3>3. /\ BlockSum(BlockBegin(t)) \in Nat /\ BlockSum(BlockEnd(t)) \in Nat
          /\ BlockSum(BlockBegin(u)) \in Nat /\ BlockSum(BlockEnd(u)) \in Nat
      BY <1>n, <1>b
    <3> QED BY <2>1, <3>2, <3>3
  <2>4. ASSUME NEW t \in Tasks, NEW u \in Tasks, t # u PROVE Owned(t) \cap Owned(u) = {}
    <3>1. t < u \/ u < t
      BY <1>0, <2>4
    <3>2. Owned(t) \cap Owned(u) = {} \/ Owned(u) \cap Owned(t) = {}
      BY <2>3, <3>1
    <3> QED BY <3>2
  <2> QED BY <1>1, <2>2, <2>4
<1>3. CASE ~group.shrink_runs
  <2>1. \A t \in Tasks : Owned(t) = {r \in 0 .. Count - 1 : BlockBegin(t) * VectorSize <= r
                                                           /\ r < BlockEnd(t) * VectorSize}
    BY <1>3 DEF Owned
  <2>2. ASSUME NEW r \in 0 .. Count - 1 PROVE \E t \in Tasks : r \in Owned(t)
    <3> DEFINE b == r \div VectorSize
    <3>1. r \in Nat /\ b \in Nat
      <4>1. r \in Nat
        BY RowFacts
      <4> QED BY <1>0, <4>1, DivMod
    <3>2. \A q \in Nat : (r < q * VectorSize <=> b < q) /\ (q * VectorSize <= r <=> q <= b)
      BY <1>0, <3>1, Quotient
    <3> HIDE DEF b
    <3>3. b \in 0 .. Blocks - 1
      <4>1. Count <= Blocks * VectorSize
        BY <1>0, SumsGrow
      <4>2. Blocks * VectorSize \in Nat
        BY <1>0, SMT
      <4>3. r < Blocks * VectorSize
        BY <1>0, <4>1, <4>2
      <4> QED BY <1>0, <3>1, <3>2, <4>3
    <3>4. PICK t \in Tasks : BlockBegin(t) <= b /\ b < BlockEnd(t)
      BY <3>3, TaskFacts
    <3>5. BlockBegin(t) \in Nat /\ BlockEnd(t) \in Nat
      BY <1>0, <1>b
    <3>6. BlockBegin(t) * VectorSize <= r /\ r < BlockEnd(t) * VectorSize
      BY <3>2, <3>4, <3>5
    <3> QED BY <2>1, <3>6
  <2>3. ASSUME NEW t \in Tasks, NEW u \in Tasks, t # u, NEW r \in Owned(t), r \in Owned(u)
        PROVE  FALSE
    <3>1. r \in 0 .. Count - 1
      BY <1>1
    <3>2. r \div WordBits \in OwnWords(t) /\ r \div WordBits \in OwnWords(u)
      BY <1>3, <2>3, <3>1, OwnedWord
    <3> QED BY <2>3, <3>2, WordsApart
  <2> QED BY <1>1, <2>2, <2>3
<1> QED BY <1>2, <1>3

\* A task sets the bits of its own rows that begin a window partition.
LEMMA OwnedBegins ==
    ASSUME GroupOK, NEW t \in Tasks
    PROVE  /\ Distinct(t) = Owned(t) \cap (Begins \ {0})
           /\ 0 \in Owned(t) <=> BlockBegin(t) = 0
           /\ HasNoRange(t) => Owned(t) = {}
<1>0. Count \in Nat \ {0} /\ Blocks \in Nat \ {0}
  BY CountType, GroupFacts
<1>1. Distinct(t) = Owned(t) \cap (Begins \ {0})
  <2>1. CASE group.sorted
    BY <2>1, OwnedCompared DEF Distinct
  <2>2. CASE ~group.sorted
    BY <2>2, GroupFacts DEF Distinct
  <2> QED BY <2>1, <2>2
<1>b. BlockBegin(t) \in 0 .. Blocks - 1 /\ BlockEnd(t) \in 1 .. Blocks /\ BlockBegin(t) < BlockEnd(t)
  BY TaskFacts
<1>2. 0 \in Owned(t) <=> BlockBegin(t) = 0
  <2>1. CASE group.shrink_runs
    <3>1. BlockBegin(t) \in 0 .. Blocks /\ BlockEnd(t) \in 0 .. Blocks /\ 0 \in 0 .. Blocks
      BY <1>0, <1>b
    <3>2. /\ BlockSum(BlockBegin(t)) < BlockSum(BlockEnd(t)) /\ BlockSum(0) = 0
          /\ BlockSum(BlockBegin(t)) \in Nat /\ BlockSum(BlockEnd(t)) \in Nat
          /\ 0 < BlockBegin(t) => 0 < BlockSum(BlockBegin(t))
      BY <1>b, <3>1, GroupFacts, SumsGrow
    <3>3. Owned(t) = BlockSum(BlockBegin(t)) .. BlockSum(BlockEnd(t)) - 1
      BY <2>1 DEF Owned, Compared
    <3>4. BlockBegin(t) \in Nat /\ (BlockBegin(t) = 0 => BlockSum(BlockBegin(t)) = 0)
      BY <1>b, <3>2
    <3> QED BY <3>2, <3>3, <3>4
  <2>2. CASE ~group.shrink_runs
    <3>1. 0 \in Owned(t) <=> BlockBegin(t) * VectorSize <= 0 /\ 0 < BlockEnd(t) * VectorSize
      BY <1>0, <2>2 DEF Owned
    <3> DEFINE b == BlockBegin(t)
               e == BlockEnd(t)
    <3>2. b \in Nat /\ e \in Nat \ {0} /\ VectorSize \in Nat \ {0}
      BY <1>b, <1>0, NumbersAssumption
    <3> HIDE DEF b, e
    <3>3. (b * VectorSize <= 0 <=> b = 0) /\ 0 < e * VectorSize
      BY <3>2, SMT
    <3> QED BY <3>1, <3>3 DEF b, e
  <2> QED BY <2>1, <2>2
<1>3. ASSUME HasNoRange(t), NEW r \in Owned(t) PROVE FALSE
  <2>1. r \in 0 .. Count - 1 /\ ~group.shrink_runs
    BY <1>3, OwnedPartition DEF HasNoRange
  <2>2. r \div WordBits \in OwnWords(t)
    BY <2>1, OwnedWord
  <2>3. BeginEntry(t) \in Nat /\ EndEntry(t) \in Nat /\ BeginEntry(t) >= EndEntry(t)
    BY <1>3, EntryFacts DEF HasNoRange
  <2>4. OwnWords(t) = {}
    BY <2>3 DEF OwnWords
  <2> QED BY <2>2, <2>4
<1> QED BY <1>1, <1>2, <1>3

-----------------------------------------------------------------------------
(***************************************************************************)
(* The operations of a task.                                               *)
(***************************************************************************)
OpSet == [word : Int, keep : SUBSET Bits, set : SUBSET Bits]

\* The fields of an operation.
LEMMA OpFields ==
    ASSUME NEW w \in Int, NEW keep \in SUBSET Bits, NEW set \in SUBSET Bits
    PROVE  /\ Op(w, keep, set) \in OpSet
           /\ Op(w, keep, set).word = w
           /\ Op(w, keep, set).keep = keep
           /\ Op(w, keep, set).set = set
  BY DEF Op, OpSet

\* Two sequences, one after the other.
LEMMA Concat ==
    ASSUME NEW S, NEW a \in Seq(S), NEW b \in Seq(S)
    PROVE  /\ a \o b \in Seq(S) /\ Len(a \o b) = Len(a) + Len(b)
           /\ Len(a) \in Nat /\ Len(b) \in Nat
           /\ \A n \in 1 .. Len(a) : (a \o b)[n] = a[n]
           /\ \A n \in 1 .. Len(b) : (a \o b)[Len(a) + n] = b[n]
  OBVIOUS

\* Nth enumerates a set of rows.
LEMMA NthEnumerates ==
    ASSUME NEW top \in Nat, NEW S \in SUBSET (0 .. top)
    PROVE  /\ Cardinality(S) \in Nat
           /\ \A n \in 1 .. Cardinality(S) : Nth(S, n) \in S
           /\ \A r \in S : \E n \in 1 .. Cardinality(S) : Nth(S, n) = r
<1> DEFINE U(r) == {s \in S : s <= r}
           D(r) == {s \in S : s < r}
<1>1. IsFiniteSet(S) /\ Cardinality(S) \in Nat /\ S \subseteq Nat
  <2>1. IsFiniteSet(0 .. top)
    BY FS_Interval
  <2>2. IsFiniteSet(S)
    BY <2>1, FS_Subset
  <2> QED BY <2>2, FS_CardinalityType
<1>2. \A r : /\ IsFiniteSet(U(r)) /\ Cardinality(U(r)) \in Nat /\ Cardinality(U(r)) <= Cardinality(S)
             /\ IsFiniteSet(D(r)) /\ Cardinality(D(r)) \in Nat
  <2> TAKE r
  <2>1. U(r) \subseteq S /\ D(r) \subseteq S
    OBVIOUS
  <2> HIDE DEF U, D
  <2> QED BY <1>1, <2>1, FS_Subset, FS_CardinalityType
<1>n. \A r \in S : r \in Nat
  BY <1>1
<1>3. \A r \in S : r \notin D(r) /\ U(r) = D(r) \cup {r}
  <2> TAKE r \in S
  <2>1. \A s \in S : s <= r <=> s < r \/ s = r
    BY <1>n
  <2>2. ~(r < r)
    BY <1>n
  <2> QED BY <2>1, <2>2, Zenon
<1>4. \A r \in S : Cardinality(U(r)) = Cardinality(D(r)) + 1
  <2> TAKE r \in S
  <2> HIDE DEF U, D
  <2> QED BY <1>2, <1>3, FS_AddElement
<1>5. ASSUME NEW n \in 1 .. Cardinality(S) PROVE \E r \in S : Cardinality(U(r)) = n
  <2> DEFINE Good == {r \in Nat : Cardinality(U(r)) >= n}
  <2>1. top \in Good
    <3>1. \A s \in S : s <= top
      OBVIOUS
    <3>2. U(top) = S
      BY <3>1, Zenon
    <3> QED BY <1>1, <3>2
  <2>2. PICK r \in Good : \A s \in Good : r <= s
    <3>1. Good \subseteq Nat
      OBVIOUS
    <3> HIDE DEF Good
    <3> QED BY <2>1, <3>1, SmallestNat
  <2>3. r \in Nat /\ Cardinality(U(r)) >= n
    OBVIOUS
  <2>4. Cardinality(D(r)) < n
    <3>1. CASE r = 0
      <4>0. \A s \in S : ~(s < r)
        BY <1>n, <3>1
      <4>1. D(r) = {}
        BY <4>0, Zenon
      <4>2. Cardinality(D(r)) = 0
        BY <4>1, FS_EmptySet
      <4> QED BY <1>1, <4>2
    <3>2. CASE r # 0
      <4>1. r - 1 \in Nat /\ ~(r <= r - 1)
        BY <2>3, <3>2
      <4>2. r - 1 \notin Good
        <5> HIDE DEF Good
        <5> QED BY <2>2, <4>1
      <4>x. \A s \in S : s < r <=> s <= r - 1
        BY <1>n, <2>3
      <4>3. D(r) = U(r - 1)
        BY <4>x, Zenon
      <4>4. ~(Cardinality(U(r - 1)) >= n)
        BY <4>1, <4>2
      <4>5. Cardinality(U(r - 1)) \in Nat
        BY <1>2
      <4> HIDE DEF D, U
      <4> QED BY <1>1, <4>3, <4>4, <4>5
    <3> QED BY <3>1, <3>2
  <2>5. r \in S
    <3> SUFFICES ASSUME r \notin S PROVE FALSE
      OBVIOUS
    <3>0. \A s \in S : s <= r <=> s < r
      BY <1>n, <2>3
    <3>1. U(r) = D(r)
      BY <3>0, Zenon
    <3>2. Cardinality(D(r)) \in Nat
      BY <1>2
    <3> HIDE DEF D, U
    <3> QED BY <1>1, <2>3, <2>4, <3>1, <3>2
  <2>6. Cardinality(U(r)) = n
    <3>1. Cardinality(U(r)) = Cardinality(D(r)) + 1 /\ Cardinality(D(r)) \in Nat
      BY <1>2, <1>4, <2>5
    <3> HIDE DEF D, U, Good
    <3> QED BY <1>1, <2>3, <2>4, <3>1
  <2> QED BY <2>5, <2>6
<1>6. ASSUME NEW r \in S, NEW s \in S, r < s PROVE Cardinality(U(r)) # Cardinality(U(s))
  <2>0. \A x \in S : x <= r => x < s
    BY <1>n, <1>6
  <2>1. U(r) \subseteq D(s)
    BY <2>0, Zenon
  <2>2. Cardinality(U(r)) <= Cardinality(D(s))
    <3> HIDE DEF U, D
    <3> QED BY <1>2, <2>1, FS_Subset
  <2>3. Cardinality(U(s)) = Cardinality(D(s)) + 1 /\ Cardinality(D(s)) \in Nat
        /\ Cardinality(U(r)) \in Nat
    BY <1>2, <1>4
  <2> HIDE DEF U, D
  <2> QED BY <2>2, <2>3
<1>7. \A n : Nth(S, n) = CHOOSE r \in S : Cardinality(U(r)) = n
  BY DEF Nth
<1>8. ASSUME NEW n \in 1 .. Cardinality(S)
      PROVE  Nth(S, n) \in S /\ Cardinality(U(Nth(S, n))) = n
  <2> HIDE DEF U
  <2> QED BY <1>5, <1>7
<1>9. ASSUME NEW r \in S PROVE \E n \in 1 .. Cardinality(S) : Nth(S, n) = r
  <2> DEFINE n == Cardinality(U(r))
  <2>1. n \in 1 .. Cardinality(S)
    <3>1. n \in Nat /\ n <= Cardinality(S) /\ n = Cardinality(D(r)) + 1 /\ Cardinality(D(r)) \in Nat
      BY <1>2, <1>4
    <3> HIDE DEF n, D
    <3> QED BY <1>1, <3>1
  <2> DEFINE s == Nth(S, n)
  <2>2. s \in S /\ Cardinality(U(s)) = n
    BY <1>8, <2>1
  <2> HIDE DEF s
  <2>3. ~(r < s) /\ ~(s < r)
    BY <1>6, <2>2
  <2>4. s = r
    BY <1>1, <2>2, <2>3
  <2> QED BY <2>1, <2>4 DEF s
<1> QED BY <1>1, <1>8, <1>9

\* Rows in the order of their words and bits.
LEMMA WordOrder ==
    ASSUME NEW a \in Nat, NEW b \in Nat
    PROVE  /\ a \div WordBits \in Nat /\ a % WordBits \in Bits
           /\ b \div WordBits \in Nat /\ b % WordBits \in Bits
           /\ a < b => a \div WordBits <= b \div WordBits
           /\ a \div WordBits < b \div WordBits => a < b
           /\ a \div WordBits = b \div WordBits =>
                 (a < b <=> a % WordBits < b % WordBits)
<1> DEFINE p == a \div WordBits
           q == b \div WordBits
           x == a % WordBits
           y == b % WordBits
<1>0. WordBits \in Nat \ {0}
  BY NumbersAssumption
<1>1. p \in Nat /\ x \in 0 .. WordBits - 1 /\ a = WordBits * p + x
  BY <1>0, DivMod
<1>2. q \in Nat /\ y \in 0 .. WordBits - 1 /\ b = WordBits * q + y
  BY <1>0, DivMod
<1> HIDE DEF p, q, x, y
<1>3. p < q => WordBits * p + WordBits <= WordBits * q
  <2> SUFFICES ASSUME p < q PROVE WordBits * p + WordBits <= WordBits * q
    OBVIOUS
  <2>1. p + 1 \in Nat /\ p + 1 <= q
    BY <1>1, <1>2
  <2>2. (p + 1) * WordBits <= q * WordBits
    BY <1>0, <1>2, <2>1, Multiply
  <2>3. (p + 1) * WordBits = WordBits * p + WordBits /\ q * WordBits = WordBits * q
    BY <1>0, <1>1, <1>2, SMT
  <2> QED BY <2>2, <2>3
<1>4. q < p => WordBits * q + WordBits <= WordBits * p
  <2> SUFFICES ASSUME q < p PROVE WordBits * q + WordBits <= WordBits * p
    OBVIOUS
  <2>1. q + 1 \in Nat /\ q + 1 <= p
    BY <1>1, <1>2
  <2>2. (q + 1) * WordBits <= p * WordBits
    BY <1>0, <1>1, <2>1, Multiply
  <2>3. (q + 1) * WordBits = WordBits * q + WordBits /\ p * WordBits = WordBits * p
    BY <1>0, <1>1, <1>2, SMT
  <2> QED BY <2>2, <2>3
<1>5. WordBits * p \in Nat /\ WordBits * q \in Nat
  BY <1>0, <1>1, <1>2, SMT
<1>6. a < b => p <= q
  BY <1>0, <1>1, <1>2, <1>4, <1>5
<1>7. p < q => a < b
  BY <1>0, <1>1, <1>2, <1>3, <1>5
<1>8. p = q => (a < b <=> x < y)
  <2> SUFFICES ASSUME p = q PROVE a < b <=> x < y
    OBVIOUS
  <2>1. WordBits * p = WordBits * q
    OBVIOUS
  <2> QED BY <1>1, <1>2, <1>5, <2>1
<1> QED BY <1>1, <1>2, <1>6, <1>7, <1>8 DEF p, q, x, y, Bits

\* An operation that clears only rows of S and sets no row.
IsClear(op, S) ==
    /\ op \in OpSet /\ op.word \in 0 .. EntryCount(Count)
    /\ \A r \in 0 .. Count - 1 :
          r \div WordBits = op.word =>
             r % WordBits \notin op.set /\ (r \notin S => r % WordBits \in op.keep)

ClearsRow(op, r) == op.word = r \div WordBits /\ r % WordBits \notin op.keep

\* A sequence of such operations that clears all of S.
Clears(s, S) ==
    /\ s \in Seq(OpSet)
    /\ \A n \in 1 .. Len(s) : IsClear(s[n], S)
    /\ \A r \in S : \E n \in 1 .. Len(s) : ClearsRow(s[n], r)

\* SetEntryRangeInvalid clears the rows of its range.
LEMMA EntryRangeClears ==
    ASSUME GroupOK, NEW begin \in Nat, NEW end \in Nat, begin < end, end <= Count
    PROVE  Clears(EntryRangeInvalid(begin, end), begin .. end - 1)
<1> DEFINE S == begin .. end - 1
           p == begin \div WordBits
           q == end \div WordBits
           c == EntryCount(Count)
<1>0. WordBits \in Nat \ {0} /\ Count \in Nat \ {0}
  BY NumbersAssumption, CountType
<1>1. p \in Nat /\ q \in Nat /\ p <= q
  BY WordOrder
<1>2. c \in Nat /\ q <= c
  <2>1. c \in Nat /\ \A m \in Nat : m < c <=> m * WordBits < Count
    BY <1>0, RoundUp DEF EntryCount
  <2>2. ASSUME c < q PROVE FALSE
    <3>1. c + 1 \in Nat /\ c + 1 <= q
      BY <1>1, <2>1, <2>2
    <3>2. (c + 1) * WordBits <= end
      BY <1>0, <3>1, Quotient
    <3>3. c * WordBits \in Nat /\ (c + 1) * WordBits = c * WordBits + WordBits
      BY <1>0, <2>1, SMT
    <3>4. ~(c * WordBits < Count)
      BY <2>1
    <3> HIDE DEF c, q
    <3> QED BY <1>0, <3>2, <3>3, <3>4
  <2> HIDE DEF c, q
  <2> QED BY <1>1, <2>1, <2>2
<1>3. BeginMask(begin) \in SUBSET Bits /\ EndMask(end) \in SUBSET Bits
  BY DEF BeginMask, EndMask
<1>4. ASSUME NEW r \in 0 .. Count - 1
      PROVE  /\ r \in Nat /\ r % WordBits \in Bits /\ r \div WordBits \in Nat
             /\ r < begin => r \div WordBits <= p
             /\ ~(r < end) => q <= r \div WordBits
             /\ p < r \div WordBits => begin < r
             /\ r \div WordBits < q => r < end
             /\ r \div WordBits = p => (r < begin <=> r % WordBits \in BeginMask(begin))
             /\ r \div WordBits = q => (~(r < end) <=> r % WordBits \in EndMask(end))
  <2>1. r \in Nat
    BY RowFacts
  <2>2. /\ r \div WordBits \in Nat /\ r % WordBits \in Bits
        /\ end % WordBits \in Bits /\ begin % WordBits \in Bits
    BY <2>1, WordOrder
  <2>3. /\ r < begin => r \div WordBits <= p
        /\ p < r \div WordBits => begin < r
        /\ r \div WordBits < q => r < end
        /\ r \div WordBits = p => (r < begin <=> r % WordBits < begin % WordBits)
        /\ r \div WordBits = q => (r < end <=> r % WordBits < end % WordBits)
    BY <2>1, WordOrder
  <2>4. ~(r < end) => q <= r \div WordBits
    <3> DEFINE w == r \div WordBits
    <3>1. w \in Nat /\ (w < q => r < end)
      BY <2>2, <2>3
    <3> HIDE DEF w, q
    <3>2. ~(r < end) => q <= w
      BY <1>1, <3>1
    <3> QED BY <3>2 DEF w
  <2>5. r % WordBits \in BeginMask(begin) <=> r % WordBits < begin % WordBits
    BY <2>2 DEF BeginMask
  <2>6. r % WordBits \in EndMask(end) <=> r % WordBits >= end % WordBits
    BY <2>2 DEF EndMask
  <2>7. r % WordBits >= end % WordBits <=> ~(r % WordBits < end % WordBits)
    <3>1. r % WordBits \in Int /\ end % WordBits \in Int
      BY <2>2 DEF Bits
    <3> QED BY <3>1
  <2> QED BY <2>1, <2>2, <2>3, <2>4, <2>5, <2>6, <2>7
<1>5. \A r \in 0 .. Count - 1 : r \in S <=> ~(r < begin) /\ r < end
  BY <1>0
<1>6. S \subseteq 0 .. Count - 1
  BY <1>0
<1>7. CASE p = q
  <2> DEFINE keep == BeginMask(begin) \cup EndMask(end)
             op == Op(p, keep, {})
  <2>1. EntryRangeInvalid(begin, end) = <<op>>
    BY <1>7 DEF EntryRangeInvalid
  <2>2. op \in OpSet /\ op.word = p /\ op.keep = keep /\ op.set = {}
    BY <1>1, <1>3, OpFields
  <2>3. IsClear(op, S)
    <3>1. ASSUME NEW r \in 0 .. Count - 1, r \div WordBits = p, r \notin S
          PROVE  r % WordBits \in keep
      BY <1>4, <1>5, <1>7, <3>1
    <3>2. p \in 0 .. c
      BY <1>1, <1>2, <1>7
    <3> HIDE DEF op, S, keep, p, c
    <3> QED BY <2>2, <3>1, <3>2 DEF IsClear, c
  <2>4. ASSUME NEW r \in S PROVE ClearsRow(op, r)
    <3>1. r \in 0 .. Count - 1 /\ ~(r < begin) /\ r < end
      BY <1>5, <1>6
    <3>2. r \div WordBits = p
      <4>1. r \in Nat /\ (begin < r => p <= r \div WordBits) /\ r \div WordBits \in Nat
            /\ r \div WordBits <= q
        BY <1>4, <3>1, WordOrder
      <4>2. r = begin \/ begin < r
        BY <3>1, <4>1
      <4> QED BY <1>1, <1>7, <4>1, <4>2
    <3>3. r % WordBits \notin keep
      BY <1>4, <1>7, <3>1, <3>2
    <3> HIDE DEF op, keep
    <3> QED BY <2>2, <3>2, <3>3 DEF ClearsRow
  <2> HIDE DEF op, S
  <2>5. <<op>> \in Seq(OpSet) /\ Len(<<op>>) = 1 /\ <<op>>[1] = op
    BY <2>2
  <2>6. Clears(<<op>>, S)
    BY <2>3, <2>4, <2>5 DEF Clears
  <2> QED BY <2>1, <2>6 DEF S
<1>8. CASE p # q
  <2> DEFINE o1 == Op(p, BeginMask(begin), {})
             o2 == Op(q, EndMask(end), {})
             mid == [n \in 1 .. q - p - 1 |-> Op(p + n, {}, {})]
             s == <<o1, o2>> \o mid
  <2>0. p < q /\ q - p - 1 \in Nat
    BY <1>1, <1>8
  <2>1. EntryRangeInvalid(begin, end) = s
    BY <1>8 DEF EntryRangeInvalid
  <2>2. /\ o1 \in OpSet /\ o1.word = p /\ o1.keep = BeginMask(begin) /\ o1.set = {}
        /\ o2 \in OpSet /\ o2.word = q /\ o2.keep = EndMask(end) /\ o2.set = {}
    BY <1>1, <1>3, OpFields
  <2>3. \A n \in 1 .. q - p - 1 :
           /\ mid[n] \in OpSet /\ mid[n].word = p + n /\ mid[n].keep = {} /\ mid[n].set = {}
    BY <1>1, OpFields
  <2>4. mid \in Seq(OpSet) /\ Len(mid) = q - p - 1
    <3>1. mid \in [1 .. q - p - 1 -> OpSet]
      BY <2>3
    <3> HIDE DEF mid
    <3> QED BY <2>0, <3>1
  <2>5. <<o1, o2>> \in Seq(OpSet) /\ Len(<<o1, o2>>) = 2
        /\ <<o1, o2>>[1] = o1 /\ <<o1, o2>>[2] = o2
    <3> HIDE DEF o1, o2
    <3> QED BY <2>2
  <2>6. /\ s \in Seq(OpSet) /\ Len(s) = 2 + (q - p - 1)
        /\ s[1] = o1 /\ s[2] = o2
        /\ \A n \in 1 .. q - p - 1 : s[2 + n] = mid[n]
    <3> DEFINE pair == <<o1, o2>>
    <3>1. pair \in Seq(OpSet) /\ Len(pair) = 2 /\ pair[1] = o1 /\ pair[2] = o2 /\ s = pair \o mid
      BY <2>5
    <3> HIDE DEF pair, mid, s, o1, o2
    <3>2. /\ pair \o mid \in Seq(OpSet) /\ Len(pair \o mid) = Len(pair) + Len(mid)
          /\ \A n \in 1 .. Len(pair) : (pair \o mid)[n] = pair[n]
          /\ \A n \in 1 .. Len(mid) : (pair \o mid)[Len(pair) + n] = mid[n]
      <4>1. pair \in Seq(OpSet) /\ mid \in Seq(OpSet)
        BY <2>4, <3>1
      <4> QED BY <4>1
    <3> QED BY <2>0, <2>4, <3>1, <3>2
  <2>7. IsClear(o1, S) /\ IsClear(o2, S)
    <3>1. ASSUME NEW r \in 0 .. Count - 1, r \div WordBits = p, r \notin S
          PROVE  r % WordBits \in BeginMask(begin)
      BY <1>4, <1>5, <2>0, <3>1
    <3>2. ASSUME NEW r \in 0 .. Count - 1, r \div WordBits = q, r \notin S
          PROVE  r % WordBits \in EndMask(end)
      <4>1. ~(r < begin)
        <5>1. r < begin => q <= p
          BY <1>4, <3>2
        <5> QED BY <1>1, <2>0, <5>1
      <4> QED BY <1>4, <1>5, <3>2, <4>1
    <3>3. p \in 0 .. c /\ q \in 0 .. c
      BY <1>1, <1>2
    <3> HIDE DEF o1, o2, S, p, q, c
    <3> QED BY <2>2, <3>1, <3>2, <3>3 DEF IsClear, c
  <2>8. ASSUME NEW n \in 1 .. q - p - 1 PROVE IsClear(mid[n], S)
    <3>1. ASSUME NEW r \in 0 .. Count - 1, r \div WordBits = p + n PROVE r \in S
      <4>1. p < r \div WordBits /\ r \div WordBits < q
        BY <1>1, <3>1
      <4>2. begin < r /\ r < end /\ r \in Nat
        BY <1>4, <4>1
      <4> QED BY <4>2
    <3>2. p + n \in 0 .. c
      BY <1>1, <1>2
    <3> HIDE DEF mid, S, p, q, c
    <3> QED BY <2>3, <3>1, <3>2 DEF IsClear, c
  <2>9. ASSUME NEW n \in 1 .. Len(s) PROVE IsClear(s[n], S)
    <3>1. n = 1 \/ n = 2 \/ n - 2 \in 1 .. q - p - 1
      BY <2>0, <2>6
    <3>2. n - 2 \in 1 .. q - p - 1 => s[n] = mid[n - 2]
      <4>1. 2 + (n - 2) = n
        BY <2>0, <2>6
      <4> HIDE DEF s, mid, p, q
      <4> QED BY <2>6, <4>1
    <3> HIDE DEF s, mid, o1, o2, S, p, q
    <3> QED BY <2>6, <2>7, <2>8, <3>1, <3>2
  <2>10. ASSUME NEW r \in S PROVE \E n \in 1 .. Len(s) : ClearsRow(s[n], r)
    <3> DEFINE w == r \div WordBits
    <3>1. r \in 0 .. Count - 1 /\ ~(r < begin) /\ r < end
      BY <1>5, <1>6
    <3>2. w \in Nat /\ p <= w /\ w <= q
      <4>1. r \in Nat /\ (begin < r => p <= w) /\ w \in Nat /\ w <= q
        BY <1>4, <3>1, WordOrder
      <4>2. r = begin \/ begin < r
        BY <3>1, <4>1
      <4> QED BY <1>1, <4>1, <4>2
    <3>3. CASE w = p
      <4>1. r % WordBits \notin BeginMask(begin)
        BY <1>4, <3>1, <3>3
      <4>2. ClearsRow(o1, r)
        <5> HIDE DEF o1
        <5> QED BY <2>2, <3>3, <4>1 DEF ClearsRow
      <4>3. 1 \in 1 .. Len(s) /\ s[1] = o1
        BY <2>0, <2>6
      <4> HIDE DEF s, o1
      <4> QED BY <4>2, <4>3
    <3>4. CASE w = q
      <4>1. r % WordBits \notin EndMask(end)
        BY <1>4, <3>1, <3>4
      <4>2. ClearsRow(o2, r)
        <5> HIDE DEF o2
        <5> QED BY <2>2, <3>4, <4>1 DEF ClearsRow
      <4>3. 2 \in 1 .. Len(s) /\ s[2] = o2
        BY <2>0, <2>6
      <4> HIDE DEF s, o2
      <4> QED BY <4>2, <4>3
    <3>5. CASE w # p /\ w # q
      <4> DEFINE n == w - p
      <4>1. n \in 1 .. q - p - 1 /\ p + n = w /\ 2 + n \in 1 .. Len(s)
        <5> HIDE DEF s, w, p, q
        <5> QED BY <1>1, <2>0, <2>6, <3>2, <3>5
      <4>2. s[2 + n] = mid[n] /\ mid[n].word = w /\ mid[n].keep = {}
        <5> HIDE DEF s, mid, w, p, q, n
        <5> QED BY <2>3, <2>6, <4>1
      <4>3. ClearsRow(s[2 + n], r)
        <5> HIDE DEF s, mid, n
        <5> QED BY <4>2 DEF ClearsRow
      <4> HIDE DEF s, n
      <4> QED BY <4>1, <4>3
    <3> QED BY <3>3, <3>4, <3>5
  <2> HIDE DEF s, S
  <2>11. Clears(s, S)
    BY <2>6, <2>9, <2>10 DEF Clears
  <2> QED BY <2>1, <2>11 DEF S
<1> QED BY <1>7, <1>8

\* SetRangeInvalid clears the rows whose words are in its range.
LEMMA RangeClears ==
    ASSUME GroupOK, ~group.shrink_runs, NEW t \in Tasks, ~HasNoRange(t)
    PROVE  /\ Clears(RangeInvalid(Count, BeginEntry(t), EndEntry(t)), Owned(t))
           /\ \A n \in 1 .. Len(RangeInvalid(Count, BeginEntry(t), EndEntry(t))) :
                 RangeInvalid(Count, BeginEntry(t), EndEntry(t))[n].word \in OwnWords(t)
<1> DEFINE b == BeginEntry(t)
           e == EndEntry(t)
           c == EntryCount(Count)
           last == c - 1
           bits == Count % WordBits
           rest == IF bits = 0 THEN {} ELSE {k \in Bits : k >= bits}
           d == Count \div WordBits
<1>0. WordBits \in Nat \ {0} /\ Count \in Nat \ {0}
  BY NumbersAssumption, CountType
<1>1. c \in Nat /\ \A m \in Nat : m < c <=> m * WordBits < Count
  BY <1>0, RoundUp DEF EntryCount
<1>2. b \in Nat /\ e \in Nat /\ b < e
  BY EntryFacts DEF HasNoRange
<1>3. e <= c
  <2>1. \A m \in Nat : m < e => m < c
    BY <1>1, EntryFacts
  <2> HIDE DEF c, e
  <2> QED BY <1>1, <1>2, <2>1
<1>4. d \in Nat /\ bits \in Bits /\ (bits # 0 => last = d)
  <2>1. d \in Nat /\ bits \in 0 .. WordBits - 1 /\ Count = WordBits * d + bits
    BY <1>0, DivMod
  <2>2. d * WordBits \in Nat /\ WordBits * d = d * WordBits
        /\ (d + 1) * WordBits = d * WordBits + WordBits
    BY <1>0, <2>1, SMT
  <2> HIDE DEF d, c, bits
  <2>3. ASSUME bits # 0 PROVE last = d
    <3>1. d * WordBits < Count /\ ~((d + 1) * WordBits < Count)
      BY <1>0, <2>1, <2>2, <2>3
    <3>2. d < c /\ ~(d + 1 < c)
      BY <1>1, <2>1, <3>1
    <3> QED BY <1>1, <2>1, <3>2
  <2> QED BY <2>1, <2>3 DEF Bits
<1>5. ASSUME NEW r \in 0 .. Count - 1, r \div WordBits = last PROVE r % WordBits \notin rest
  <2>1. CASE bits = 0
    BY <2>1
  <2>2. CASE bits # 0
    <3>1. r \in Nat /\ r < Count /\ r % WordBits \in Bits
      BY <1>0, RowFacts, SMTT(30)
    <3>2. r \div WordBits = Count \div WordBits
      BY <1>4, <1>5, <2>2
    <3>3. r % WordBits < Count % WordBits
      BY <1>0, <3>1, <3>2, WordOrder
    <3>4. r % WordBits \in Int /\ Count % WordBits \in Int
      BY <1>4, <3>1 DEF Bits
    <3>5. ~(r % WordBits >= bits)
      BY <3>3, <3>4
    <3> QED BY <3>5
  <2> QED BY <2>1, <2>2
<1>6. rest \in SUBSET Bits
  OBVIOUS
<1>7. Min({last, e}) = IF e <= last THEN e ELSE last
  <2>1. {last, e} \subseteq Nat /\ {last, e} # {}
    BY <1>1, <1>2, <1>3
  <2> HIDE DEF last, e
  <2>2. Min({last, e}) \in {last, e} /\ \A m \in {last, e} : Min({last, e}) <= m
    BY <2>1, MinProps
  <2> QED BY <2>1, <2>2
<1> DEFINE k == Min({last, e}) - b
           head == [n \in 1 .. k |-> Op(b + n - 1, {}, {})]
           tail == IF e <= last THEN << >> ELSE <<Op(last, {}, rest)>>
           s == head \o tail
<1>8. RangeInvalid(Count, b, e) = s
  BY DEF RangeInvalid
<1>9. k \in Nat /\ b + k <= e
      /\ (e <= last => k = e - b) /\ (~(e <= last) => k = e - b - 1 /\ last = e - 1)
  <2> HIDE DEF b, c, e
  <2> QED BY <1>1, <1>2, <1>3, <1>7
<1>10. \A n \in 1 .. k : /\ head[n] \in OpSet /\ head[n].word = b + n - 1
                         /\ head[n].keep = {} /\ head[n].set = {}
  <2> TAKE n \in 1 .. k
  <2>1. b + n - 1 \in Int
    BY <1>2, <1>9
  <2>2. head[n] = Op(b + n - 1, {}, {})
    BY <1>9
  <2> HIDE DEF head
  <2> QED BY <2>1, <2>2, OpFields
<1>11. head \in Seq(OpSet) /\ Len(head) = k
  <2>1. head \in [1 .. k -> OpSet]
    BY <1>10
  <2> HIDE DEF head, k
  <2> QED BY <1>9, <2>1
<1>12. /\ tail \in Seq(OpSet) /\ Len(tail) = (e - b) - k
       /\ \A n \in 1 .. Len(tail) : /\ tail[n] \in OpSet /\ tail[n].word = last
                                    /\ tail[n].keep = {} /\ tail[n].set = rest
                                    /\ n = 1 /\ last = e - 1
  <2>1. CASE e <= last
    <3>1. tail = << >>
      BY <2>1
    <3>2. (e - b) - k = 0
      <4> HIDE DEF e, b, k, last
      <4> QED BY <1>2, <1>9, <2>1
    <3> HIDE DEF tail
    <3> QED BY <3>1, <3>2
  <2>2. CASE ~(e <= last)
    <3> DEFINE o == Op(last, {}, rest)
    <3>1. tail = <<o>>
      BY <2>2
    <3>2. (e - b) - k = 1 /\ last = e - 1
      <4> HIDE DEF e, b, k, last
      <4> QED BY <1>2, <1>9, <2>2
    <3>3. last \in Int
      BY <1>1
    <3>4. o \in OpSet /\ o.word = last /\ o.keep = {} /\ o.set = rest
      <4> HIDE DEF rest, last
      <4> QED BY <1>6, <3>3, OpFields
    <3> HIDE DEF tail, o, last, rest
    <3> QED BY <3>1, <3>2, <3>4
  <2> QED BY <2>1, <2>2
<1> HIDE DEF head, tail
<1>13. /\ s \in Seq(OpSet) /\ Len(s) = e - b
       /\ \A n \in 1 .. Len(s) :
             /\ s[n] \in OpSet /\ s[n].word = b + n - 1 /\ s[n].keep = {}
             /\ s[n].set = {} \/ (s[n].set = rest /\ s[n].word = last)
  <2> HIDE DEF b, e, k, rest, last
  <2>1. /\ s \in Seq(OpSet) /\ Len(s) = Len(head) + Len(tail)
        /\ \A n \in 1 .. Len(head) : s[n] = head[n]
        /\ \A n \in 1 .. Len(tail) : s[Len(head) + n] = tail[n]
    BY <1>11, <1>12
  <2>2. Len(s) = e - b
    BY <1>2, <1>9, <1>11, <1>12, <2>1
  <2> HIDE DEF s
  <2>3. ASSUME NEW n \in 1 .. Len(s)
        PROVE  /\ s[n] \in OpSet /\ s[n].word = b + n - 1 /\ s[n].keep = {}
               /\ s[n].set = {} \/ (s[n].set = rest /\ s[n].word = last)
    <3>1. CASE n \in 1 .. k
      <4>1. s[n] = head[n]
        BY <1>11, <2>1, <3>1
      <4> QED BY <1>10, <3>1, <4>1
    <3>2. CASE n \notin 1 .. k
      <4>0. Len(tail) = (e - b) - k /\ n \in 1 .. e - b
        BY <1>12, <2>2
      <4>1. n - k \in 1 .. Len(tail) /\ k + (n - k) = n
        BY <1>2, <1>9, <3>2, <4>0
      <4>2. s[n] = tail[n - k]
        BY <1>11, <2>1, <4>1
      <4>3. n - k = 1 /\ last = e - 1
        BY <1>12, <4>1
      <4>4. last = b + n - 1
        BY <1>2, <1>9, <1>12, <2>2, <4>1, <4>3
      <4> QED BY <1>12, <4>1, <4>2, <4>4
    <3> QED BY <3>1, <3>2
  <2> QED BY <2>1, <2>2, <2>3
<1> HIDE DEF s
<1>14. \A n \in 1 .. Len(s) : s[n].word \in OwnWords(t) /\ s[n].word \in 0 .. c
  <2> TAKE n \in 1 .. Len(s)
  <2>1. n \in 1 .. e - b /\ s[n].word = b + n - 1
    BY <1>13
  <2> HIDE DEF b, e, c
  <2>2. b + n - 1 \in b .. e - 1 /\ b + n - 1 \in 0 .. c
    BY <1>1, <1>2, <1>3, <2>1
  <2> QED BY <2>1, <2>2 DEF OwnWords, b, e
<1>15. ASSUME NEW n \in 1 .. Len(s) PROVE IsClear(s[n], Owned(t))
  <2>1. ASSUME NEW r \in 0 .. Count - 1, r \div WordBits = s[n].word
        PROVE  r % WordBits \notin s[n].set /\ r \in Owned(t)
    <3>1. r \in Owned(t)
      BY <1>14, <2>1, OwnedWord
    <3>2. r % WordBits \notin s[n].set
      <4> HIDE DEF rest, last
      <4>1. CASE s[n].set = {}
        BY <4>1
      <4>2. CASE s[n].set = rest /\ s[n].word = last
        BY <1>5, <2>1, <4>2
      <4> QED BY <1>13, <4>1, <4>2
    <3> QED BY <3>1, <3>2
  <2> QED BY <1>13, <1>14, <2>1 DEF IsClear
<1>16. ASSUME NEW r \in Owned(t) PROVE \E n \in 1 .. Len(s) : ClearsRow(s[n], r)
  <2> DEFINE w == r \div WordBits
             n == w - b + 1
  <2>1. r \in 0 .. Count - 1
    BY OwnedPartition
  <2>2. w \in b .. e - 1
    BY <2>1, OwnedWord DEF OwnWords
  <2>3. n \in 1 .. Len(s) /\ b + n - 1 = w
    <3> HIDE DEF b, e, w
    <3> QED BY <1>2, <1>13, <2>2
  <2> HIDE DEF n
  <2>4. s[n].word = w /\ s[n].keep = {}
    BY <1>13, <2>3
  <2>5. ClearsRow(s[n], r)
    BY <2>4 DEF ClearsRow
  <2> QED BY <2>3, <2>5
<1>17. Clears(s, Owned(t))
  BY <1>13, <1>15, <1>16 DEF Clears
<1> QED BY <1>8, <1>14, <1>17

\* The number of operations of a task that initialize its range.
InitLen(t) == IF HasNoRange(t) THEN 0 ELSE Len(InitOps(t))

\* They clear the rows of the task.
LEMMA InitOpsClear ==
    ASSUME GroupOK, NEW t \in Tasks, ~HasNoRange(t)
    PROVE  /\ Clears(InitOps(t), Owned(t))
           /\ ~group.shrink_runs =>
                 \A n \in 1 .. Len(InitOps(t)) : InitOps(t)[n].word \in OwnWords(t)
<1>1. CASE group.shrink_runs
  <2> DEFINE b == BlockSum(BlockBegin(t))
             e == BlockSum(BlockEnd(t))
  <2>1. /\ BlockBegin(t) \in 0 .. Blocks /\ BlockEnd(t) \in 0 .. Blocks
        /\ BlockBegin(t) < BlockEnd(t) /\ Blocks \in Nat
    BY TaskFacts, GroupFacts
  <2>2. b \in Nat /\ e \in Nat /\ b < e
    BY <2>1, GroupFacts, SumsGrow
  <2>3. e <= Count
    <3>1. Compared(t) \subseteq 0 .. Count - 1 /\ Compared(t) = b .. e - 1 /\ Count \in Nat
      BY OwnedCompared, CountType DEF Compared
    <3> HIDE DEF b, e
    <3>2. e - 1 \in b .. e - 1
      BY <2>2
    <3>3. e - 1 \in 0 .. Count - 1
      BY <3>1, <3>2
    <3> QED BY <2>2, <3>1, <3>3
  <2>4. InitOps(t) = EntryRangeInvalid(b, e) /\ Owned(t) = b .. e - 1
    BY <1>1 DEF InitOps, Owned, Compared
  <2> HIDE DEF b, e
  <2>5. Clears(EntryRangeInvalid(b, e), b .. e - 1)
    BY <2>2, <2>3, EntryRangeClears
  <2> QED BY <1>1, <2>4, <2>5
<1>2. CASE ~group.shrink_runs
  <2>1. InitOps(t) = RangeInvalid(Count, BeginEntry(t), EndEntry(t))
    BY <1>2 DEF InitOps
  <2> QED BY <1>2, <2>1, RangeClears
<1> QED BY <1>1, <1>2

\* SetValid as an operation, and the row it is for.
LEMMA SetValidFields ==
    ASSUME GroupOK, NEW r \in 0 .. Count - 1
    PROVE  /\ SetValid(r) \in OpSet
           /\ SetValid(r).word = r \div WordBits
           /\ SetValid(r).keep = Bits
           /\ SetValid(r).set = {r % WordBits}
<1>1. r \div WordBits \in Int /\ {r % WordBits} \in SUBSET Bits /\ Bits \in SUBSET Bits
  BY RowFacts
<1> QED BY <1>1, OpFields DEF SetValid

\* The other operations set the bits of its rows that begin a window partition.
SetOps(t) == FirstOps(t) \o ScanOps(t)

\* SetOps is made of SetValid for those rows.
LEMMA SetOpsFacts ==
    ASSUME GroupOK, NEW t \in Tasks
    PROVE  /\ FirstOps(t) \in Seq(OpSet) /\ ScanOps(t) \in Seq(OpSet)
           /\ SetOps(t) \in Seq(OpSet)
           /\ \A n \in 1 .. Len(SetOps(t)) :
                 \E r \in Owned(t) \cap Begins : SetOps(t)[n] = SetValid(r)
           /\ \A r \in Owned(t) \cap Begins :
                 \E n \in 1 .. Len(SetOps(t)) : SetOps(t)[n] = SetValid(r)
<1> DEFINE f == FirstOps(t)
           D == Distinct(t)
           m == Cardinality(D)
           g == ScanOps(t)
           s == f \o g
<1>0. Owned(t) \subseteq 0 .. Count - 1 /\ Count \in Nat \ {0} /\ 0 \in Begins
      /\ Begins \subseteq 0 .. Count - 1
  BY OwnedPartition, CountType, GroupFacts
<1>1. /\ D = Owned(t) \cap (Begins \ {0})
      /\ 0 \in Owned(t) <=> BlockBegin(t) = 0
  BY OwnedBegins
<1>2. /\ m \in Nat
      /\ \A n \in 1 .. m : Nth(D, n) \in D
      /\ \A r \in D : \E n \in 1 .. m : Nth(D, n) = r
  <2>1. Count - 1 \in Nat /\ D \in SUBSET (0 .. Count - 1)
    BY <1>0, <1>1
  <2> HIDE DEF D
  <2> QED BY <2>1, NthEnumerates
<1>v. \A r \in Owned(t) : SetValid(r) \in OpSet
  BY <1>0, SetValidFields
<1>3. g = [n \in 1 .. m |-> SetValid(Nth(D, n))]
  BY DEF ScanOps
<1> HIDE DEF g, m, D
<1>4. g \in Seq(OpSet) /\ Len(g) = m /\ \A n \in 1 .. m : g[n] = SetValid(Nth(D, n))
  <2>1. \A n \in 1 .. m : SetValid(Nth(D, n)) \in OpSet
    BY <1>1, <1>2, <1>v
  <2>2. g \in [1 .. m -> OpSet] /\ \A n \in 1 .. m : g[n] = SetValid(Nth(D, n))
    BY <1>3, <2>1
  <2> QED BY <1>2, <2>2
<1>5. /\ f \in Seq(OpSet) /\ Len(f) \in Nat
      /\ \A n \in 1 .. Len(f) : f[n] = SetValid(0) /\ 0 \in Owned(t)
      /\ 0 \in Owned(t) => 1 \in 1 .. Len(f)
  <2>1. CASE BlockBegin(t) = 0
    <3> DEFINE o == SetValid(0)
    <3>1. f = <<o>> /\ 0 \in Owned(t)
      BY <1>1, <2>1 DEF FirstOps
    <3>2. o \in OpSet
      BY <1>v, <3>1
    <3> HIDE DEF f, o
    <3> QED BY <3>1, <3>2 DEF o
  <2>2. CASE BlockBegin(t) # 0
    <3>1. f = << >> /\ 0 \notin Owned(t)
      BY <1>1, <2>2 DEF FirstOps
    <3> HIDE DEF f
    <3> QED BY <3>1
  <2> QED BY <2>1, <2>2
<1> HIDE DEF f
<1>6. /\ s \in Seq(OpSet) /\ Len(s) = Len(f) + m
      /\ \A n \in 1 .. Len(f) : s[n] = f[n]
      /\ \A n \in 1 .. m : s[Len(f) + n] = g[n]
  BY <1>4, <1>5
<1>7. SetOps(t) = s
  BY DEF SetOps, f, g
<1> HIDE DEF s
<1>8. ASSUME NEW n \in 1 .. Len(s) PROVE \E r \in Owned(t) \cap Begins : s[n] = SetValid(r)
  <2>1. CASE n \in 1 .. Len(f)
    BY <1>0, <1>5, <1>6, <2>1
  <2>2. CASE n \notin 1 .. Len(f)
    <3>1. n - Len(f) \in 1 .. m /\ Len(f) + (n - Len(f)) = n
      BY <1>2, <1>5, <1>6, <2>2
    <3>2. s[n] = SetValid(Nth(D, n - Len(f))) /\ Nth(D, n - Len(f)) \in D
      BY <1>2, <1>4, <1>6, <3>1
    <3> QED BY <1>1, <3>2
  <2> QED BY <2>1, <2>2
<1>9. ASSUME NEW r \in Owned(t) \cap Begins PROVE \E n \in 1 .. Len(s) : s[n] = SetValid(r)
  <2>1. CASE r = 0
    <3>1. 1 \in 1 .. Len(f) /\ f[1] = SetValid(0)
      BY <1>5, <2>1
    <3>2. 1 \in 1 .. Len(s) /\ s[1] = SetValid(0)
      BY <1>2, <1>5, <1>6, <3>1
    <3> QED BY <2>1, <3>2
  <2>2. CASE r # 0
    <3>1. PICK n \in 1 .. m : Nth(D, n) = r
      BY <1>1, <1>2, <2>2
    <3>2. Len(f) + n \in 1 .. Len(s)
      BY <1>2, <1>5, <1>6
    <3>3. s[Len(f) + n] = SetValid(r)
      BY <1>4, <1>6, <3>1
    <3> QED BY <3>2, <3>3
  <2> QED BY <2>1, <2>2
<1> QED BY <1>4, <1>5, <1>6, <1>7, <1>8, <1>9 DEF f, g

\* All operations of a task: the first InitLen(t) clear its rows, the others set the
\* bits of those that begin a window partition.
LEMMA OpsFacts ==
    ASSUME GroupOK, NEW t \in Tasks
    PROVE  /\ Len(Ops(t)) \in Nat /\ InitLen(t) \in 0 .. Len(Ops(t))
           /\ \A n \in 1 .. Len(Ops(t)) :
                 /\ Ops(t)[n] \in OpSet
                 /\ Ops(t)[n].word \in 0 .. EntryCount(Count)
                 /\ ~group.shrink_runs => Ops(t)[n].word \in OwnWords(t)
           /\ \A n \in 1 .. InitLen(t) : IsClear(Ops(t)[n], Owned(t))
           /\ \A n \in InitLen(t) + 1 .. Len(Ops(t)) :
                 \E r \in Owned(t) \cap Begins : Ops(t)[n] = SetValid(r)
           /\ \A r \in Owned(t) : \E n \in 1 .. InitLen(t) : ClearsRow(Ops(t)[n], r)
           /\ \A r \in Owned(t) \cap Begins :
                 \E n \in InitLen(t) + 1 .. Len(Ops(t)) : Ops(t)[n] = SetValid(r)
<1>1. CASE HasNoRange(t)
  <2>1. Ops(t) = << >> /\ InitLen(t) = 0 /\ Owned(t) = {}
    BY <1>1, OwnedBegins DEF Ops, InitLen
  <2>2. Len(Ops(t)) = 0
    BY <2>1
  <2> QED BY <2>1, <2>2
<1>2. CASE ~HasNoRange(t)
  <2> DEFINE a == InitOps(t)
             b == SetOps(t)
             s == Ops(t)
             k == Len(a)
  <2>0. Owned(t) \subseteq 0 .. Count - 1 /\ EntryCount(Count) \in Nat
    <3>1. 0 \in 0 .. Count - 1
      BY CountType
    <3> QED BY <3>1, OwnedPartition, RowFacts
  <2>1. Clears(a, Owned(t)) /\ (~group.shrink_runs => \A n \in 1 .. Len(a) : a[n].word \in OwnWords(t))
    BY <1>2, InitOpsClear
  <2>2. a \in Seq(OpSet)
    BY <2>1 DEF Clears
  <2>3. /\ FirstOps(t) \in Seq(OpSet) /\ ScanOps(t) \in Seq(OpSet) /\ b \in Seq(OpSet)
        /\ \A n \in 1 .. Len(b) : \E r \in Owned(t) \cap Begins : b[n] = SetValid(r)
        /\ \A r \in Owned(t) \cap Begins : \E n \in 1 .. Len(b) : b[n] = SetValid(r)
    BY SetOpsFacts
  <2>4. s = a \o b
    <3>1. s = (a \o FirstOps(t)) \o ScanOps(t)
      BY <1>2 DEF Ops
    <3> HIDE DEF a, s
    <3>2. (a \o FirstOps(t)) \o ScanOps(t) = a \o (FirstOps(t) \o ScanOps(t))
      BY <2>2, <2>3
    <3> QED BY <3>1, <3>2 DEF SetOps
  <2>5. InitLen(t) = k
    BY <1>2 DEF InitLen
  <2> HIDE DEF a, b, s
  <2>6. /\ s \in Seq(OpSet) /\ Len(s) = k + Len(b) /\ k \in Nat /\ Len(b) \in Nat
        /\ \A n \in 1 .. k : s[n] = a[n]
        /\ \A n \in 1 .. Len(b) : s[k + n] = b[n]
    BY <2>2, <2>3, <2>4
  <2> HIDE DEF k
  <2>7. \A n \in 1 .. k : IsClear(s[n], Owned(t))
    BY <2>1, <2>6 DEF Clears, k
  <2>8. \A r \in Owned(t) : \E n \in 1 .. k : ClearsRow(s[n], r)
    BY <2>1, <2>6 DEF Clears, k
  <2>9. ASSUME NEW n \in k + 1 .. Len(s)
        PROVE  \E r \in Owned(t) \cap Begins : s[n] = SetValid(r)
    <3>1. n - k \in 1 .. Len(b) /\ k + (n - k) = n
      BY <2>6
    <3>2. s[n] = b[n - k]
      BY <2>6, <3>1
    <3> QED BY <2>3, <3>1, <3>2
  <2>10. ASSUME NEW r \in Owned(t) \cap Begins PROVE \E n \in k + 1 .. Len(s) : s[n] = SetValid(r)
    <3>1. PICK n \in 1 .. Len(b) : b[n] = SetValid(r)
      BY <2>3
    <3>2. k + n \in k + 1 .. Len(s) /\ s[k + n] = SetValid(r)
      BY <2>6, <3>1
    <3> QED BY <3>2
  <2>11. ASSUME NEW n \in 1 .. Len(s)
         PROVE  /\ s[n] \in OpSet
                /\ s[n].word \in 0 .. EntryCount(Count)
                /\ ~group.shrink_runs => s[n].word \in OwnWords(t)
    <3>1. CASE n \in 1 .. k
      <4>1. s[n] = a[n] /\ IsClear(s[n], Owned(t))
        BY <2>6, <2>7, <3>1
      <4>2. s[n] \in OpSet /\ s[n].word \in 0 .. EntryCount(Count)
        BY <4>1 DEF IsClear
      <4>3. ~group.shrink_runs => s[n].word \in OwnWords(t)
        BY <2>1, <3>1, <4>1 DEF k
      <4> QED BY <4>2, <4>3
    <3>2. CASE n \notin 1 .. k
      <4>1. n \in k + 1 .. Len(s)
        BY <2>6, <3>2
      <4>2. PICK r \in Owned(t) \cap Begins : s[n] = SetValid(r)
        BY <2>9, <4>1
      <4>3. r \in 0 .. Count - 1
        BY <2>0
      <4>4. s[n] \in OpSet /\ s[n].word = r \div WordBits
        BY <4>2, <4>3, SetValidFields
      <4>5. s[n].word \in 0 .. EntryCount(Count)
        BY <2>0, <4>3, <4>4, RowFacts
      <4>6. ~group.shrink_runs => s[n].word \in OwnWords(t)
        BY <4>3, <4>4, OwnedWord
      <4> QED BY <4>4, <4>5, <4>6
    <3> QED BY <3>1, <3>2
  <2>12. Len(s) \in Nat /\ k \in 0 .. Len(s)
    BY <2>6
  <2> QED BY <2>5, <2>7, <2>8, <2>9, <2>10, <2>11, <2>12 DEF s
<1> QED BY <1>1, <1>2

-----------------------------------------------------------------------------
(***************************************************************************)
(* The inductive invariant.                                                *)
(***************************************************************************)
MaskLocations == {"Allocate", "Lock", "Load", "Store", "Done"}

TasksOK ==
    /\ at \in [Tasks -> MaskLocations]
    /\ next_op \in [Tasks -> Nat \ {0}]
    /\ loaded \in [Tasks -> SUBSET Bits]

PositionOK(t) ==
    /\ next_op[t] <= Len(Ops(t)) + 1
    /\ at[t] = "Store" => next_op[t] <= Len(Ops(t))
    /\ at[t] = "Done" => next_op[t] = Len(Ops(t)) + 1
    /\ at[t] \in {"Allocate", "Lock"} => next_op[t] = 1

WordsOK ==
    \/ words \in [0 .. EntryCount(Count) -> SUBSET Bits]
    \/ words = NotSet /\ \A t \in Tasks : at[t] = "Allocate"

\* With merge pruning one task at a time updates the mask.
MutexOK ==
    group.shrink_runs =>
        \A t \in Tasks : at[t] \in {"Load", "Store"} => block_mutex = {t}

\* No other task changes a word between a task's load and its store.
LoadedOK(t) == at[t] = "Store" => loaded[t] = words[Ops(t)[next_op[t]].word]

\* The task has cleared the row, and set its bit, before operation n.
Cleared(t, r, n) == \E k \in 1 .. InitLen(t) : k < n /\ ClearsRow(Ops(t)[k], r)
SetBy(t, r, n) ==
    \E k \in InitLen(t) + 1 .. Len(Ops(t)) : k < n /\ Ops(t)[k] = SetValid(r)

\* Once a task has cleared a row of its own, the bit is what the task made it.
RowsAreOwn ==
    \A t \in Tasks : \A r \in Owned(t) :
       Cleared(t, r, next_op[t]) => (BitIsSet(r) <=> SetBy(t, r, next_op[t]))

MasksInv ==
    /\ GroupOK /\ TasksOK /\ WordsOK /\ MutexOK /\ RowsAreOwn
    /\ \A t \in Tasks : PositionOK(t) /\ LoadedOK(t)

-----------------------------------------------------------------------------
(***************************************************************************)
(* The steps.                                                              *)
(***************************************************************************)
\* What is computed from the group stays as long as the group does.
LEMMA SameGroup ==
    ASSUME group' = group
    PROVE  /\ Tasks' = Tasks /\ Count' = Count /\ Begins' = Begins
           /\ EntryCount(Count)' = EntryCount(Count) /\ GroupOK' = GroupOK
           /\ \A t : /\ Ops(t)' = Ops(t) /\ InitLen(t)' = InitLen(t)
                     /\ Owned(t)' = Owned(t) /\ Compared(t)' = Compared(t)
<1>1. Blocks' = Blocks /\ Begins' = Begins /\ GroupOK' = GroupOK
  BY DEF Blocks, Begins, GroupOK
<1>2. \A b : BlockSum(b)' = BlockSum(b)
  BY DEF BlockSum
<1>3. Count' = Count
  <2>1. BlockSum(Blocks)' = BlockSum(Blocks)
    BY <1>1 DEF BlockSum
  <2> QED BY <2>1 DEF Count
<1>4. PerThread' = PerThread
  BY <1>1 DEF PerThread
<1>5. Tasks' = Tasks
  BY <1>1, <1>4 DEF Tasks
<1>6. EntryCount(Count)' = EntryCount(Count)
  BY <1>3 DEF EntryCount
<1>7. ASSUME NEW t
      PROVE  /\ Ops(t)' = Ops(t) /\ InitLen(t)' = InitLen(t)
             /\ Owned(t)' = Owned(t) /\ Compared(t)' = Compared(t)
  <2>1. BlockBegin(t)' = BlockBegin(t) /\ BlockEnd(t)' = BlockEnd(t)
    BY <1>1, <1>4 DEF BlockBegin, BlockEnd
  <2>2. /\ BlockSum(BlockBegin(t))' = BlockSum(BlockBegin(t))
        /\ BlockSum(BlockEnd(t))' = BlockSum(BlockEnd(t))
    BY <2>1 DEF BlockSum
  <2>3. Compared(t)' = Compared(t)
    BY <2>2 DEF Compared
  <2>4. BeginEntry(t)' = BeginEntry(t) /\ EndEntry(t)' = EndEntry(t)
    BY <1>3, <2>1 DEF BeginEntry, EndEntry
  <2>5. HasNoRange(t)' = HasNoRange(t)
    BY <2>4 DEF HasNoRange
  <2>6. Owned(t)' = Owned(t)
    BY <1>3, <2>1, <2>3 DEF Owned
  <2>7. InitOps(t)' = InitOps(t) /\ FirstOps(t)' = FirstOps(t)
    BY <1>3, <2>1, <2>2, <2>4 DEF InitOps, FirstOps
  <2>8. Distinct(t)' = Distinct(t)
    BY <1>1, <2>3 DEF Distinct
  <2>9. ScanOps(t)' = ScanOps(t)
    BY <2>8 DEF ScanOps
  <2>10. Ops(t)' = Ops(t) /\ InitLen(t)' = InitLen(t)
    BY <2>5, <2>7, <2>9 DEF Ops, InitLen
  <2> QED BY <2>3, <2>6, <2>10
<1> QED BY <1>1, <1>3, <1>5, <1>6, <1>7

\* The word after an operation.
Written(op, word) == (word \cap op.keep) \cup op.set

\* An operation of a task changes no bit but those of its own rows.
LEMMA OthersStay ==
    ASSUME GroupOK, NEW u \in Tasks, NEW n \in 1 .. Len(Ops(u)),
           NEW r \in 0 .. Count - 1, r \notin Owned(u), NEW W \in SUBSET Bits,
           Ops(u)[n].word = r \div WordBits
    PROVE  r % WordBits \in Written(Ops(u)[n], W) <=> r % WordBits \in W
<1>0. InitLen(u) \in Nat /\ Len(Ops(u)) \in Nat
  BY OpsFacts
<1>1. CASE n \in 1 .. InitLen(u)
  <2>1. IsClear(Ops(u)[n], Owned(u))
    BY <1>1, OpsFacts
  <2>2. r % WordBits \notin Ops(u)[n].set /\ r % WordBits \in Ops(u)[n].keep
    BY <2>1 DEF IsClear
  <2> QED BY <2>2 DEF Written
<1>2. CASE n \notin 1 .. InitLen(u)
  <2>1. n \in InitLen(u) + 1 .. Len(Ops(u))
    BY <1>0, <1>2
  <2>2. PICK q \in Owned(u) \cap Begins : Ops(u)[n] = SetValid(q)
    BY <2>1, OpsFacts
  <2>3. q \in 0 .. Count - 1 /\ q # r
    BY OwnedPartition
  <2>4. Ops(u)[n].word = q \div WordBits /\ Ops(u)[n].keep = Bits /\ Ops(u)[n].set = {q % WordBits}
    BY <2>2, <2>3, SetValidFields
  <2>5. q % WordBits # r % WordBits
    <3>1. /\ r = (r \div WordBits) * WordBits + (r % WordBits)
          /\ q = (q \div WordBits) * WordBits + (q % WordBits)
      BY <2>3, RowFacts
    <3>2. q \div WordBits = r \div WordBits
      BY <2>4
    <3> QED BY <2>3, <3>1, <3>2
  <2> QED BY <2>4, <2>5 DEF Written
<1> QED BY <1>1, <1>2

\* The operations up to n are the ones before n and n.
LEMMA OneMoreOp ==
    ASSUME GroupOK, NEW t \in Tasks, NEW n \in 1 .. Len(Ops(t)), NEW r
    PROVE  /\ Cleared(t, r, n + 1) <=>
                 Cleared(t, r, n) \/ (n <= InitLen(t) /\ ClearsRow(Ops(t)[n], r))
           /\ SetBy(t, r, n + 1) <=>
                 SetBy(t, r, n) \/ (n > InitLen(t) /\ Ops(t)[n] = SetValid(r))
<1>0. InitLen(t) \in Nat /\ Len(Ops(t)) \in Nat /\ n \in Nat
  BY OpsFacts
<1>1. \A k \in Nat : k < n + 1 <=> k < n \/ k = n
  BY <1>0
<1>2. n \in 1 .. InitLen(t) <=> n <= InitLen(t)
  BY <1>0
<1>3. n \in InitLen(t) + 1 .. Len(Ops(t)) <=> n > InitLen(t)
  BY <1>0
<1>4. 1 .. InitLen(t) \subseteq Nat /\ InitLen(t) + 1 .. Len(Ops(t)) \subseteq Nat
  BY <1>0
<1>5. Cleared(t, r, n + 1) <=>
         Cleared(t, r, n) \/ (n \in 1 .. InitLen(t) /\ ClearsRow(Ops(t)[n], r))
  BY <1>1, <1>4, Zenon DEF Cleared
<1>6. SetBy(t, r, n + 1) <=>
         SetBy(t, r, n) \/ (n \in InitLen(t) + 1 .. Len(Ops(t)) /\ Ops(t)[n] = SetValid(r))
  BY <1>1, <1>4, Zenon DEF SetBy
<1> QED BY <1>2, <1>3, <1>5, <1>6

\* What an operation of a task makes of the bit of a row of its own, once the row is
\* cleared.
LEMMA OwnRow ==
    ASSUME GroupOK, NEW t \in Tasks, NEW n \in 1 .. Len(Ops(t)), NEW r \in Owned(t),
           NEW W \in SUBSET Bits, Ops(t)[n].word = r \div WordBits,
           Cleared(t, r, n) => (r % WordBits \in W <=> SetBy(t, r, n)),
           Cleared(t, r, n + 1)
    PROVE  r % WordBits \in Written(Ops(t)[n], W) <=> SetBy(t, r, n + 1)
<1> DEFINE op == Ops(t)[n]
           b == r % WordBits
<1>0. InitLen(t) \in Nat /\ Len(Ops(t)) \in Nat /\ n \in Nat /\ r \in 0 .. Count - 1
  BY OpsFacts, OwnedPartition
<1>1. CASE n <= InitLen(t)
  <2>1. n \in 1 .. InitLen(t)
    BY <1>0, <1>1
  <2>2. ~(n > InitLen(t)) /\ \A k \in InitLen(t) + 1 .. Len(Ops(t)) : ~(k < n)
    BY <1>0, <1>1
  <2>3. ~SetBy(t, r, n) /\ ~SetBy(t, r, n + 1)
    <3>1. ~SetBy(t, r, n)
      BY <2>2 DEF SetBy
    <3> QED BY <2>2, <3>1, OneMoreOp
  <2>4. b \notin op.set
    BY <1>0, <2>1, OpsFacts DEF IsClear
  <2>5. Cleared(t, r, n) \/ b \notin op.keep
    BY OneMoreOp DEF ClearsRow
  <2>6. ~(b \in W /\ b \in op.keep)
    BY <2>3, <2>5
  <2> QED BY <2>3, <2>4, <2>6 DEF Written
<1>2. CASE n > InitLen(t)
  <2>1. n \in InitLen(t) + 1 .. Len(Ops(t)) /\ ~(n <= InitLen(t))
    BY <1>0, <1>2
  <2>2. PICK q \in Owned(t) \cap Begins : op = SetValid(q)
    BY <2>1, OpsFacts
  <2>3. q \in 0 .. Count - 1
    BY OwnedPartition
  <2>4. op.word = q \div WordBits /\ op.keep = Bits /\ op.set = {q % WordBits}
    BY <2>2, <2>3, SetValidFields
  <2>5. b = q % WordBits <=> op = SetValid(r)
    <3>1. /\ r = (r \div WordBits) * WordBits + (r % WordBits)
          /\ q = (q \div WordBits) * WordBits + (q % WordBits)
      BY <1>0, <2>3, RowFacts
    <3>2. q \div WordBits = r \div WordBits
      BY <2>4
    <3>3. b = q % WordBits => q = r
      BY <3>1, <3>2
    <3>4. op = SetValid(r) => b = q % WordBits
      <4>1. SetValid(r).set = {b}
        BY <1>0, SetValidFields
      <4> QED BY <2>4, <4>1
    <3> QED BY <2>2, <3>3, <3>4
  <2>6. Cleared(t, r, n)
    BY <2>1, OneMoreOp
  <2>7. SetBy(t, r, n + 1) <=> b \in W \/ b = q % WordBits
    BY <1>2, <2>5, <2>6, OneMoreOp
  <2>8. b \in Written(op, W) <=> b \in W \/ b = q % WordBits
    BY <2>4 DEF Written
  <2> QED BY <2>7, <2>8
<1> QED BY <1>0, <1>1, <1>2

\* The invariant after a step, in terms of the group before it.
LEMMA InvAfter ==
    ASSUME GroupOK, group' = group,
           at' \in [Tasks -> MaskLocations],
           next_op' \in [Tasks -> Nat \ {0}],
           loaded' \in [Tasks -> SUBSET Bits],
           \/ words' \in [0 .. EntryCount(Count) -> SUBSET Bits]
           \/ words' = NotSet /\ \A t \in Tasks : at'[t] = "Allocate",
           group.shrink_runs =>
              \A t \in Tasks : at'[t] \in {"Load", "Store"} => block_mutex' = {t},
           \A t \in Tasks :
              /\ next_op'[t] <= Len(Ops(t)) + 1
              /\ at'[t] = "Store" => next_op'[t] <= Len(Ops(t))
              /\ at'[t] = "Done" => next_op'[t] = Len(Ops(t)) + 1
              /\ at'[t] \in {"Allocate", "Lock"} => next_op'[t] = 1
              /\ at'[t] = "Store" => loaded'[t] = words'[Ops(t)[next_op'[t]].word],
           \A t \in Tasks : \A r \in Owned(t) :
              Cleared(t, r, next_op'[t]) =>
                 (r % WordBits \in words'[r \div WordBits] <=> SetBy(t, r, next_op'[t]))
    PROVE  MasksInv'
<1>1. /\ Tasks' = Tasks /\ EntryCount(Count)' = EntryCount(Count) /\ GroupOK'
      /\ \A t : Ops(t)' = Ops(t) /\ InitLen(t)' = InitLen(t) /\ Owned(t)' = Owned(t)
  BY SameGroup
<1>2. TasksOK'
  BY <1>1 DEF TasksOK
<1>3. WordsOK'
  BY <1>1 DEF WordsOK
<1>4. MutexOK'
  BY <1>1 DEF MutexOK
<1>5. (\A t \in Tasks : PositionOK(t) /\ LoadedOK(t))'
  BY <1>1 DEF PositionOK, LoadedOK
<1>6. ASSUME NEW t \in Tasks, NEW r \in Owned(t)
      PROVE  /\ Cleared(t, r, next_op[t])' <=> Cleared(t, r, next_op'[t])
             /\ SetBy(t, r, next_op[t])' <=> SetBy(t, r, next_op'[t])
             /\ BitIsSet(r)' <=> r % WordBits \in words'[r \div WordBits]
  <2>1. Ops(t)' = Ops(t) /\ InitLen(t)' = InitLen(t)
    BY <1>1
  <2>2. Cleared(t, r, next_op[t])' <=> Cleared(t, r, next_op'[t])
    BY <2>1 DEF Cleared, ClearsRow
  <2>3. SetBy(t, r, next_op[t])' <=> SetBy(t, r, next_op'[t])
    BY <2>1 DEF SetBy
  <2> QED BY <2>2, <2>3 DEF BitIsSet
<1>7. RowsAreOwn'
  BY <1>1, <1>6 DEF RowsAreOwn
<1> QED BY <1>1, <1>2, <1>3, <1>4, <1>5, <1>7 DEF MasksInv

\* Nothing is cleared before the first operation.
LEMMA NothingYet ==
    ASSUME GroupOK, NEW t \in Tasks, NEW r
    PROVE  ~Cleared(t, r, 1)
<1>1. InitLen(t) \in Nat
  BY OpsFacts
<1>2. \A k \in 1 .. InitLen(t) : ~(k < 1)
  BY <1>1
<1> QED BY <1>2 DEF Cleared

\* The invariant holds in the initial state.
LEMMA MasksStart == MasksInit => MasksInv
<1> SUFFICES ASSUME MasksInit PROVE MasksInv
  OBVIOUS
<1>1. GroupOK
  BY DEF MasksInit, GroupOK
<1>2. TasksOK
  BY DEF MasksInit, TasksOK, MaskLocations
<1>3. WordsOK /\ MutexOK
  BY DEF MasksInit, WordsOK, MutexOK
<1>4. ASSUME NEW t \in Tasks
      PROVE  PositionOK(t) /\ LoadedOK(t) /\ \A r \in Owned(t) : ~Cleared(t, r, next_op[t])
  <2>1. at[t] = "Allocate" /\ next_op[t] = 1
    BY DEF MasksInit
  <2>2. Len(Ops(t)) \in Nat
    BY <1>1, OpsFacts
  <2> QED BY <1>1, <2>1, <2>2, NothingYet DEF PositionOK, LoadedOK
<1>5. RowsAreOwn
  BY <1>4 DEF RowsAreOwn
<1> QED BY <1>1, <1>2, <1>3, <1>4, <1>5 DEF MasksInv

\* The first task that allocates the mask sees NotSet, which is no mask.
LEMMA AllocateKeeps ==
    ASSUME MasksInv, NEW u \in Tasks, AllocateMasks(u)
    PROVE  MasksInv'
<1>0. GroupOK /\ TasksOK /\ WordsOK /\ MutexOK /\ RowsAreOwn
      /\ \A t \in Tasks : PositionOK(t) /\ LoadedOK(t)
  BY DEF MasksInv
<1>1. /\ group' = group /\ block_mutex' = block_mutex /\ next_op' = next_op
      /\ loaded' = loaded /\ at' = [at EXCEPT ![u] = "Lock"] /\ at[u] = "Allocate"
      /\ words' = IF words = NotSet THEN [w \in 0 .. EntryCount(Count) |-> Bits] ELSE words
  BY DEF AllocateMasks, Goto
<1>2. /\ at' \in [Tasks -> MaskLocations] /\ next_op' \in [Tasks -> Nat \ {0}]
      /\ loaded' \in [Tasks -> SUBSET Bits]
      /\ at'[u] = "Lock" /\ \A t \in Tasks \ {u} : at'[t] = at[t]
  BY <1>0, <1>1 DEF TasksOK, MaskLocations
<1>3. words' \in [0 .. EntryCount(Count) -> SUBSET Bits]
  BY <1>0, <1>1 DEF WordsOK
<1>4. words # NotSet => words' = words
  BY <1>1
<1>5. words = NotSet => \A t \in Tasks : at[t] = "Allocate"
  <2>1. NotSet \notin [0 .. EntryCount(Count) -> SUBSET Bits]
    <3>1. Count = group.block_sums[Len(group.block_sums)]
      <4>1. Len(group.block_sums) # 0
        BY <1>0, GroupFacts DEF Blocks
      <4> QED BY <4>1 DEF Count, BlockSum, Before, Blocks
    <3>2. NotSet \notin [0 .. EntryCount(group.block_sums[Len(group.block_sums)]) -> SUBSET Bits]
      BY <1>0, InputsAssumption DEF GroupOK
    <3> QED BY <3>1, <3>2
  <2> QED BY <1>0, <2>1 DEF WordsOK
<1>6. ASSUME NEW t \in Tasks
      PROVE  /\ next_op'[t] <= Len(Ops(t)) + 1
             /\ at'[t] = "Store" => next_op'[t] <= Len(Ops(t))
             /\ at'[t] = "Done" => next_op'[t] = Len(Ops(t)) + 1
             /\ at'[t] \in {"Allocate", "Lock"} => next_op'[t] = 1
             /\ at'[t] = "Store" => loaded'[t] = words'[Ops(t)[next_op'[t]].word]
             /\ at'[t] \in {"Load", "Store"} => at[t] \in {"Load", "Store"}
  <2>1. PositionOK(t) /\ LoadedOK(t)
    BY <1>0
  <2>2. CASE t = u
    BY <1>1, <1>2, <2>1, <2>2 DEF PositionOK
  <2>3. CASE t # u
    <3>1. at'[t] = at[t] /\ next_op'[t] = next_op[t] /\ loaded'[t] = loaded[t]
      BY <1>1, <1>2, <2>3
    <3>2. at[t] = "Store" => words' = words
      BY <1>4, <1>5
    <3> QED BY <2>1, <3>1, <3>2 DEF PositionOK, LoadedOK
  <2> QED BY <2>2, <2>3
<1>7. ASSUME NEW t \in Tasks, NEW r \in Owned(t), Cleared(t, r, next_op'[t])
      PROVE  r % WordBits \in words'[r \div WordBits] <=> SetBy(t, r, next_op'[t])
  <2>1. next_op'[t] = next_op[t]
    BY <1>1
  <2>2. CASE words = NotSet
    <3>1. next_op[t] = 1
      BY <1>0, <1>5, <2>2 DEF PositionOK
    <3> QED BY <1>0, <1>7, <2>1, <3>1, NothingYet
  <2>3. CASE words # NotSet
    BY <1>0, <1>4, <1>7, <2>1, <2>3 DEF RowsAreOwn, BitIsSet
  <2> QED BY <2>2, <2>3
<1>8. group.shrink_runs =>
         \A t \in Tasks : at'[t] \in {"Load", "Store"} => block_mutex' = {t}
  BY <1>0, <1>1, <1>6 DEF MutexOK
<1>9. \A t \in Tasks : \A r \in Owned(t) :
         Cleared(t, r, next_op'[t]) =>
            (r % WordBits \in words'[r \div WordBits] <=> SetBy(t, r, next_op'[t]))
  BY <1>7
<1> QED BY <1>0, <1>1, <1>2, <1>3, <1>6, <1>8, <1>9, InvAfter

\* Lock, Load and FinishMask change neither the mask nor next_op: what is left to show
\* is the location of the task, the word that it loads, and the mutex.
LEMMA QuietKeeps ==
    ASSUME MasksInv, NEW u \in Tasks, NEW l \in MaskLocations, NEW W \in SUBSET Bits,
           group' = group, words' = words, next_op' = next_op,
           at' = [at EXCEPT ![u] = l], loaded' = [loaded EXCEPT ![u] = W],
           at[u] \in {"Lock", "Load"},
           l \in {"Load", "Store", "Done"},
           l = "Store" => next_op[u] <= Len(Ops(u)) /\ W = words[Ops(u)[next_op[u]].word],
           l = "Done" => next_op[u] = Len(Ops(u)) + 1,
           group.shrink_runs =>
              \A t \in Tasks : at'[t] \in {"Load", "Store"} => block_mutex' = {t}
    PROVE  MasksInv'
<1>0. GroupOK /\ TasksOK /\ WordsOK /\ RowsAreOwn
      /\ \A t \in Tasks : PositionOK(t) /\ LoadedOK(t)
  BY DEF MasksInv
<1>1. /\ at' \in [Tasks -> MaskLocations] /\ next_op' \in [Tasks -> Nat \ {0}]
      /\ loaded' \in [Tasks -> SUBSET Bits]
      /\ at'[u] = l /\ \A t \in Tasks \ {u} : at'[t] = at[t]
      /\ loaded'[u] = W /\ \A t \in Tasks \ {u} : loaded'[t] = loaded[t]
  BY <1>0 DEF TasksOK
<1>2. words' \in [0 .. EntryCount(Count) -> SUBSET Bits]
  BY <1>0 DEF WordsOK
<1>3. ASSUME NEW t \in Tasks
      PROVE  /\ next_op'[t] <= Len(Ops(t)) + 1
             /\ at'[t] = "Store" => next_op'[t] <= Len(Ops(t))
             /\ at'[t] = "Done" => next_op'[t] = Len(Ops(t)) + 1
             /\ at'[t] \in {"Allocate", "Lock"} => next_op'[t] = 1
             /\ at'[t] = "Store" => loaded'[t] = words'[Ops(t)[next_op'[t]].word]
  <2>1. PositionOK(t) /\ LoadedOK(t)
    BY <1>0
  <2>2. CASE t = u
    BY <1>1, <2>1, <2>2 DEF PositionOK
  <2>3. CASE t # u
    BY <1>1, <2>1, <2>3 DEF PositionOK, LoadedOK
  <2> QED BY <2>2, <2>3
<1>4. \A t \in Tasks : \A r \in Owned(t) :
         Cleared(t, r, next_op'[t]) =>
            (r % WordBits \in words'[r \div WordBits] <=> SetBy(t, r, next_op'[t]))
  BY <1>0 DEF RowsAreOwn, BitIsSet
<1> QED BY <1>0, <1>1, <1>2, <1>3, <1>4, InvAfter

\* A task that takes the mutex finds it free.
LEMMA LockKeeps ==
    ASSUME MasksInv, NEW u \in Tasks, Lock(u)
    PROVE  MasksInv'
<1>0. GroupOK /\ TasksOK /\ MutexOK
  BY DEF MasksInv
<1>1. /\ group' = group /\ words' = words /\ next_op' = next_op /\ loaded' = loaded
      /\ at' = [at EXCEPT ![u] = "Load"] /\ at[u] = "Lock"
  BY DEF Lock, Goto
<1>2. ASSUME group.shrink_runs, NEW t \in Tasks, at'[t] \in {"Load", "Store"}
      PROVE  block_mutex' = {t}
  <2>1. block_mutex = {} /\ block_mutex' = {u}
    BY <1>2 DEF Lock, MutexIsFree
  <2>2. t = u
    <3> SUFFICES ASSUME t # u PROVE FALSE
      OBVIOUS
    <3>1. at'[t] = at[t]
      BY <1>0, <1>1 DEF TasksOK
    <3>2. block_mutex = {t}
      BY <1>0, <1>2, <3>1 DEF MutexOK
    <3> QED BY <2>1, <3>2
  <2> QED BY <2>1, <2>2
<1>3. loaded[u] \in SUBSET Bits /\ loaded' = [loaded EXCEPT ![u] = loaded[u]]
  BY <1>0, <1>1 DEF TasksOK
<1> QED BY <1>1, <1>2, <1>3, QuietKeeps DEF MaskLocations

\* A task loads the word that its operation is for.
LEMMA LoadKeeps ==
    ASSUME MasksInv, NEW u \in Tasks, Load(u)
    PROVE  MasksInv'
<1>0. GroupOK /\ TasksOK /\ WordsOK /\ MutexOK
  BY DEF MasksInv
<1> DEFINE w == Ops(u)[next_op[u]].word
           W == words[w]
<1>1. /\ group' = group /\ words' = words /\ next_op' = next_op /\ block_mutex' = block_mutex
      /\ loaded' = [loaded EXCEPT ![u] = W] /\ next_op[u] <= Len(Ops(u))
      /\ at' = [at EXCEPT ![u] = "Store"] /\ at[u] = "Load"
  BY DEF Load, Goto
<1>2. W \in SUBSET Bits
  <2>1. words \in [0 .. EntryCount(Count) -> SUBSET Bits]
    BY <1>0, <1>1 DEF WordsOK
  <2>2. next_op[u] \in 1 .. Len(Ops(u))
    <3>1. next_op[u] \in Nat \ {0} /\ Len(Ops(u)) \in Nat
      BY <1>0, OpsFacts DEF TasksOK
    <3> QED BY <1>1, <3>1
  <2>3. w \in 0 .. EntryCount(Count)
    BY <1>0, <2>2, OpsFacts
  <2> QED BY <2>1, <2>3
<1>3. group.shrink_runs =>
         \A t \in Tasks : at'[t] \in {"Load", "Store"} => block_mutex' = {t}
  <2>1. \A t \in Tasks : at'[t] \in {"Load", "Store"} => at[t] \in {"Load", "Store"}
    BY <1>0, <1>1 DEF TasksOK
  <2> QED BY <1>0, <1>1, <2>1 DEF MutexOK
<1> QED BY <1>1, <1>2, <1>3, QuietKeeps DEF MaskLocations

\* A task that ends releases the mutex, which no other task can hold.
LEMMA MaskFinishKeeps ==
    ASSUME MasksInv, NEW u \in Tasks, FinishMask(u)
    PROVE  MasksInv'
<1>0. GroupOK /\ TasksOK /\ MutexOK /\ PositionOK(u)
  BY DEF MasksInv
<1>1. /\ group' = group /\ words' = words /\ next_op' = next_op /\ loaded' = loaded
      /\ at' = [at EXCEPT ![u] = "Done"] /\ at[u] = "Load" /\ next_op[u] > Len(Ops(u))
  BY DEF FinishMask, Goto
<1>2. ASSUME group.shrink_runs, NEW t \in Tasks, at'[t] \in {"Load", "Store"}
      PROVE  block_mutex' = {t}
  <2>1. t # u /\ at'[t] = at[t]
    BY <1>0, <1>1, <1>2 DEF TasksOK
  <2>2. block_mutex = {t} /\ block_mutex = {u}
    BY <1>0, <1>1, <1>2, <2>1 DEF MutexOK
  <2> QED BY <2>1, <2>2
<1>3. loaded[u] \in SUBSET Bits /\ loaded' = [loaded EXCEPT ![u] = loaded[u]]
  BY <1>0, <1>1 DEF TasksOK
<1>4. next_op[u] = Len(Ops(u)) + 1
  <2>1. next_op[u] \in Nat /\ Len(Ops(u)) \in Nat /\ next_op[u] <= Len(Ops(u)) + 1
    BY <1>0, OpsFacts DEF TasksOK, PositionOK
  <2> QED BY <1>1, <2>1
<1> QED BY <1>1, <1>2, <1>3, <1>4, QuietKeeps DEF MaskLocations

\* A store writes what the operation makes of the word as it is now: no other task has
\* changed it since the load.
LEMMA StoreFacts ==
    ASSUME MasksInv, NEW u \in Tasks, Store(u)
    PROVE  LET n == next_op[u]
               op == Ops(u)[n]
           IN  /\ n \in 1 .. Len(Ops(u)) /\ op \in OpSet
               /\ op.word \in 0 .. EntryCount(Count)
               /\ words \in [0 .. EntryCount(Count) -> SUBSET Bits]
               /\ words' = [words EXCEPT ![op.word] = Written(op, words[op.word])]
               /\ Written(op, words[op.word]) \in SUBSET Bits
               /\ group' = group /\ block_mutex' = block_mutex /\ loaded' = loaded
               /\ next_op' = [next_op EXCEPT ![u] = n + 1]
               /\ at' = [at EXCEPT ![u] = "Load"] /\ at[u] = "Store"
<1> DEFINE n == next_op[u]
           op == Ops(u)[n]
<1>0. GroupOK /\ TasksOK /\ WordsOK /\ PositionOK(u) /\ LoadedOK(u)
  BY DEF MasksInv
<1>1. /\ words' = [words EXCEPT ![op.word] = (loaded[u] \cap op.keep) \cup op.set]
      /\ group' = group /\ block_mutex' = block_mutex /\ loaded' = loaded
      /\ next_op' = [next_op EXCEPT ![u] = n + 1]
      /\ at' = [at EXCEPT ![u] = "Load"] /\ at[u] = "Store"
  BY DEF Store, Goto
<1>2. n \in 1 .. Len(Ops(u))
  <2>1. n \in Nat \ {0} /\ Len(Ops(u)) \in Nat /\ n <= Len(Ops(u))
    BY <1>0, <1>1, OpsFacts DEF TasksOK, PositionOK
  <2> QED BY <2>1
<1>3. op \in OpSet /\ op.word \in 0 .. EntryCount(Count)
  BY <1>0, <1>2, OpsFacts
<1>4. words \in [0 .. EntryCount(Count) -> SUBSET Bits]
  BY <1>0, <1>1 DEF WordsOK
<1>5. loaded[u] = words[op.word]
  BY <1>0, <1>1 DEF LoadedOK
<1>6. words' = [words EXCEPT ![op.word] = Written(op, words[op.word])]
  BY <1>1, <1>5 DEF Written
<1>7. Written(op, words[op.word]) \in SUBSET Bits
  <2>1. words[op.word] \in SUBSET Bits /\ op.set \in SUBSET Bits
    BY <1>3, <1>4 DEF OpSet
  <2> QED BY <2>1 DEF Written
<1> QED BY <1>1, <1>2, <1>3, <1>4, <1>6, <1>7

\* The bit of a row that is not the task's own stays.
LEMMA StoreStays ==
    ASSUME MasksInv, NEW u \in Tasks, Store(u), NEW r \in 0 .. Count - 1, r \notin Owned(u)
    PROVE  r % WordBits \in words'[r \div WordBits] <=> r % WordBits \in words[r \div WordBits]
<1> DEFINE n == next_op[u]
           op == Ops(u)[n]
           w == r \div WordBits
<1>0. GroupOK
  BY DEF MasksInv
<1>1. /\ n \in 1 .. Len(Ops(u)) /\ op.word \in 0 .. EntryCount(Count)
      /\ words \in [0 .. EntryCount(Count) -> SUBSET Bits]
      /\ words' = [words EXCEPT ![op.word] = Written(op, words[op.word])]
  BY StoreFacts
<1>2. w \in 0 .. EntryCount(Count)
  <2>1. w \in Nat /\ EntryCount(Count) \in Nat /\ w < EntryCount(Count)
    BY <1>0, RowFacts
  <2> QED BY <2>1
<1>3. CASE op.word = w
  <2>1. words[w] \in SUBSET Bits /\ words'[w] = Written(op, words[w])
    BY <1>1, <1>2, <1>3
  <2>2. r % WordBits \in Written(op, words[w]) <=> r % WordBits \in words[w]
    BY <1>0, <1>1, <1>3, <2>1, OthersStay
  <2> QED BY <2>1, <2>2
<1>4. CASE op.word # w
  <2>1. words'[w] = words[w]
    BY <1>1, <1>2, <1>4
  <2> QED BY <2>1
<1> QED BY <1>3, <1>4

\* A store of one task is not between the load and the store of another one for the
\* same word: with merge pruning because of the mutex, without it because the tasks
\* have no word in common.
LEMMA StoreApart ==
    ASSUME MasksInv, NEW u \in Tasks, Store(u), NEW t \in Tasks, t # u, at[t] = "Store"
    PROVE  words'[Ops(t)[next_op[t]].word] = words[Ops(t)[next_op[t]].word]
<1> DEFINE v == Ops(u)[next_op[u]].word
           w == Ops(t)[next_op[t]].word
<1>0. GroupOK /\ TasksOK /\ MutexOK /\ PositionOK(t)
  BY DEF MasksInv
<1>1. /\ next_op[u] \in 1 .. Len(Ops(u)) /\ at[u] = "Store"
      /\ words \in [0 .. EntryCount(Count) -> SUBSET Bits]
      /\ words' = [words EXCEPT ![v] = Written(Ops(u)[next_op[u]], words[v])]
  BY StoreFacts
<1>2. next_op[t] \in 1 .. Len(Ops(t))
  <2>1. next_op[t] \in Nat \ {0} /\ Len(Ops(t)) \in Nat /\ next_op[t] <= Len(Ops(t))
    BY <1>0, OpsFacts DEF TasksOK, PositionOK
  <2> QED BY <2>1
<1>3. ~group.shrink_runs
  <2> SUFFICES ASSUME group.shrink_runs PROVE FALSE
    OBVIOUS
  <2>1. block_mutex = {t} /\ block_mutex = {u}
    BY <1>0, <1>1 DEF MutexOK
  <2> QED BY <2>1
<1>4. v \in OwnWords(u) /\ w \in OwnWords(t) /\ w \in 0 .. EntryCount(Count)
  BY <1>0, <1>1, <1>2, <1>3, OpsFacts
<1>5. v # w
  BY <1>0, <1>4, WordsApart
<1> QED BY <1>1, <1>4, <1>5

\* A store keeps the invariant.
LEMMA StoreKeeps ==
    ASSUME MasksInv, NEW u \in Tasks, Store(u)
    PROVE  MasksInv'
<1> DEFINE n == next_op[u]
           op == Ops(u)[n]
<1>0. GroupOK /\ TasksOK /\ WordsOK /\ MutexOK /\ RowsAreOwn
      /\ \A t \in Tasks : PositionOK(t) /\ LoadedOK(t)
  BY DEF MasksInv
<1>1. /\ n \in 1 .. Len(Ops(u)) /\ op.word \in 0 .. EntryCount(Count)
      /\ words \in [0 .. EntryCount(Count) -> SUBSET Bits]
      /\ words' = [words EXCEPT ![op.word] = Written(op, words[op.word])]
      /\ Written(op, words[op.word]) \in SUBSET Bits
      /\ group' = group /\ block_mutex' = block_mutex /\ loaded' = loaded
      /\ next_op' = [next_op EXCEPT ![u] = n + 1]
      /\ at' = [at EXCEPT ![u] = "Load"] /\ at[u] = "Store"
  BY StoreFacts
<1>n. n \in Nat /\ Len(Ops(u)) \in Nat /\ n + 1 \in Nat \ {0} /\ n + 1 <= Len(Ops(u)) + 1
  BY <1>0, <1>1, OpsFacts
<1>2. /\ at' \in [Tasks -> MaskLocations] /\ next_op' \in [Tasks -> Nat \ {0}]
      /\ loaded' \in [Tasks -> SUBSET Bits]
      /\ at'[u] = "Load" /\ \A t \in Tasks \ {u} : at'[t] = at[t]
      /\ next_op'[u] = n + 1 /\ \A t \in Tasks \ {u} : next_op'[t] = next_op[t]
  BY <1>0, <1>1, <1>n DEF TasksOK, MaskLocations
<1>3. words' \in [0 .. EntryCount(Count) -> SUBSET Bits]
  BY <1>1
<1>4. ASSUME NEW t \in Tasks
      PROVE  /\ next_op'[t] <= Len(Ops(t)) + 1
             /\ at'[t] = "Store" => next_op'[t] <= Len(Ops(t))
             /\ at'[t] = "Done" => next_op'[t] = Len(Ops(t)) + 1
             /\ at'[t] \in {"Allocate", "Lock"} => next_op'[t] = 1
             /\ at'[t] = "Store" => loaded'[t] = words'[Ops(t)[next_op'[t]].word]
             /\ at'[t] \in {"Load", "Store"} => at[t] \in {"Load", "Store"}
  <2>1. CASE t = u
    BY <1>1, <1>2, <1>n, <2>1
  <2>2. CASE t # u
    <3>1. at'[t] = at[t] /\ next_op'[t] = next_op[t] /\ loaded'[t] = loaded[t]
      BY <1>1, <1>2, <2>2
    <3>2. PositionOK(t) /\ LoadedOK(t)
      BY <1>0
    <3>3. at[t] = "Store" =>
             words'[Ops(t)[next_op[t]].word] = words[Ops(t)[next_op[t]].word]
      BY <2>2, StoreApart
    <3> QED BY <3>1, <3>2, <3>3 DEF PositionOK, LoadedOK
  <2> QED BY <2>1, <2>2
<1>5. ASSUME NEW t \in Tasks, NEW r \in Owned(t), Cleared(t, r, next_op'[t])
      PROVE  r % WordBits \in words'[r \div WordBits] <=> SetBy(t, r, next_op'[t])
  <2> DEFINE w == r \div WordBits
             b == r % WordBits
  <2>0. r \in 0 .. Count - 1
    BY <1>0, OwnedPartition
  <2>1. Cleared(t, r, next_op[t]) => (b \in words[w] <=> SetBy(t, r, next_op[t]))
    BY <1>0 DEF RowsAreOwn, BitIsSet
  <2>2. CASE t # u
    <3>1. r \notin Owned(u)
      BY <1>0, <2>2, OwnedPartition
    <3>2. b \in words'[w] <=> b \in words[w]
      BY <2>0, <3>1, StoreStays
    <3>3. next_op'[t] = next_op[t]
      BY <1>2, <2>2
    <3> QED BY <1>5, <2>1, <3>2, <3>3
  <2>3. CASE t = u /\ op.word = w
    <3>1. words[w] \in SUBSET Bits /\ words'[w] = Written(op, words[w])
      BY <1>1, <2>3
    <3>2. Cleared(u, r, n + 1) /\ next_op'[t] = n + 1
      BY <1>2, <1>5, <2>3
    <3>3. Cleared(u, r, n) => (b \in words[w] <=> SetBy(u, r, n))
      BY <2>1, <2>3
    <3>4. r \in Owned(u)
      BY <2>3
    <3> HIDE DEF n
    <3>5. b \in Written(op, words[w]) <=> SetBy(u, r, n + 1)
      BY <1>0, <1>1, <2>3, <3>1, <3>2, <3>3, <3>4, OwnRow
    <3> QED BY <2>3, <3>1, <3>2, <3>5
  <2>4. CASE t = u /\ op.word # w
    <3>1. words'[w] = words[w]
      <4>1. w \in Nat /\ EntryCount(Count) \in Nat /\ w < EntryCount(Count)
        BY <1>0, <2>0, RowFacts
      <4>2. w \in 0 .. EntryCount(Count)
        BY <4>1
      <4> QED BY <1>1, <2>4, <4>2
    <3>2. Cleared(u, r, n + 1) /\ next_op'[t] = n + 1
      BY <1>2, <1>5, <2>4
    <3>3. op # SetValid(r) /\ ~ClearsRow(op, r)
      BY <1>0, <2>0, <2>4, SetValidFields DEF ClearsRow
    <3>4. Cleared(u, r, n) /\ (SetBy(u, r, n + 1) <=> SetBy(u, r, n))
      BY <1>0, <1>1, <3>2, <3>3, OneMoreOp
    <3> QED BY <2>1, <2>4, <3>1, <3>2, <3>4
  <2> QED BY <2>2, <2>3, <2>4
<1>6. group.shrink_runs =>
         \A t \in Tasks : at'[t] \in {"Load", "Store"} => block_mutex' = {t}
  BY <1>0, <1>1, <1>4 DEF MutexOK
<1>7. \A t \in Tasks : \A r \in Owned(t) :
         Cleared(t, r, next_op'[t]) =>
            (r % WordBits \in words'[r \div WordBits] <=> SetBy(t, r, next_op'[t]))
  BY <1>5
<1> QED BY <1>0, <1>1, <1>2, <1>3, <1>4, <1>6, <1>7, InvAfter

\* Every step keeps the invariant.
LEMMA MasksStep == MasksInv /\ [MasksNext]_masks_vars => MasksInv'
<1> SUFFICES ASSUME MasksInv, [MasksNext]_masks_vars PROVE MasksInv'
  OBVIOUS
<1>1. ASSUME NEW t \in Tasks,
             AllocateMasks(t) \/ Lock(t) \/ Load(t) \/ Store(t) \/ FinishMask(t)
      PROVE  MasksInv'
  BY <1>1, AllocateKeeps, LockKeeps, LoadKeeps, StoreKeeps, MaskFinishKeeps
<1>2. CASE UNCHANGED masks_vars
  <2>0. GroupOK /\ TasksOK /\ WordsOK /\ MutexOK /\ RowsAreOwn
        /\ \A t \in Tasks : PositionOK(t) /\ LoadedOK(t)
    BY DEF MasksInv
  <2>1. /\ group' = group /\ words' = words /\ block_mutex' = block_mutex
        /\ at' = at /\ next_op' = next_op /\ loaded' = loaded
    BY <1>2 DEF masks_vars, task_vars
  <2>2. \A t \in Tasks : \A r \in Owned(t) :
           Cleared(t, r, next_op'[t]) =>
              (r % WordBits \in words'[r \div WordBits] <=> SetBy(t, r, next_op'[t]))
    BY <2>0, <2>1 DEF RowsAreOwn, BitIsSet
  <2>3. \A t \in Tasks :
           /\ next_op'[t] <= Len(Ops(t)) + 1
           /\ at'[t] = "Store" => next_op'[t] <= Len(Ops(t))
           /\ at'[t] = "Done" => next_op'[t] = Len(Ops(t)) + 1
           /\ at'[t] \in {"Allocate", "Lock"} => next_op'[t] = 1
           /\ at'[t] = "Store" => loaded'[t] = words'[Ops(t)[next_op'[t]].word]
    BY <2>0, <2>1 DEF PositionOK, LoadedOK
  <2>4. /\ at' \in [Tasks -> MaskLocations] /\ next_op' \in [Tasks -> Nat \ {0}]
        /\ loaded' \in [Tasks -> SUBSET Bits]
        /\ group.shrink_runs =>
              \A t \in Tasks : at'[t] \in {"Load", "Store"} => block_mutex' = {t}
        /\ \/ words' \in [0 .. EntryCount(Count) -> SUBSET Bits]
           \/ words' = NotSet /\ \A t \in Tasks : at'[t] = "Allocate"
    BY <2>0, <2>1 DEF TasksOK, MutexOK, WordsOK
  <2> QED BY <2>0, <2>1, <2>2, <2>3, <2>4, InvAfter
<1> QED BY <1>1, <1>2 DEF MasksNext

\* The invariant holds always.
LEMMA MasksInvariant == MasksSpec => []MasksInv
<1> QED BY MasksStart, MasksStep, PTL DEF MasksSpec

\* For groups of any size, any number of threads and any sizes of words and blocks: when
\* all tasks of a MASK stage have ended, the mask has a bit for each row that begins a
\* window partition and for no other row (ComputeMasks, ComputeMasksForSmallRuns).
THEOREM MaskExact == MasksSpec => []MaskIsExact
<1>1. MasksInv => MaskIsExact
  <2> SUFFICES ASSUME MasksInv, AllDone, NEW r \in 0 .. Count - 1
               PROVE  BitIsSet(r) <=> r \in Begins
    BY DEF MaskIsExact
  <2>0. GroupOK /\ RowsAreOwn /\ \A t \in Tasks : PositionOK(t)
    BY DEF MasksInv
  <2>1. PICK t \in Tasks : r \in Owned(t)
    BY <2>0, OwnedPartition
  <2> DEFINE m == Len(Ops(t)) + 1
  <2>2. next_op[t] = m
    BY <2>0 DEF AllDone, PositionOK
  <2>3. /\ Len(Ops(t)) \in Nat /\ InitLen(t) \in 0 .. Len(Ops(t))
        /\ \E n \in 1 .. InitLen(t) : ClearsRow(Ops(t)[n], r)
    BY <2>0, <2>1, OpsFacts
  <2>4. (\A k \in 1 .. InitLen(t) : k < m) /\ (\A k \in InitLen(t) + 1 .. Len(Ops(t)) : k < m)
    BY <2>3
  <2>5. Cleared(t, r, m)
    BY <2>3, <2>4 DEF Cleared
  <2>6. SetBy(t, r, m) <=> \E k \in InitLen(t) + 1 .. Len(Ops(t)) : Ops(t)[k] = SetValid(r)
    BY <2>4 DEF SetBy
  <2>7. r \in Begins => \E k \in InitLen(t) + 1 .. Len(Ops(t)) : Ops(t)[k] = SetValid(r)
    BY <2>0, <2>1, OpsFacts
  <2>8. ASSUME NEW k \in InitLen(t) + 1 .. Len(Ops(t)), Ops(t)[k] = SetValid(r)
        PROVE  r \in Begins
    <3>1. PICK q \in Owned(t) \cap Begins : Ops(t)[k] = SetValid(q)
      BY <2>0, OpsFacts
    <3>2. q \in 0 .. Count - 1
      BY <2>0, OwnedPartition
    <3>3. /\ SetValid(r).word = r \div WordBits /\ SetValid(r).set = {r % WordBits}
          /\ SetValid(q).word = q \div WordBits /\ SetValid(q).set = {q % WordBits}
      BY <2>0, <3>2, SetValidFields
    <3>4. SetValid(r) = SetValid(q)
      BY <2>8, <3>1
    <3>5. r \div WordBits = q \div WordBits /\ r % WordBits = q % WordBits
      BY <3>3, <3>4, Zenon
    <3>6. /\ r = (r \div WordBits) * WordBits + (r % WordBits)
          /\ q = (q \div WordBits) * WordBits + (q % WordBits)
      BY <2>0, <3>2, RowFacts
    <3>7. r = q
      BY <3>5, <3>6
    <3> QED BY <3>7
  <2> HIDE DEF m
  <2>9. BitIsSet(r) <=> SetBy(t, r, m)
    BY <2>0, <2>1, <2>2, <2>5 DEF RowsAreOwn
  <2> QED BY <2>6, <2>7, <2>8, <2>9
<1> QED BY <1>1, MasksInvariant, PTL

\* For all of them, too: a task on sorted rows that has ended keeps its result, although
\* other tasks still write the words that its rows lie in.
THEOREM FinishedStay == MasksSpec => FinishedRowsStay
<1> DEFINE Kept(t) ==
       at[t] = "Done" =>
          \A r \in BlockSum(BlockBegin(t)) .. BlockSum(BlockEnd(t)) - 1 :
             group.sorted => (BitIsSet(r) <=> BitIsSet(r)')
<1>1. MasksInv /\ [MasksNext]_masks_vars => [\A t \in Tasks : Kept(t)]_masks_vars
  <2> SUFFICES ASSUME MasksInv, MasksNext, NEW t \in Tasks, at[t] = "Done", group.sorted,
                      NEW r \in BlockSum(BlockBegin(t)) .. BlockSum(BlockEnd(t)) - 1
               PROVE  BitIsSet(r) <=> BitIsSet(r)'
    OBVIOUS
  <2>0. GroupOK /\ WordsOK
    BY DEF MasksInv
  <2>1. r \in Owned(t) /\ r \in 0 .. Count - 1
    BY <2>0, OwnedCompared, OwnedPartition DEF Compared
  <2>2. words \in [0 .. EntryCount(Count) -> SUBSET Bits]
    BY <2>0 DEF WordsOK
  <2>3. PICK u \in Tasks :
           AllocateMasks(u) \/ Lock(u) \/ Load(u) \/ Store(u) \/ FinishMask(u)
    BY DEF MasksNext
  <2>4. CASE AllocateMasks(u)
    <3>1. words # NotSet
      <4>1. Len(group.block_sums) # 0
        BY <2>0, GroupFacts DEF Blocks
      <4>2. Count = group.block_sums[Len(group.block_sums)]
        BY <4>1 DEF Count, BlockSum, Before, Blocks
      <4>3. NotSet \notin [0 .. EntryCount(group.block_sums[Len(group.block_sums)]) -> SUBSET Bits]
        BY <2>0, InputsAssumption DEF GroupOK
      <4> QED BY <2>2, <4>2, <4>3
    <3>2. words' = words
      BY <2>4, <3>1 DEF AllocateMasks
    <3> QED BY <3>2 DEF BitIsSet
  <2>5. CASE Store(u)
    <3>1. u # t
      BY <2>5 DEF Store
    <3>2. r \notin Owned(u)
      BY <2>0, <2>1, <3>1, OwnedPartition
    <3> QED BY <2>1, <2>5, <3>2, StoreStays DEF BitIsSet
  <2>6. CASE Lock(u) \/ Load(u) \/ FinishMask(u)
    <3>1. words' = words
      BY <2>6 DEF Lock, Load, FinishMask
    <3> QED BY <3>1 DEF BitIsSet
  <2> QED BY <2>3, <2>4, <2>5, <2>6
<1> QED BY <1>1, MasksInvariant, PTL DEF MasksSpec, FinishedRowsStay

-----------------------------------------------------------------------------
(***************************************************************************)
(* What the masks define: where the window partition, or the peer group,   *)
(* of a row begins and ends.                                               *)
(***************************************************************************)
\* The masks are sets of rows that contain the first.
IsMask(mask) == mask \subseteq Rows /\ 0 \in mask

\* The begin is the last bit up to the row.
LEMMA BeginProps ==
    ASSUME NEW mask, IsMask(mask), NEW r \in Rows
    PROVE  /\ BeginOf(mask, r) \in mask /\ BeginOf(mask, r) \in Nat
           /\ BeginOf(mask, r) <= r
           /\ \A b \in mask : b <= r => b <= BeginOf(mask, r)
<1> DEFINE T == {b \in mask : b <= r}
<1>0. r \in Nat /\ 0 \in mask /\ \A b \in mask : b \in Nat
  BY DEF IsMask, Rows
<1>1. T \subseteq Nat /\ 0 \in T /\ r \in Nat /\ \A m \in T : m <= r
  BY <1>0
<1> HIDE DEF T
<1>2. Max(T) \in T /\ \A m \in T : Max(T) >= m
  BY <1>1, MaxProps
<1>3. Max(T) \in Nat /\ \A m \in T : m \in Nat /\ m <= Max(T)
  BY <1>1, <1>2
<1>4. BeginOf(mask, r) = Max(T)
  BY DEF BeginOf, T
<1> QED BY <1>2, <1>3, <1>4 DEF T

\* There is no other such row.
LEMMA BeginUnique ==
    ASSUME NEW mask, IsMask(mask), NEW r \in Rows, NEW b \in mask, b <= r,
           \A c \in mask : c <= r => c <= b
    PROVE  BeginOf(mask, r) = b
<1>1. b \in Nat
  BY DEF IsMask, Rows
<1> QED BY <1>1, BeginProps

\* The end is the first bit behind the row, or the end of the group.
LEMMA EndProps ==
    ASSUME NEW mask, IsMask(mask), NEW r \in Rows
    PROVE  /\ EndOf(mask, r) \in mask \cup {RowCount}
           /\ EndOf(mask, r) \in Nat
           /\ EndOf(mask, r) > r /\ EndOf(mask, r) <= RowCount
           /\ \A b \in mask : b > r => EndOf(mask, r) <= b
<1> DEFINE T == {b \in mask : b > r} \cup {RowCount}
<1>0. r \in Nat /\ RowCount \in Nat /\ RowCount > r /\ \A b \in mask : b \in Nat
  BY BoundariesAssumption DEF IsMask, Rows
<1>1. T \subseteq Nat /\ RowCount \in T /\ r \in Nat /\ \A m \in T : m > r
  BY <1>0
<1> HIDE DEF T
<1>2. Min(T) \in T /\ \A m \in T : Min(T) <= m
  BY <1>1, MinProps
<1>4. EndOf(mask, r) = Min(T)
  BY DEF EndOf, T
<1>5. Min(T) \in mask \cup {RowCount} /\ \A b \in mask : b > r => b \in T
  BY <1>2 DEF T
<1> QED BY <1>1, <1>2, <1>4, <1>5

\* There is no other such row.
LEMMA EndUnique ==
    ASSUME NEW mask, IsMask(mask), NEW r \in Rows,
           NEW e \in mask \cup {RowCount}, e > r,
           \A c \in mask : c > r => e <= c
    PROVE  EndOf(mask, r) = e
<1>1. e \in Nat /\ e <= RowCount
  BY BoundariesAssumption DEF IsMask, Rows
<1>2. EndOf(mask, r) <= e
  BY <1>1, EndProps
<1>3. e <= EndOf(mask, r)
  BY <1>1, EndProps
<1>4. EndOf(mask, r) \in Nat
  BY EndProps
<1> QED BY <1>1, <1>2, <1>3, <1>4

\* From one row to the next.
LEMMA BoundaryStep ==
    ASSUME NEW mask, IsMask(mask), NEW r \in Rows
    PROVE  /\ r \in mask => BeginOf(mask, r) = r
           /\ r \notin mask =>
                /\ r - 1 \in Rows
                /\ BeginOf(mask, r) = BeginOf(mask, r - 1)
                /\ EndOf(mask, r) = EndOf(mask, r - 1)
<1>0. r \in Nat
  BY DEF Rows
<1>1. r \in mask => BeginOf(mask, r) = r
  BY <1>0, BeginUnique
<1>2. ASSUME r \notin mask
      PROVE  /\ r - 1 \in Rows
             /\ BeginOf(mask, r) = BeginOf(mask, r - 1)
             /\ EndOf(mask, r) = EndOf(mask, r - 1)
  <2>1. r # 0 /\ r - 1 \in Rows
    BY <1>0, <1>2, BoundariesAssumption DEF IsMask, Rows
  <2> DEFINE b == BeginOf(mask, r - 1)
             e == EndOf(mask, r - 1)
  <2>2. /\ b \in mask /\ b \in Nat /\ b <= r - 1
        /\ \A c \in mask : c <= r - 1 => c <= b
    BY <2>1, BeginProps
  <2>3. /\ e \in mask \cup {RowCount} /\ e \in Nat /\ e > r - 1
        /\ \A c \in mask : c > r - 1 => e <= c
    BY <2>1, EndProps
  <2> HIDE DEF b, e
  <2>4. \A c \in mask : c \in Nat /\ c # r
    BY <1>2 DEF IsMask, Rows
  <2>5. b <= r /\ \A c \in mask : c <= r => c <= b
    BY <1>0, <2>2, <2>4
  <2>6. e # r
    BY <1>2, <2>3, BoundariesAssumption DEF Rows
  <2>7. e > r /\ \A c \in mask : c > r => e <= c
    BY <1>0, <2>3, <2>4, <2>6
  <2>8. BeginOf(mask, r) = b
    BY <2>2, <2>5, BeginUnique
  <2>9. EndOf(mask, r) = e
    BY <2>3, <2>7, EndUnique
  <2> QED BY <2>1, <2>8, <2>9 DEF b, e
<1> QED BY <1>1, <1>2
-----------------------------------------------------------------------------
(***************************************************************************)
(* The searches.  Each is a recursive function; that there is one, and     *)
(* that it is the only one, is shown with the function it should be.       *)
(***************************************************************************)
\* A blank word has no bits, and all its bits are rows.
LEMMA BlankWord ==
    ASSUME NEW mask, NEW x \in Nat, x % WordBits = 0,
           NEW y \in Nat, y \div WordBits = x \div WordBits, NoneValid(mask, y)
    PROVE  \A b \in x .. x + WordBits - 1 : b \in Rows /\ b \notin mask
<1>1. WordBits \in Nat \ {0}
  BY BoundariesAssumption
<1> DEFINE q == x \div WordBits
<1>2. q \in Nat /\ x = WordBits * q
  BY <1>1, DivMod
<1>3. \A b \in 0 .. WordBits - 1 : q * WordBits + b \in Rows /\ q * WordBits + b \notin mask
  BY DEF NoneValid
<1> HIDE DEF q
<1>4. q * WordBits = x
  BY <1>1, <1>2, SMT
<1> TAKE b \in x .. x + WordBits - 1
<1>5. b - x \in 0 .. WordBits - 1 /\ x + (b - x) = b
  BY <1>1
<1> QED BY <1>3, <1>4, <1>5

\* The first bit from x on, before r.
First(mask, x, r) == Min({b \in mask : x <= b /\ b < r} \cup {r})

\* It is a bit from x on, or r, and there is none before it.
LEMMA FirstProps ==
    ASSUME NEW mask, IsMask(mask), NEW x \in Nat, NEW r \in Nat
    PROVE  /\ First(mask, x, r) \in Nat /\ First(mask, x, r) <= r
           /\ First(mask, x, r) = r \/ (First(mask, x, r) \in mask /\ x <= First(mask, x, r))
           /\ \A b \in mask : x <= b /\ b < r => First(mask, x, r) <= b
<1> DEFINE T == {b \in mask : x <= b /\ b < r} \cup {r}
<1>0. \A b \in mask : b \in Nat
  BY DEF IsMask, Rows
<1>1. T \subseteq Nat /\ r \in T
  BY <1>0
<1> HIDE DEF T
<1>2. Min(T) \in T /\ \A m \in T : Min(T) <= m
  BY <1>1, MinProps
<1>3. First(mask, x, r) = Min(T)
  BY DEF First, T
<1>4. \A m \in T : m = r \/ (m \in mask /\ x <= m)
  BY DEF T
<1>5. \A b \in mask : x <= b /\ b < r => b \in T
  BY DEF T
<1> QED BY <1>1, <1>2, <1>3, <1>4, <1>5

\* There is no other such bit.
LEMMA FirstUnique ==
    ASSUME NEW mask, IsMask(mask), NEW x \in Nat, NEW r \in Nat, NEW v \in Nat,
           v <= r, v = r \/ (v \in mask /\ x <= v),
           \A b \in mask : x <= b /\ b < r => v <= b
    PROVE  First(mask, x, r) = v
<1> DEFINE u == First(mask, x, r)
<1>1. /\ u \in Nat /\ u <= r /\ (u = r \/ (u \in mask /\ x <= u))
      /\ \A b \in mask : x <= b /\ b < r => u <= b
  BY FirstProps
<1> HIDE DEF u
<1>2. u <= v
  BY <1>1
<1>3. v <= u
  BY <1>1
<1> QED BY <1>1, <1>2, <1>3 DEF u

\* The recursion of FindNextStart.
NextStep(f, mask, r, x) ==
    IF x >= r THEN r
    ELSE IF SkipsForward(mask, x) THEN f[x + WordBits]
    ELSE IF x \in mask THEN x ELSE f[x + 1]

IsNext(f, mask, r) ==
    f = [x \in 0 .. RowCount + WordBits |-> NextStep(f, mask, r, x)]

\* The first bits follow the recursion, wherever words end.
LEMMA FirstStep ==
    ASSUME NEW mask, IsMask(mask), NEW r \in 0 .. RowCount,
           NEW x \in 0 .. RowCount + WordBits
    PROVE  /\ x >= r => First(mask, x, r) = r
           /\ x < r /\ SkipsForward(mask, x) =>
                First(mask, x, r) = First(mask, x + WordBits, r)
           /\ x < r /\ x \in mask => First(mask, x, r) = x
           /\ x < r /\ x \notin mask => First(mask, x, r) = First(mask, x + 1, r)
<1>0. /\ x \in Nat /\ r \in Nat /\ WordBits \in Nat \ {0}
      /\ x + WordBits \in Nat /\ x + 1 \in Nat
  BY BoundariesAssumption
<1>m. \A b \in mask : b \in Nat
  BY DEF IsMask, Rows
<1>1. ASSUME x >= r PROVE First(mask, x, r) = r
  BY <1>0, <1>1, <1>m, FirstUnique
<1>2. ASSUME x < r, SkipsForward(mask, x)
      PROVE  First(mask, x, r) = First(mask, x + WordBits, r)
  <2>1. \A b \in x .. x + WordBits - 1 : b \notin mask
    BY <1>0, <1>2, BlankWord DEF SkipsForward
  <2> DEFINE v == First(mask, x + WordBits, r)
  <2>2. /\ v \in Nat /\ v <= r /\ (v = r \/ (v \in mask /\ x + WordBits <= v))
        /\ \A b \in mask : x + WordBits <= b /\ b < r => v <= b
    BY <1>0, FirstProps
  <2> HIDE DEF v
  <2>3. \A b \in mask : x <= b => x + WordBits <= b
    BY <1>0, <1>m, <2>1
  <2>4. v = r \/ (v \in mask /\ x <= v)
    BY <1>0, <2>2
  <2>5. First(mask, x, r) = v
    BY <1>0, <2>2, <2>3, <2>4, FirstUnique
  <2> QED BY <2>5 DEF v
<1>3. ASSUME x < r, x \in mask PROVE First(mask, x, r) = x
  BY <1>0, <1>3, FirstUnique
<1>4. ASSUME x < r, x \notin mask PROVE First(mask, x, r) = First(mask, x + 1, r)
  <2> DEFINE v == First(mask, x + 1, r)
  <2>2. /\ v \in Nat /\ v <= r /\ (v = r \/ (v \in mask /\ x + 1 <= v))
        /\ \A b \in mask : x + 1 <= b /\ b < r => v <= b
    BY <1>0, FirstProps
  <2> HIDE DEF v
  <2>3. \A b \in mask : x <= b => x + 1 <= b
    BY <1>0, <1>m, <1>4
  <2>4. v = r \/ (v \in mask /\ x <= v)
    BY <1>0, <2>2
  <2>5. First(mask, x, r) = v
    BY <1>0, <2>2, <2>3, <2>4, FirstUnique
  <2> QED BY <2>5 DEF v
<1> QED BY <1>1, <1>2, <1>3, <1>4

\* FindNextStart goes by words and finds the first bit.
LEMMA FindNextStartIsFirst ==
    ASSUME NEW mask, IsMask(mask), NEW r \in 0 .. RowCount, NEW l \in 0 .. RowCount
    PROVE  FindNextStart(mask, l, r) = First(mask, l, r)
<1> DEFINE D == 0 .. RowCount + WordBits
           g == [x \in D |-> First(mask, x, r)]
           f == CHOOSE h : IsNext(h, mask, r)
<1>0. RowCount \in Nat \ {0} /\ WordBits \in Nat \ {0} /\ l \in D
  BY BoundariesAssumption
<1>d. \A x \in D : x < r => x + 1 \in D /\ x + WordBits \in D
  BY <1>0
<1>1. IsNext(g, mask, r)
  <2>1. ASSUME NEW x \in D PROVE g[x] = NextStep(g, mask, r, x)
    <3>1. x < r => g[x + 1] = First(mask, x + 1, r) /\ g[x + WordBits] = First(mask, x + WordBits, r)
      BY <1>d
    <3>2. g[x] = First(mask, x, r) /\ x \in Nat /\ r \in Nat
      BY <1>0
    <3> HIDE DEF g
    <3> QED BY <3>1, <3>2, FirstStep DEF NextStep
  <2>2. g = [x \in D |-> g[x]]
    OBVIOUS
  <2> HIDE DEF g
  <2> QED BY <2>1, <2>2 DEF IsNext
<1>2. IsNext(f, mask, r)
  BY <1>1
<1>3. FindNextStart(mask, l, r) = f[l]
  BY DEF FindNextStart, IsNext, NextStep
<1> HIDE DEF f, g
<1>4. \A x \in D : f[x] = NextStep(f, mask, r, x) /\ g[x] = NextStep(g, mask, r, x)
  BY <1>1, <1>2 DEF IsNext
<1> DEFINE Bad == {n \in Nat : \E x \in D : n = RowCount + WordBits - x /\ f[x] # g[x]}
<1>5. Bad = {}
  <2> SUFFICES ASSUME Bad # {} PROVE FALSE
    OBVIOUS
  <2>1. PICK n \in Bad : \A m \in Bad : n <= m
    <3>1. Bad \subseteq Nat
      OBVIOUS
    <3> HIDE DEF Bad
    <3> QED BY <3>1, SmallestNat
  <2>2. PICK x \in D : n = RowCount + WordBits - x /\ f[x] # g[x]
    OBVIOUS
  <2>3. ASSUME NEW y \in D, y > x PROVE f[y] = g[y]
    <3>1. RowCount + WordBits - y \in Nat /\ RowCount + WordBits - y < n
      BY <1>0, <2>2, <2>3
    <3>2. RowCount + WordBits - y \notin Bad
      <4> HIDE DEF Bad
      <4>1. n \in Nat
        BY <1>0, <2>2
      <4> QED BY <2>1, <3>1, <4>1
    <3> QED BY <3>1, <3>2
  <2>4. x < r => f[x + 1] = g[x + 1] /\ f[x + WordBits] = g[x + WordBits]
    BY <1>0, <1>d, <2>3
  <2>5. x \in Nat /\ r \in Nat
    BY <1>0
  <2>6. NextStep(f, mask, r, x) = NextStep(g, mask, r, x)
    BY <2>4, <2>5 DEF NextStep
  <2> QED BY <1>4, <2>2, <2>6
<1>6. f[l] = g[l]
  <2>1. RowCount + WordBits - l \in Nat
    BY <1>0
  <2> QED BY <1>0, <1>5, <2>1
<1> QED BY <1>0, <1>3, <1>6 DEF g

\* The recursion of FindPrevStart, down to the first row.
PrevStep(f, mask, x) ==
    IF x <= 0 THEN 0
    ELSE IF SkipsBack(mask, x) THEN f[x - WordBits]
    ELSE IF x - 1 \in mask THEN x - 1 ELSE f[x - 1]

IsPrev(f, mask) == f = [x \in 0 .. RowCount |-> PrevStep(f, mask, x)]

\* The last bit before x; the first row always has one.
Last(mask, x) == IF x = 0 THEN 0 ELSE BeginOf(mask, x - 1)

\* The last bits follow the recursion, wherever words end.
LEMMA LastStep ==
    ASSUME NEW mask, IsMask(mask), NEW x \in 1 .. RowCount
    PROVE  /\ SkipsBack(mask, x) =>
                x - WordBits \in 1 .. RowCount /\ Last(mask, x) = Last(mask, x - WordBits)
           /\ x - 1 \in mask => Last(mask, x) = x - 1
           /\ x - 1 \notin mask =>
                x - 1 \in 1 .. RowCount /\ Last(mask, x) = Last(mask, x - 1)
<1>0. /\ x \in Nat \ {0} /\ WordBits \in Nat \ {0} /\ RowCount \in Nat \ {0}
      /\ x - 1 \in Rows /\ x - 1 \in Nat
  BY BoundariesAssumption DEF Rows
<1>m. 0 \in mask /\ \A b \in mask : b \in Nat
  BY DEF IsMask, Rows
<1>1. ASSUME x - 1 \in mask PROVE Last(mask, x) = x - 1
  BY <1>0, <1>1, BoundaryStep DEF Last
<1>2. ASSUME x - 1 \notin mask
      PROVE  x - 1 \in 1 .. RowCount /\ Last(mask, x) = Last(mask, x - 1)
  <2>1. (x - 1) - 1 \in Rows /\ BeginOf(mask, x - 1) = BeginOf(mask, (x - 1) - 1)
    BY <1>0, <1>2, BoundaryStep
  <2>2. x - 1 # 0
    BY <1>2, <1>m
  <2> QED BY <1>0, <2>1, <2>2 DEF Last
<1>3. ASSUME SkipsBack(mask, x)
      PROVE  x - WordBits \in 1 .. RowCount /\ Last(mask, x) = Last(mask, x - WordBits)
  <2> DEFINE q == x \div WordBits
             k == (x - 1) \div WordBits
  <2>1. q \in Nat /\ x = WordBits * q
    BY <1>0, <1>3, DivMod DEF SkipsBack
  <2>2. k \in Nat /\ (x - 1) % WordBits \in 0 .. WordBits - 1
        /\ x - 1 = WordBits * k + ((x - 1) % WordBits)
    BY <1>0, DivMod
  <2>3. k = q - 1
    <3> DEFINE d == (x - 1) % WordBits
    <3> HIDE DEF q, k, d
    <3>1. WordBits * q - 1 = WordBits * k + d /\ d \in Nat /\ d < WordBits
      BY <1>0, <2>1, <2>2 DEF d
    <3>2. ~(k >= q)
      <4>1. SUFFICES ASSUME k >= q PROVE FALSE
        OBVIOUS
      <4>2. WordBits * k >= WordBits * q
        BY <1>0, <2>1, <2>2, <4>1, SMT
      <4>3. WordBits * k \in Nat /\ WordBits * q \in Nat
        BY <1>0, <2>1, <2>2, SMT
      <4> QED BY <3>1, <4>2, <4>3
    <3>3. ~(k + 2 <= q)
      <4>1. SUFFICES ASSUME k + 2 <= q PROVE FALSE
        OBVIOUS
      <4>2. WordBits * q >= WordBits * (k + 2)
        BY <1>0, <2>1, <2>2, <4>1, SMT
      <4>3. WordBits * (k + 2) = WordBits * k + 2 * WordBits
        BY <1>0, <2>2, SMT
      <4>4. WordBits * k \in Nat /\ WordBits * q \in Nat
        BY <1>0, <2>1, <2>2, SMT
      <4> QED BY <1>0, <3>1, <4>2, <4>3, <4>4
    <3> QED BY <2>1, <2>2, <3>2, <3>3
  <2> DEFINE y == x - WordBits
  <2>4. y = WordBits * k /\ y \in Nat
    <3> HIDE DEF q, k
    <3>1. WordBits * (q - 1) = WordBits * q - WordBits
      BY <1>0, <2>1, SMT
    <3>2. WordBits * k \in Nat
      BY <1>0, <2>2, SMT
    <3> QED BY <2>1, <2>3, <3>1, <3>2
  <2>5. y % WordBits = 0 /\ y \div WordBits = k
    <3> HIDE DEF y, k
    <3> DEFINE p == y \div WordBits
               e == y % WordBits
    <3>0. y \in Nat /\ WordBits \in Nat \ {0}
      BY <1>0, <2>4
    <3>1. p \in Nat /\ e \in 0 .. WordBits - 1 /\ y = WordBits * p + e
      BY <3>0, DivMod
    <3> HIDE DEF p, e
    <3>2. WordBits * k = WordBits * p + e
      BY <2>4, <3>1
    <3>3. ~(p < k)
      <4>1. SUFFICES ASSUME p < k PROVE FALSE
        OBVIOUS
      <4>2. WordBits * k >= WordBits * (p + 1)
        BY <1>0, <2>2, <3>1, <4>1, SMT
      <4>3. WordBits * (p + 1) = WordBits * p + WordBits
        BY <1>0, <3>1, SMT
      <4>4. WordBits * p \in Nat
        BY <1>0, <3>1, SMT
      <4> QED BY <1>0, <3>1, <3>2, <4>2, <4>3, <4>4
    <3>4. ~(k < p)
      <4>1. SUFFICES ASSUME k < p PROVE FALSE
        OBVIOUS
      <4>2. WordBits * p >= WordBits * (k + 1)
        BY <1>0, <2>2, <3>1, <4>1, SMT
      <4>3. WordBits * (k + 1) = WordBits * k + WordBits
        BY <1>0, <2>2, SMT
      <4>4. WordBits * k \in Nat
        BY <1>0, <2>2, SMT
      <4> QED BY <1>0, <3>1, <3>2, <4>2, <4>3, <4>4
    <3>5. p = k
      BY <2>2, <3>1, <3>3, <3>4
    <3>6. e = 0
      <4>1. WordBits * k \in Nat
        BY <1>0, <2>2, SMT
      <4> QED BY <3>1, <3>2, <3>5, <4>1
    <3> QED BY <3>5, <3>6 DEF p, e
  <2> HIDE DEF q, k
  <2>6. \A b \in y .. y + WordBits - 1 : b \in Rows /\ b \notin mask
    <3>1. NoneValid(mask, x - 1) /\ (x - 1) \div WordBits = y \div WordBits
      BY <1>3, <2>5 DEF SkipsBack, k
    <3> HIDE DEF y
    <3> QED BY <1>0, <2>4, <2>5, <3>1, BlankWord
  <2>7. \A b \in y .. x - 1 : b \notin mask
    <3>1. y + WordBits - 1 = x - 1
      BY <1>0
    <3> QED BY <2>6, <3>1
  <2>8. y # 0 /\ y \in 1 .. RowCount /\ y - 1 \in Rows /\ y - 1 \in Nat
    <3>1. y # 0
      BY <1>0, <1>m, <2>7
    <3> QED BY <1>0, <2>4, <3>1 DEF Rows
  <2> DEFINE b == BeginOf(mask, y - 1)
  <2>9. b \in mask /\ b \in Nat /\ b <= y - 1 /\ \A c \in mask : c <= y - 1 => c <= b
    BY <2>8, BeginProps
  <2> HIDE DEF b
  <2>10. b <= x - 1 /\ \A c \in mask : c <= x - 1 => c <= b
    BY <1>0, <1>m, <2>7, <2>8, <2>9
  <2>11. BeginOf(mask, x - 1) = b
    BY <1>0, <2>9, <2>10, BeginUnique
  <2> QED BY <1>0, <2>8, <2>11 DEF Last, b
<1> QED BY <1>1, <1>2, <1>3

\* FindPrevStart goes by words and finds the last bit.
LEMMA FindPrevStartIsLast ==
    ASSUME NEW mask, IsMask(mask), NEW r \in Rows
    PROVE  FindPrevStart(mask, 0, r + 1) = BeginOf(mask, r)
<1> DEFINE D == 0 .. RowCount
           g == [x \in D |-> Last(mask, x)]
           f == CHOOSE h : IsPrev(h, mask)
<1>0. RowCount \in Nat \ {0} /\ WordBits \in Nat \ {0} /\ r + 1 \in D /\ r \in Nat
  BY BoundariesAssumption DEF Rows
<1>1. IsPrev(g, mask)
  <2>1. ASSUME NEW x \in D PROVE g[x] = PrevStep(g, mask, x)
    <3>1. CASE x = 0
      BY <3>1 DEF PrevStep, Last
    <3>2. CASE x # 0
      <4>1. x \in 1 .. RowCount
        BY <1>0, <3>2
      <4>2. \A y \in 1 .. RowCount : g[y] = Last(mask, y)
        BY <1>0
      <4> HIDE DEF g
      <4>3. g[x] = Last(mask, x) /\ ~(x <= 0)
        BY <1>0, <4>1, <4>2
      <4> QED BY <4>1, <4>2, <4>3, LastStep DEF PrevStep
    <3> QED BY <3>1, <3>2
  <2>2. g = [x \in D |-> g[x]]
    OBVIOUS
  <2> HIDE DEF g
  <2> QED BY <2>1, <2>2 DEF IsPrev
<1>2. IsPrev(f, mask)
  BY <1>1
<1>3. FindPrevStart(mask, 0, r + 1) = f[r + 1]
  BY DEF FindPrevStart, IsPrev, PrevStep
<1> HIDE DEF f, g
<1>4. \A x \in D : f[x] = PrevStep(f, mask, x) /\ g[x] = PrevStep(g, mask, x)
  BY <1>1, <1>2 DEF IsPrev
<1> DEFINE Bad == {x \in D : f[x] # g[x]}
<1>5. Bad = {}
  <2> SUFFICES ASSUME Bad # {} PROVE FALSE
    OBVIOUS
  <2>1. PICK x \in Bad : \A y \in Bad : x <= y
    <3>1. Bad \subseteq Nat
      BY <1>0
    <3> HIDE DEF Bad
    <3> QED BY <3>1, SmallestNat
  <2>2. x \in D /\ f[x] # g[x] /\ x \in Nat
    BY <1>0
  <2>3. ASSUME NEW y \in D, y < x PROVE f[y] = g[y]
    <3>1. y \in Nat /\ ~(x <= y)
      BY <1>0, <2>2, <2>3
    <3>2. y \notin Bad
      <4> HIDE DEF Bad
      <4> QED BY <2>1, <3>1
    <3> QED BY <3>2
  <2>4. CASE x = 0
    BY <1>4, <2>2, <2>4 DEF PrevStep
  <2>5. CASE x # 0
    <3>1. x \in 1 .. RowCount
      BY <1>0, <2>2, <2>5
    <3>2. SkipsBack(mask, x) => f[x - WordBits] = g[x - WordBits]
      <4>1. SkipsBack(mask, x) => x - WordBits \in D /\ x - WordBits < x
        BY <1>0, <3>1, LastStep
      <4> QED BY <2>3, <4>1
    <3>3. f[x - 1] = g[x - 1]
      BY <1>0, <2>3, <3>1
    <3>4. PrevStep(f, mask, x) = PrevStep(g, mask, x)
      BY <3>2, <3>3 DEF PrevStep
    <3> QED BY <1>4, <2>2, <3>4
  <2> QED BY <2>4, <2>5
<1>6. f[r + 1] = g[r + 1]
  BY <1>0, <1>5
<1>7. g[r + 1] = BeginOf(mask, r)
  BY <1>0 DEF g, Last
<1> QED BY <1>3, <1>6, <1>7

-----------------------------------------------------------------------------
(***************************************************************************)
(* The boundary vectors of a block.                                        *)
(***************************************************************************)
\* Two functions are equal on a block when they agree before it and each value
\* follows from the one before.
LEMMA VectorInduction ==
    ASSUME NEW n \in Nat, NEW f, NEW g, f[-1] = g[-1],
           \A p \in 0 .. n - 1 : f[p - 1] = g[p - 1] => f[p] = g[p]
    PROVE  \A p \in -1 .. n - 1 : f[p] = g[p]
<1> DEFINE Bad == {m \in Nat : m - 1 \in -1 .. n - 1 /\ f[m - 1] # g[m - 1]}
<1>1. Bad = {}
  <2> SUFFICES ASSUME Bad # {} PROVE FALSE
    OBVIOUS
  <2>1. PICK m \in Bad : \A k \in Bad : m <= k
    <3>1. Bad \subseteq Nat
      OBVIOUS
    <3> HIDE DEF Bad
    <3> QED BY <3>1, SmallestNat
  <2>2. m \in Nat /\ m - 1 \in -1 .. n - 1 /\ f[m - 1] # g[m - 1]
    OBVIOUS
  <2>3. m # 0
    BY <2>2
  <2>4. m - 1 \in Nat /\ (m - 1) - 1 \in -1 .. n - 1 /\ m - 1 \in 0 .. n - 1
    BY <2>2, <2>3
  <2>5. m - 1 \notin Bad
    <3> HIDE DEF Bad
    <3> QED BY <2>1, <2>2, <2>4
  <2>6. f[(m - 1) - 1] = g[(m - 1) - 1]
    BY <2>4, <2>5
  <2> QED BY <2>2, <2>4, <2>6
<1> TAKE p \in -1 .. n - 1
<1>2. p + 1 \in Nat /\ (p + 1) - 1 = p
  OBVIOUS
<1>3. p + 1 \notin Bad
  BY <1>1
<1> QED BY <1>2, <1>3

\* The recursion of PartitionBegin and PeerBegin.
BeginVectorStep(h, start, mask, set, f, is_jump, p) ==
    IF p = -1 THEN start
    ELSE IF p = 0 /\ is_jump THEN FindPrevStart(mask, 0, f + 1)
    ELSE IF f + p \in set THEN f + p
    ELSE h[p - 1]

IsBeginVector(h, start, mask, set, f, n, is_jump) ==
    h = [p \in -1 .. n - 1 |-> BeginVectorStep(h, start, mask, set, f, is_jump, p)]

\* The rows of a block.
IsBlock(f, n) == f \in Rows /\ n \in Nat \ {0} /\ f + n <= RowCount

\* They are rows of the group.
LEMMA BlockRows ==
    ASSUME NEW f, NEW n, IsBlock(f, n)
    PROVE  /\ f \in Nat /\ n \in Nat \ {0} /\ RowCount \in Nat
           /\ \A p \in 0 .. n - 1 : f + p \in Rows /\ f + p \in Nat /\ p \in Nat
  BY BoundariesAssumption DEF IsBlock, Rows

\* A thread's last begin, or the mask after a jump, gives all of the block.
LEMMA BeginVectorExact ==
    ASSUME NEW mask, IsMask(mask), NEW f, NEW n, IsBlock(f, n), NEW is_jump \in BOOLEAN,
           NEW start, ~is_jump /\ f # 0 => start = BeginOf(mask, f - 1)
    PROVE  /\ \E h : IsBeginVector(h, start, mask, mask, f, n, is_jump)
           /\ \A h : IsBeginVector(h, start, mask, mask, f, n, is_jump) =>
                 \A p \in 0 .. n - 1 : h[p] = BeginOf(mask, f + p)
<1> DEFINE D == -1 .. n - 1
           g == [p \in D |-> IF p = -1 THEN start ELSE BeginOf(mask, f + p)]
           S(h, p) == BeginVectorStep(h, start, mask, mask, f, is_jump, p)
<1>0. /\ f \in Nat /\ n \in Nat \ {0} /\ RowCount \in Nat /\ f \in Rows
      /\ \A p \in 0 .. n - 1 : f + p \in Rows /\ f + p \in Nat /\ p \in Nat
  BY BlockRows DEF IsBlock
<1>1. g[-1] = start /\ \A p \in 0 .. n - 1 : g[p] = BeginOf(mask, f + p)
  BY <1>0
<1>2. ASSUME NEW p \in 0 .. n - 1 PROVE g[p] = S(g, p)
  <2> HIDE DEF g
  <2>0. p # -1 /\ f + p \in Rows /\ p \in Nat
    BY <1>0
  <2>1. CASE p = 0 /\ is_jump
    BY <1>0, <1>1, <2>0, <2>1, FindPrevStartIsLast DEF BeginVectorStep
  <2>2. CASE ~(p = 0 /\ is_jump) /\ f + p \in mask
    BY <1>1, <2>0, <2>2, BoundaryStep DEF BeginVectorStep
  <2>3. CASE ~(p = 0 /\ is_jump) /\ f + p \notin mask
    <3>1. (f + p) - 1 \in Rows /\ BeginOf(mask, f + p) = BeginOf(mask, (f + p) - 1)
      <4>1. PICK r \in Rows : r = f + p
        BY <2>0
      <4>2. r \notin mask
        BY <2>3, <4>1
      <4>3. r - 1 \in Rows /\ BeginOf(mask, r) = BeginOf(mask, r - 1)
        BY <4>2, BoundaryStep
      <4> QED BY <4>1, <4>3
    <3>2. S(g, p) = g[p - 1]
      BY <2>0, <2>3 DEF BeginVectorStep
    <3>3. CASE p = 0
      <4>1. f # 0 /\ (f + p) - 1 = f - 1 /\ p - 1 = -1
        BY <1>0, <2>3, <3>3 DEF IsMask
      <4> QED BY <1>1, <2>3, <3>1, <3>2, <3>3, <4>1
    <3>4. CASE p # 0
      <4>1. p - 1 \in 0 .. n - 1 /\ f + (p - 1) = (f + p) - 1
        BY <1>0, <2>0, <3>4
      <4> QED BY <1>1, <3>1, <3>2, <4>1
    <3> QED BY <3>3, <3>4
  <2> QED BY <2>1, <2>2, <2>3
<1>3. \A p \in D : p = -1 \/ p \in 0 .. n - 1
  BY <1>0
<1>4. IsBeginVector(g, start, mask, mask, f, n, is_jump)
  <2>1. \A p \in D : g[p] = S(g, p)
    BY <1>1, <1>2, <1>3 DEF BeginVectorStep
  <2>2. g = [p \in D |-> g[p]]
    OBVIOUS
  <2> HIDE DEF g
  <2> QED BY <2>1, <2>2 DEF IsBeginVector
<1>5. ASSUME NEW h, IsBeginVector(h, start, mask, mask, f, n, is_jump), NEW p \in 0 .. n - 1
      PROVE  h[p] = BeginOf(mask, f + p)
  <2>1. \A q \in D : h[q] = S(h, q)
    BY <1>5 DEF IsBeginVector
  <2> HIDE DEF g
  <2>2. h[-1] = g[-1]
    <3>1. -1 \in D
      BY <1>0
    <3> QED BY <1>1, <2>1, <3>1 DEF BeginVectorStep
  <2>3. ASSUME NEW q \in 0 .. n - 1, h[q - 1] = g[q - 1] PROVE h[q] = g[q]
    <3>1. q \in D /\ q # -1
      BY <1>0
    <3>2. S(h, q) = S(g, q)
      BY <2>3, <3>1 DEF BeginVectorStep
    <3> QED BY <1>2, <2>1, <3>1, <3>2
  <2>4. h[p] = g[p]
    BY <1>0, <2>2, <2>3, VectorInduction
  <2> QED BY <1>1, <2>4
<1> QED BY <1>4, <1>5

\* Up to the end of its window partition, or of the group, the end of a row is
\* the first bit behind its begin.
LEMMA EndIsFirst ==
    ASSUME NEW mask, IsMask(mask), NEW r \in Rows,
           NEW e \in mask \cup {RowCount}, e > r
    PROVE  EndOf(mask, r) = First(mask, BeginOf(mask, r) + 1, e)
<1> DEFINE b == BeginOf(mask, r)
           v == EndOf(mask, r)
<1>0. /\ r \in Nat /\ e \in Nat /\ RowCount \in Nat /\ e <= RowCount
      /\ \A c \in mask : c \in Nat /\ c < RowCount
  BY BoundariesAssumption DEF Rows, IsMask
<1>1. b \in Nat /\ b <= r /\ \A c \in mask : c <= r => c <= b
  BY BeginProps
<1>2. /\ v \in mask \cup {RowCount} /\ v \in Nat /\ v > r /\ v <= RowCount
      /\ \A c \in mask : c > r => v <= c
  BY EndProps
<1> HIDE DEF b, v
<1>3. v <= e
  BY <1>0, <1>2
<1>4. v = e \/ (v \in mask /\ b + 1 <= v)
  BY <1>0, <1>1, <1>2, <1>3
<1>5. \A c \in mask : b + 1 <= c /\ c < e => v <= c
  BY <1>0, <1>1, <1>2
<1>6. First(mask, b + 1, e) = v
  <2>1. PICK x \in Nat : x = b + 1
    BY <1>1
  <2>2. /\ v = e \/ (v \in mask /\ x <= v)
        /\ \A c \in mask : x <= c /\ c < e => v <= c
    BY <1>4, <1>5, <2>1
  <2>3. v \in Nat /\ e \in Nat
    BY <1>0, <1>2
  <2>4. First(mask, x, e) = v
    BY <1>3, <2>2, <2>3, FirstUnique
  <2> QED BY <2>1, <2>4
<1> QED BY <1>6 DEF b, v

\* What the code finds from the begin on.
LEMMA FindsEnd ==
    ASSUME NEW mask, IsMask(mask), NEW r \in Rows,
           NEW e \in mask \cup {RowCount}, e > r
    PROVE  FindNextStart(mask, BeginOf(mask, r) + 1, e) = EndOf(mask, r)
<1>1. BeginOf(mask, r) \in Nat /\ BeginOf(mask, r) <= r
  BY BeginProps
<1>2. BeginOf(mask, r) + 1 \in 0 .. RowCount /\ e \in 0 .. RowCount
  BY <1>1, BoundariesAssumption DEF Rows, IsMask
<1> QED BY <1>2, EndIsFirst, FindNextStartIsFirst

\* The masks of a sorted group.
MasksOK ==
    /\ IsMask(partition_mask) /\ IsMask(order_mask)
    /\ partition_mask \subseteq order_mask
    /\ partition_count = 0 => partition_mask = {0}

\* What a thread carries from its last block is right for the row before next_pos.
CarriedOK ==
    next_pos # 0 =>
        /\ partition_start = BeginOf(partition_mask, next_pos - 1)
        /\ partition_end = EndOf(partition_mask, next_pos - 1)
        /\ peer_start = BeginOf(order_mask, next_pos - 1)

\* The vector of partition begins, in any block of a thread.
LEMMA PartitionBeginExact ==
    ASSUME MasksOK, CarriedOK, NEW f, NEW n, IsBlock(f, n)
    PROVE  PartitionBegin(f, n, IsJump(f)) =
             [p \in 0 .. n - 1 |-> BeginOf(partition_mask, f + p)]
<1> DEFINE j == IsJump(f)
           h == CHOOSE h : IsBeginVector(h, partition_start, partition_mask,
                                         partition_mask, f, n, j)
<1>1. j \in BOOLEAN /\ (~j /\ f # 0 => partition_start = BeginOf(partition_mask, f - 1))
  BY DEF IsJump, CarriedOK
<1>2. PartitionBegin(f, n, j) = [p \in 0 .. n - 1 |-> h[p]]
  BY DEF PartitionBegin, IsBeginVector, BeginVectorStep
<1>3. IsMask(partition_mask)
  BY DEF MasksOK
<1> HIDE DEF j
<1>4. IsBeginVector(h, partition_start, partition_mask, partition_mask, f, n, j)
  BY <1>1, <1>3, BeginVectorExact
<1> HIDE DEF h
<1>5. \A p \in 0 .. n - 1 : h[p] = BeginOf(partition_mask, f + p)
  BY <1>1, <1>3, <1>4, BeginVectorExact
<1> QED BY <1>2, <1>5 DEF j

\* The vector of peer begins: a window partition opens a peer group.
LEMMA PeerBeginExact ==
    ASSUME MasksOK, CarriedOK, NEW f, NEW n, IsBlock(f, n)
    PROVE  PeerBegin(f, n, IsJump(f)) =
             [p \in 0 .. n - 1 |-> BeginOf(order_mask, f + p)]
<1> DEFINE j == IsJump(f)
           H(set) == CHOOSE h : IsBeginVector(h, peer_start, order_mask, set, f, n, j)
           h == H(order_mask)
<1>0. partition_mask \cup order_mask = order_mask
  BY DEF MasksOK
<1>1. j \in BOOLEAN /\ (~j /\ f # 0 => peer_start = BeginOf(order_mask, f - 1))
  BY DEF IsJump, CarriedOK
<1>2. PeerBegin(f, n, j) = [p \in 0 .. n - 1 |-> h[p]]
  <2>1. PeerBegin(f, n, j) =
          [p \in 0 .. n - 1 |-> H(partition_mask \cup order_mask)[p]]
    BY DEF PeerBegin, IsBeginVector, BeginVectorStep
  <2> HIDE DEF H
  <2> QED BY <1>0, <2>1
<1>3. IsMask(order_mask)
  BY DEF MasksOK
<1> HIDE DEF j
<1>4. IsBeginVector(h, peer_start, order_mask, order_mask, f, n, j)
  BY <1>1, <1>3, BeginVectorExact
<1> HIDE DEF h
<1>5. \A p \in 0 .. n - 1 : h[p] = BeginOf(order_mask, f + p)
  BY <1>1, <1>3, <1>4, BeginVectorExact
<1> QED BY <1>2, <1>5 DEF j

\* The recursion of PartitionEnd.
EndVectorStep(h, f, is_jump, begin, p) ==
    IF p = -1 THEN partition_end
    ELSE IF ~(f + p \in partition_mask \/ (p = 0 /\ is_jump)) THEN h[p - 1]
    ELSE IF partition_count = 0 THEN RowCount
    ELSE FindNextStart(partition_mask, begin[p] + 1, RowCount)

IsEndVector(h, f, n, is_jump, begin) ==
    h = [p \in -1 .. n - 1 |-> EndVectorStep(h, f, is_jump, begin, p)]

\* The ends follow it.
LEMMA EndVectorFollows ==
    ASSUME MasksOK, CarriedOK, NEW f, NEW n, IsBlock(f, n), NEW begin, NEW g,
           \A p \in 0 .. n - 1 : begin[p] = BeginOf(partition_mask, f + p),
           g[-1] = partition_end,
           \A p \in 0 .. n - 1 : g[p] = EndOf(partition_mask, f + p)
    PROVE  \A p \in -1 .. n - 1 : g[p] = EndVectorStep(g, f, IsJump(f), begin, p)
<1> DEFINE mask == partition_mask
<1>0. /\ f \in Nat /\ n \in Nat \ {0} /\ RowCount \in Nat /\ f \in Rows
      /\ \A p \in 0 .. n - 1 : f + p \in Rows /\ f + p \in Nat /\ p \in Nat
  BY BlockRows DEF IsBlock
<1>1. IsMask(mask) /\ (partition_count = 0 => mask = {0})
  BY DEF MasksOK
<1>2. ASSUME NEW p \in 0 .. n - 1
      PROVE  g[p] = EndVectorStep(g, f, IsJump(f), begin, p)
  <2>0. PICK r \in Rows : r = f + p
    BY <1>0
  <2>n. r \in Nat /\ p \in Nat /\ p # -1 /\ r < RowCount
    BY <1>0, <2>0 DEF Rows
  <2>1. g[p] = EndOf(mask, r) /\ begin[p] = BeginOf(mask, r)
    BY <2>0
  <2>2. CASE ~(r \in mask \/ (p = 0 /\ IsJump(f)))
    <3>1. r - 1 \in Rows /\ EndOf(mask, r) = EndOf(mask, r - 1)
      BY <1>1, <2>2, BoundaryStep
    <3>2. EndVectorStep(g, f, IsJump(f), begin, p) = g[p - 1]
      BY <2>0, <2>2, <2>n DEF EndVectorStep
    <3>3. CASE p = 0
      <4>1. r = f /\ r # 0 /\ p - 1 = -1
        BY <1>0, <1>1, <2>0, <2>2, <3>3 DEF IsMask
      <4>2. g[p - 1] = EndOf(mask, r - 1)
        BY <2>2, <3>3, <4>1 DEF IsJump, CarriedOK
      <4> QED BY <2>1, <3>1, <3>2, <4>2
    <3>4. CASE p # 0
      <4>1. p - 1 \in 0 .. n - 1 /\ f + (p - 1) = r - 1
        BY <1>0, <2>0, <3>4
      <4> QED BY <2>1, <3>1, <3>2, <4>1
    <3> QED BY <3>3, <3>4
  <2>3. CASE (r \in mask \/ (p = 0 /\ IsJump(f))) /\ partition_count = 0
    <3>1. \A c \in mask : ~(c > r)
      BY <1>1, <2>3, <2>n
    <3>2. EndOf(mask, r) = RowCount
      BY <1>1, <2>n, <3>1, EndUnique
    <3>3. EndVectorStep(g, f, IsJump(f), begin, p) = RowCount
      BY <2>0, <2>3, <2>n DEF EndVectorStep
    <3> QED BY <2>1, <3>2, <3>3
  <2>4. CASE (r \in mask \/ (p = 0 /\ IsJump(f))) /\ partition_count # 0
    <3>1. EndVectorStep(g, f, IsJump(f), begin, p) =
            FindNextStart(mask, BeginOf(mask, r) + 1, RowCount)
      BY <2>0, <2>1, <2>4, <2>n DEF EndVectorStep
    <3>2. RowCount > r
      BY <1>0, <2>n
    <3> QED BY <1>1, <2>1, <3>1, <3>2, FindsEnd
  <2> QED BY <2>2, <2>3, <2>4
<1>3. \A p \in -1 .. n - 1 : p = -1 \/ p \in 0 .. n - 1
  BY <1>0
<1>4. EndVectorStep(g, f, IsJump(f), begin, -1) = partition_end
  BY DEF EndVectorStep
<1> QED BY <1>2, <1>3, <1>4

\* The vector of partition ends.
LEMMA PartitionEndExact ==
    ASSUME MasksOK, CarriedOK, NEW f, NEW n, IsBlock(f, n), NEW begin,
           \A p \in 0 .. n - 1 : begin[p] = BeginOf(partition_mask, f + p)
    PROVE  PartitionEnd(f, n, IsJump(f), begin) =
             [p \in 0 .. n - 1 |-> EndOf(partition_mask, f + p)]
<1> DEFINE D == -1 .. n - 1
           j == IsJump(f)
           g == [p \in D |-> IF p = -1 THEN partition_end
                             ELSE EndOf(partition_mask, f + p)]
           h == CHOOSE h : IsEndVector(h, f, n, j, begin)
<1>0. n \in Nat \ {0} /\ -1 \in D /\ 0 .. n - 1 \subseteq D /\ -1 \notin 0 .. n - 1
  BY DEF IsBlock
<1>1. g[-1] = partition_end /\ \A p \in 0 .. n - 1 : g[p] = EndOf(partition_mask, f + p)
  BY <1>0
<1>2. g = [p \in D |-> g[p]]
  OBVIOUS
<1>3. PartitionEnd(f, n, j, begin) = [p \in 0 .. n - 1 |-> h[p]]
  BY DEF PartitionEnd, IsEndVector, EndVectorStep
<1> HIDE DEF g
<1>4. \A p \in D : g[p] = EndVectorStep(g, f, j, begin, p)
  BY <1>1, EndVectorFollows
<1> HIDE DEF j
<1>5. IsEndVector(g, f, n, j, begin)
  BY <1>2, <1>4 DEF IsEndVector
<1>6. IsEndVector(h, f, n, j, begin)
  BY <1>5
<1> HIDE DEF h
<1>7. \A p \in D : h[p] = EndVectorStep(h, f, j, begin, p)
  BY <1>6 DEF IsEndVector
<1>8. h[-1] = g[-1]
  BY <1>0, <1>1, <1>7 DEF EndVectorStep
<1>9. ASSUME NEW p \in 0 .. n - 1, h[p - 1] = g[p - 1] PROVE h[p] = g[p]
  <2>1. EndVectorStep(h, f, j, begin, p) = EndVectorStep(g, f, j, begin, p)
    BY <1>0, <1>9 DEF EndVectorStep
  <2> QED BY <1>0, <1>4, <1>7, <2>1
<1>10. \A p \in 0 .. n - 1 : h[p] = g[p]
  <2>1. n \in Nat
    BY <1>0
  <2>2. \A p \in D : h[p] = g[p]
    BY <1>8, <1>9, <2>1, VectorInduction
  <2> QED BY <1>0, <2>2
<1> QED BY <1>1, <1>3, <1>10 DEF j

\* The recursion of PeerEnd.
PeerEndStep(h, begin, ends, p) ==
    IF p = -1 THEN begin[0]
    ELSE IF begin[p] >= h[p - 1] THEN FindNextStart(order_mask, begin[p] + 1, ends[p])
    ELSE h[p - 1]

IsPeerEndVector(h, n, begin, ends) ==
    h = [p \in -1 .. n - 1 |-> PeerEndStep(h, begin, ends, p)]

\* The ends of the peer groups follow it.
LEMMA PeerEndFollows ==
    ASSUME MasksOK, NEW f, NEW n, IsBlock(f, n), NEW begin, NEW ends, NEW g,
           \A p \in 0 .. n - 1 : begin[p] = BeginOf(order_mask, f + p),
           \A p \in 0 .. n - 1 : ends[p] = EndOf(partition_mask, f + p),
           g[-1] = begin[0],
           \A p \in 0 .. n - 1 : g[p] = EndOf(order_mask, f + p)
    PROVE  \A p \in -1 .. n - 1 : g[p] = PeerEndStep(g, begin, ends, p)
<1> DEFINE mask == order_mask
<1>0. /\ f \in Nat /\ n \in Nat \ {0} /\ RowCount \in Nat /\ f \in Rows
      /\ \A p \in 0 .. n - 1 : f + p \in Rows /\ f + p \in Nat /\ p \in Nat
  BY BlockRows DEF IsBlock
<1>1. IsMask(mask) /\ IsMask(partition_mask) /\ partition_mask \subseteq mask
  BY DEF MasksOK
<1>2. ASSUME NEW p \in 0 .. n - 1
      PROVE  g[p] = PeerEndStep(g, begin, ends, p)
  <2>0. PICK r \in Rows : r = f + p
    BY <1>0
  <2>n. r \in Nat /\ p \in Nat /\ p # -1 /\ r < RowCount
    BY <1>0, <2>0 DEF Rows
  <2>1. /\ g[p] = EndOf(mask, r) /\ begin[p] = BeginOf(mask, r)
        /\ ends[p] = EndOf(partition_mask, r)
    BY <2>0
  <2>2. CASE begin[p] >= g[p - 1]
    <3>1. EndOf(partition_mask, r) \in mask \cup {RowCount} /\ EndOf(partition_mask, r) > r
      BY <1>1, EndProps
    <3>2. PeerEndStep(g, begin, ends, p) =
            FindNextStart(mask, BeginOf(mask, r) + 1, EndOf(partition_mask, r))
      BY <2>1, <2>2, <2>n DEF PeerEndStep
    <3> QED BY <1>1, <2>1, <3>1, <3>2, FindsEnd
  <2>3. CASE ~(begin[p] >= g[p - 1])
    <3>0. begin[p] \in Nat
      BY <1>1, <2>1, BeginProps
    <3>1. p # 0
      <4> SUFFICES ASSUME p = 0 PROVE FALSE
        OBVIOUS
      <4>1. g[p - 1] = begin[p]
        OBVIOUS
      <4> QED BY <2>3, <3>0, <4>1
    <3>2. p - 1 \in 0 .. n - 1 /\ f + (p - 1) = r - 1 /\ r # 0 /\ r - 1 \in Rows
      BY <1>0, <2>0, <3>1 DEF Rows
    <3>3. g[p - 1] = EndOf(mask, r - 1)
      BY <3>2
    <3>4. r \notin mask
      <4> SUFFICES ASSUME r \in mask PROVE FALSE
        OBVIOUS
      <4>1. begin[p] = r
        BY <1>1, <2>1, BoundaryStep
      <4>2. r > r - 1
        BY <2>n
      <4>3. EndOf(mask, r - 1) <= r /\ EndOf(mask, r - 1) \in Nat
        BY <1>1, <3>2, <4>2, EndProps
      <4> QED BY <2>3, <2>n, <3>3, <4>1, <4>3
    <3>5. EndOf(mask, r) = EndOf(mask, r - 1)
      BY <1>1, <3>4, BoundaryStep
    <3>6. PeerEndStep(g, begin, ends, p) = g[p - 1]
      BY <2>3, <2>n DEF PeerEndStep
    <3> QED BY <2>1, <3>3, <3>5, <3>6
  <2> QED BY <2>2, <2>3
<1>3. \A p \in -1 .. n - 1 : p = -1 \/ p \in 0 .. n - 1
  BY <1>0
<1>4. PeerEndStep(g, begin, ends, -1) = begin[0]
  BY DEF PeerEndStep
<1> QED BY <1>2, <1>3, <1>4

\* The vector of peer ends.
LEMMA PeerEndExact ==
    ASSUME MasksOK, NEW f, NEW n, IsBlock(f, n), NEW begin, NEW ends,
           \A p \in 0 .. n - 1 : begin[p] = BeginOf(order_mask, f + p),
           \A p \in 0 .. n - 1 : ends[p] = EndOf(partition_mask, f + p)
    PROVE  PeerEnd(n, begin, ends) = [p \in 0 .. n - 1 |-> EndOf(order_mask, f + p)]
<1> DEFINE D == -1 .. n - 1
           g == [p \in D |-> IF p = -1 THEN begin[0] ELSE EndOf(order_mask, f + p)]
           h == CHOOSE h : IsPeerEndVector(h, n, begin, ends)
<1>0. n \in Nat \ {0} /\ -1 \in D /\ 0 .. n - 1 \subseteq D /\ -1 \notin 0 .. n - 1
  BY DEF IsBlock
<1>1. g[-1] = begin[0] /\ \A p \in 0 .. n - 1 : g[p] = EndOf(order_mask, f + p)
  BY <1>0
<1>2. g = [p \in D |-> g[p]]
  OBVIOUS
<1>3. PeerEnd(n, begin, ends) = [p \in 0 .. n - 1 |-> h[p]]
  BY DEF PeerEnd, IsPeerEndVector, PeerEndStep
<1> HIDE DEF g
<1>4. \A p \in D : g[p] = PeerEndStep(g, begin, ends, p)
  BY <1>1, PeerEndFollows
<1>5. IsPeerEndVector(g, n, begin, ends)
  BY <1>2, <1>4 DEF IsPeerEndVector
<1>6. IsPeerEndVector(h, n, begin, ends)
  BY <1>5
<1> HIDE DEF h
<1>7. \A p \in D : h[p] = PeerEndStep(h, begin, ends, p)
  BY <1>6 DEF IsPeerEndVector
<1>8. h[-1] = g[-1]
  BY <1>0, <1>1, <1>7 DEF PeerEndStep
<1>9. ASSUME NEW p \in 0 .. n - 1, h[p - 1] = g[p - 1] PROVE h[p] = g[p]
  <2>1. PeerEndStep(h, begin, ends, p) = PeerEndStep(g, begin, ends, p)
    BY <1>0, <1>9 DEF PeerEndStep
  <2> QED BY <1>0, <1>4, <1>7, <2>1
<1>10. \A p \in 0 .. n - 1 : h[p] = g[p]
  <2>1. n \in Nat
    BY <1>0
  <2>2. \A p \in D : h[p] = g[p]
    BY <1>8, <1>9, <2>1, VectorInduction
  <2> QED BY <1>0, <2>2
<1> QED BY <1>1, <1>3, <1>10

-----------------------------------------------------------------------------
(***************************************************************************)
(* The inductive invariant.                                                *)
(***************************************************************************)
\* The counters before row r is evaluated.  A row that opens a window
\* partition resets them.
Ready(r) ==
    \/ r \in partition_mask
    \/ /\ r \in order_mask
       /\ rank + rank_equal = Rank(r)
       /\ mode = "dense_rank" => dense_rank + 1 = DenseRank(r)
    \/ /\ r \notin order_mask
       /\ rank = Rank(r)
       /\ rank_equal = r - BeginOf(order_mask, r)
       /\ mode = "dense_rank" => dense_rank = DenseRank(r)

\* The iterator is at a partition of the block, and evaluation has reached all
\* those before.
IteratorOK ==
    /\ next_partition_begin = cend \/
         (next_partition_begin \in partition_begins /\ next_partition_begin > first)
    /\ \A b \in partition_begins :
          b > first => b <= row_idx \/ b >= next_partition_begin

\* What is selected matches, and nothing behind i is missing.
SelectionOK ==
    /\ \A p \in Selected : Rank(first + p) <= predicate_value /\ rdata[p] = Rank(first + p)
    /\ \A p \in Positions : p < i /\ Rank(first + p) <= predicate_value => p \in Selected

\* While the iterator is ahead of the row, no row is selected again.
OnceOK ==
    (early_out => EveryPartitionFails) =>
        /\ \A m \in 1 .. Len(sel) : sel[m] < i
        /\ early_out => next_partition_begin = cend \/ next_partition_begin > row_idx

RanksOK ==
    \A p \in Positions : p < i =>
       /\ mode = "rank" => rdata[p] = Rank(first + p)
       /\ mode = "dense_rank" => rdata[p] = DenseRank(first + p)

RowOK ==
    /\ i < count => Ready(row_idx)
    /\ RanksOK
    /\ mode \in {"filter", "stop"} => SelectionOK
    /\ early_out => IteratorOK
    /\ OnceOK

Inv ==
    /\ TypeOK /\ MasksOK /\ CarriedOK
    /\ pc # "Done" => IsBlock(first, count) /\ ExactBounds(first, count, bounds)
    /\ pc = "Start" => i = 0 /\ sel = << >>
    /\ pc = "Row" => RowOK
    /\ RanksAreExact /\ SelectsExactly /\ SelectsOnce

-----------------------------------------------------------------------------
(***************************************************************************)
(* Ranks, from row to row.                                                 *)
(***************************************************************************)
\* A set of rows is finite.
LEMMA FiniteRows ==
    ASSUME NEW T, T \subseteq Rows
    PROVE  IsFiniteSet(T) /\ Cardinality(T) \in Nat
<1>1. IsFiniteSet(Rows)
  BY BoundariesAssumption, FS_Interval DEF Rows
<1> QED BY <1>1, FS_Subset, FS_CardinalityType

\* A bit more is one more.
LEMMA OneMore ==
    ASSUME NEW T, T \subseteq Rows, NEW r, r \notin T
    PROVE  Cardinality(T \cup {r}) = Cardinality(T) + 1
  BY FiniteRows, FS_AddElement

\* The bits of two intervals.
LEMMA CountUnion ==
    ASSUME IsMask(order_mask), NEW b \in Nat, NEW w \in Nat, NEW e \in Nat,
           b <= w, w <= e
    PROVE  Cardinality(order_mask \cap b .. e - 1) =
             Cardinality(order_mask \cap b .. w - 1)
             + Cardinality(order_mask \cap w .. e - 1)
<1> DEFINE S == order_mask \cap b .. w - 1
           T == order_mask \cap w .. e - 1
<1>1. S \subseteq Rows /\ T \subseteq Rows
  BY DEF IsMask
<1>2. S \cup T = order_mask \cap b .. e - 1
  OBVIOUS
<1>3. S \cap T = {}
  OBVIOUS
<1>4. /\ IsFiniteSet(S) /\ IsFiniteSet(T)
      /\ Cardinality(S) \in Nat /\ Cardinality(T) \in Nat
  BY <1>1, FiniteRows
<1> HIDE DEF S, T
<1>5. Cardinality(S \cup T) = Cardinality(S) + Cardinality(T) - Cardinality(S \cap T)
  BY <1>4, FS_Union
<1>6. Cardinality(S \cap T) = 0
  BY <1>3, FS_EmptySet
<1>7. Cardinality(S \cup T) = Cardinality(S) + Cardinality(T)
  BY <1>4, <1>5, <1>6
<1> QED BY <1>2, <1>7 DEF S, T

\* The ragged word and the whole words are all the bits.
LEMMA DenseBeforeCounts ==
    ASSUME IsMask(order_mask), NEW b \in Nat, NEW e \in Nat, b <= e
    PROVE  DenseBefore(b, e) = Cardinality(order_mask \cap b .. e - 1)
<1> DEFINE q == b \div WordBits
           w == (q + 1) * WordBits
<1>0. WordBits \in Nat \ {0}
  BY BoundariesAssumption
<1>1. /\ q \in Nat /\ b % WordBits \in 0 .. WordBits - 1
      /\ b = WordBits * q + (b % WordBits)
  BY <1>0, DivMod
<1>a. \A x \in Nat, y \in Nat : x + (y - x) - 1 = y - 1
  OBVIOUS
<1>2. CASE q = e \div WordBits \/ b % WordBits = 0
  <2>1. DenseBefore(b, e) = CountValid(b, e - b)
    BY <1>2 DEF DenseBefore
  <2>2. b .. b + (e - b) - 1 = b .. e - 1
    OBVIOUS
  <2> QED BY <2>1, <2>2 DEF CountValid
<1>3. CASE q # e \div WordBits /\ b % WordBits # 0
  <2>1. DenseBefore(b, e) = CountValid(b, w - b) + CountValid(w, e - w)
    BY <1>3 DEF DenseBefore
  <2>2. /\ e \div WordBits \in Nat /\ e % WordBits \in 0 .. WordBits - 1
        /\ e = WordBits * (e \div WordBits) + (e % WordBits)
    BY <1>0, DivMod
  <2> DEFINE z == e \div WordBits
             c == b % WordBits
             d == e % WordBits
  <2>3. w = WordBits * q + WordBits
    <3> HIDE DEF q
    <3> QED BY <1>0, <1>1, SMT
  <2>4. /\ q \in Nat /\ z \in Nat /\ q # z /\ c \in 0 .. WordBits - 1
        /\ d \in 0 .. WordBits - 1 /\ b = WordBits * q + c /\ e = WordBits * z + d
    BY <1>1, <1>3, <2>2
  <2> HIDE DEF q, z, c, d, w
  <2>5. ASSUME z < q PROVE FALSE
    <3>1. WordBits * (z + 1) <= WordBits * q
      BY <1>0, <2>4, <2>5, SMT
    <3>2. WordBits * (z + 1) = WordBits * z + WordBits
      BY <1>0, <2>4, SMT
    <3>3. WordBits * z \in Nat /\ WordBits * q \in Nat
      BY <1>0, <2>4, SMT
    <3> QED BY <1>0, <2>4, <3>1, <3>2, <3>3
  <2>6. q + 1 <= z
    BY <2>4, <2>5
  <2>7. w \in Nat /\ b <= w /\ w <= e
    <3>1. WordBits * (q + 1) <= WordBits * z
      BY <1>0, <2>4, <2>6, SMT
    <3>2. WordBits * (q + 1) = WordBits * q + WordBits
      BY <1>0, <2>4, SMT
    <3>3. WordBits * z \in Nat /\ WordBits * q \in Nat
      BY <1>0, <2>4, SMT
    <3> QED BY <1>0, <2>3, <2>4, <3>1, <3>2, <3>3
  <2>8. b .. b + (w - b) - 1 = b .. w - 1 /\ w .. w + (e - w) - 1 = w .. e - 1
    BY <2>7
  <2>9. Cardinality(order_mask \cap b .. e - 1) =
             Cardinality(order_mask \cap b .. w - 1)
             + Cardinality(order_mask \cap w .. e - 1)
    BY <2>7, CountUnion
  <2> QED BY <2>1, <2>8, <2>9 DEF CountValid
<1> QED BY <1>2, <1>3

\* A row that opens a window partition has rank 1.
LEMMA RankOpens ==
    ASSUME MasksOK, NEW r \in partition_mask
    PROVE  /\ r \in Rows /\ BeginOf(order_mask, r) = r
           /\ Rank(r) = 1 /\ DenseRank(r) = 1
<1>1. /\ IsMask(partition_mask) /\ IsMask(order_mask) /\ r \in order_mask
      /\ r \in Rows /\ r \in Nat /\ \A b \in order_mask : b \in Nat
  BY DEF MasksOK, IsMask, Rows
<1>2. BeginOf(order_mask, r) = r /\ BeginOf(partition_mask, r) = r
  BY <1>1, BoundaryStep
<1>3. {b \in order_mask : r <= b /\ b <= r} = {r}
  <2>1. \A b \in order_mask : r <= b /\ b <= r <=> b = r
    BY <1>1
  <2> QED BY <1>1, <2>1, Zenon
<1>4. DenseRank(r) = 1
  BY <1>2, <1>3, FS_Singleton DEF DenseRank
<1> QED BY <1>1, <1>2, <1>4 DEF Rank

\* The dense rank of a row counts the bits before it, and its own.
LEMMA DenseRankCounts ==
    ASSUME MasksOK, NEW r \in Rows
    PROVE  LET n == Cardinality(order_mask \cap BeginOf(partition_mask, r) .. r - 1)
           IN  /\ n \in Nat
               /\ r \in order_mask => DenseRank(r) = n + 1
               /\ r \notin order_mask => DenseRank(r) = n
<1> DEFINE b == BeginOf(partition_mask, r)
           T == order_mask \cap b .. r - 1
<1>0. IsMask(partition_mask) /\ IsMask(order_mask)
  BY DEF MasksOK
<1>1. r \in Nat /\ b \in Nat /\ b <= r /\ \A c \in order_mask : c \in Nat
  <2>1. r \in Nat /\ \A c \in order_mask : c \in Nat
    BY <1>0 DEF IsMask, Rows
  <2> QED BY <1>0, <2>1, BeginProps
<1>d. DenseRank(r) = Cardinality({c \in order_mask : b <= c /\ c <= r})
  BY DEF DenseRank
<1> HIDE DEF b
<1>2. T \subseteq Rows /\ r \notin T
  BY <1>0, <1>1 DEF IsMask
<1>3. Cardinality(T) \in Nat
  BY <1>2, FiniteRows
<1>4. ASSUME r \in order_mask PROVE DenseRank(r) = Cardinality(T) + 1
  <2>0. \A c \in order_mask : b <= c /\ c <= r <=> c \in b .. r - 1 \/ c = r
    BY <1>1
  <2>1. {c \in order_mask : b <= c /\ c <= r} = T \cup {r}
    BY <1>4, <2>0, Zenon
  <2> HIDE DEF T
  <2> QED BY <1>2, <1>d, <2>1, OneMore
<1>5. ASSUME r \notin order_mask PROVE DenseRank(r) = Cardinality(T)
  <2>1. {c \in order_mask : b <= c /\ c <= r} = T
    BY <1>1, <1>5
  <2> QED BY <1>d, <2>1
<1> QED BY <1>3, <1>4, <1>5 DEF b

\* The ranks of a row that goes on with a window partition.
LEMMA RankStep ==
    ASSUME MasksOK, NEW r \in Rows, r \notin partition_mask
    PROVE  /\ r - 1 \in Rows
           /\ DenseRank(r - 1) \in Nat
           /\ BeginOf(order_mask, r - 1) \in Nat
           /\ BeginOf(partition_mask, r) \in Nat
           /\ BeginOf(partition_mask, r) = BeginOf(partition_mask, r - 1)
           /\ r \in order_mask => /\ BeginOf(order_mask, r) = r
                                  /\ DenseRank(r) = DenseRank(r - 1) + 1
           /\ r \notin order_mask =>
                /\ BeginOf(order_mask, r) = BeginOf(order_mask, r - 1)
                /\ Rank(r) = Rank(r - 1)
                /\ DenseRank(r) = DenseRank(r - 1)
<1> DEFINE b == BeginOf(partition_mask, r)
           T == {c \in order_mask : b <= c /\ c <= r - 1}
<1>0. IsMask(partition_mask) /\ IsMask(order_mask)
  BY DEF MasksOK
<1>1. r - 1 \in Rows /\ b = BeginOf(partition_mask, r - 1)
  BY <1>0, BoundaryStep
<1>2. b \in Nat /\ b <= r - 1 /\ BeginOf(order_mask, r - 1) \in Nat
  BY <1>0, <1>1, BeginProps
<1>3. r \in Nat /\ \A c \in order_mask : c \in Nat
  BY <1>0 DEF IsMask, Rows
<1>d. /\ DenseRank(r) = Cardinality({c \in order_mask : b <= c /\ c <= r})
      /\ DenseRank(r - 1) = Cardinality(T)
  BY <1>1 DEF DenseRank
<1>r. Rank(r) = BeginOf(order_mask, r) - b + 1 /\ Rank(r - 1) = BeginOf(order_mask, r - 1) - b + 1
  BY <1>1 DEF Rank
<1> HIDE DEF b
<1>4. T \subseteq Rows /\ r \notin T
  <2>1. ~(r <= r - 1)
    BY <1>3
  <2> QED BY <1>0, <2>1 DEF IsMask
<1>5. Cardinality(T) \in Nat
  BY <1>4, FiniteRows
<1>6. ASSUME r \in order_mask
      PROVE  BeginOf(order_mask, r) = r /\ DenseRank(r) = DenseRank(r - 1) + 1
  <2>0. \A c \in order_mask : b <= c /\ c <= r <=> (b <= c /\ c <= r - 1) \/ c = r
    BY <1>2, <1>3
  <2>1. {c \in order_mask : b <= c /\ c <= r} = T \cup {r}
    BY <1>6, <2>0, Zenon
  <2>2. BeginOf(order_mask, r) = r
    BY <1>0, <1>6, BoundaryStep
  <2> HIDE DEF T
  <2> QED BY <1>4, <1>d, <2>1, <2>2, OneMore
<1>7. ASSUME r \notin order_mask
      PROVE  /\ BeginOf(order_mask, r) = BeginOf(order_mask, r - 1)
             /\ Rank(r) = Rank(r - 1)
             /\ DenseRank(r) = DenseRank(r - 1)
  <2>1. {c \in order_mask : b <= c /\ c <= r} = T
    BY <1>2, <1>3, <1>7
  <2>2. BeginOf(order_mask, r) = BeginOf(order_mask, r - 1)
    BY <1>0, <1>7, BoundaryStep
  <2> QED BY <1>d, <1>r, <2>1, <2>2
<1> QED BY <1>1, <1>2, <1>5, <1>6, <1>7, <1>d DEF b

\* Within a window partition ranks do not fall.
LEMMA RankGrows ==
    ASSUME MasksOK, NEW r \in Rows, NEW s \in Rows, r <= s,
           BeginOf(partition_mask, r) = BeginOf(partition_mask, s)
    PROVE  Rank(r) <= Rank(s) /\ Rank(r) \in Int /\ Rank(s) \in Int
<1>0. IsMask(partition_mask) /\ IsMask(order_mask) /\ r \in Nat /\ s \in Nat
  BY DEF MasksOK, Rows
<1>1. /\ BeginOf(order_mask, r) \in Nat /\ BeginOf(order_mask, r) \in order_mask
      /\ BeginOf(order_mask, r) <= r
  BY <1>0, BeginProps
<1>2. /\ BeginOf(order_mask, s) \in Nat
      /\ \A c \in order_mask : c <= s => c <= BeginOf(order_mask, s)
  BY <1>0, BeginProps
<1>3. BeginOf(partition_mask, s) \in Nat
  BY <1>0, BeginProps
<1>4. BeginOf(order_mask, r) <= BeginOf(order_mask, s)
  BY <1>0, <1>1, <1>2
<1> QED BY <1>1, <1>2, <1>3, <1>4 DEF Rank

\* Ranks are numbers.
LEMMA RankType ==
    ASSUME MasksOK, NEW r \in Rows
    PROVE  Rank(r) \in Int
<1>1. IsMask(partition_mask) /\ IsMask(order_mask)
  BY DEF MasksOK
<1>2. BeginOf(order_mask, r) \in Nat /\ BeginOf(partition_mask, r) \in Nat
  BY <1>1, BeginProps
<1> QED BY <1>2 DEF Rank

\* Rows between which no window partition begins are of the same.
LEMMA SamePartition ==
    ASSUME MasksOK, NEW r \in Rows, NEW s \in Rows, r <= s,
           \A b \in partition_mask : ~(r < b /\ b <= s)
    PROVE  BeginOf(partition_mask, r) = BeginOf(partition_mask, s)
<1>0. /\ IsMask(partition_mask) /\ r \in Nat /\ s \in Nat
      /\ \A b \in partition_mask : b \in Nat
  BY DEF MasksOK, IsMask, Rows
<1> DEFINE c == BeginOf(partition_mask, s)
<1>1. /\ c \in partition_mask /\ c \in Nat /\ c <= s
      /\ \A b \in partition_mask : b <= s => b <= c
  BY <1>0, BeginProps
<1> HIDE DEF c
<1>2. c <= r
  BY <1>0, <1>1
<1>3. \A b \in partition_mask : b <= r => b <= c
  BY <1>0, <1>1
<1>4. BeginOf(partition_mask, r) = c
  BY <1>0, <1>1, <1>2, <1>3, BeginUnique
<1> QED BY <1>4 DEF c

-----------------------------------------------------------------------------
(***************************************************************************)
(* The steps.                                                              *)
(***************************************************************************)
\* The masks of a group do not change, and with them what they define.
LEMMA SameMasks ==
    ASSUME UNCHANGED mask_vars, MasksOK
    PROVE  /\ MasksOK' /\ partition_mask' = partition_mask /\ order_mask' = order_mask
           /\ partition_count' = partition_count
           /\ \A r : Rank(r)' = Rank(r) /\ DenseRank(r)' = DenseRank(r)
<1>1. partition_mask' = partition_mask /\ order_mask' = order_mask
      /\ partition_count' = partition_count
  BY DEF mask_vars
<1> QED BY <1>1 DEF MasksOK, Rank, DenseRank

\* The invariant holds before the first block.
LEMMA InitInv == Init => Inv
<1> SUFFICES ASSUME Init PROVE Inv
  OBVIOUS
<1>0. RowCount \in Nat \ {0}
  BY BoundariesAssumption
<1>i. /\ partition_mask \in SUBSET Rows /\ 0 \in partition_mask
      /\ order_mask \in SUBSET Rows /\ partition_mask \subseteq order_mask
      /\ partition_count = 0 => partition_mask = {0}
      /\ next_pos = 0
  BY DEF Init, BoundariesInit
<1>j. /\ mode \in Modes /\ first = 0 /\ count = 0 /\ i = 0
      /\ rank = 1 /\ rank_equal = 0 /\ dense_rank = 1
      /\ next_partition_begin = RowCount /\ rdata = << >> /\ sel = << >> /\ pc = "Done"
  BY DEF Init, cend
<1>1. MasksOK /\ CarriedOK
  BY <1>i DEF MasksOK, CarriedOK, IsMask
<1>2. Positions = {}
  BY <1>j DEF Positions
<1>3. rdata \in [Positions -> Int] /\ sel \in Seq(Positions) /\ Len(sel) = 0
  BY <1>2, <1>j
<1>4. TypeOK
  BY <1>0, <1>3, <1>i, <1>j DEF TypeOK
<1>5. Selected = {}
  BY <1>3 DEF Selected
<1>6. RanksAreExact /\ SelectsExactly /\ SelectsOnce
  BY <1>2, <1>3, <1>5 DEF RanksAreExact, SelectsExactly, SelectsOnce
<1> QED BY <1>1, <1>4, <1>6, <1>j DEF Inv

\* The boundaries of the next block are found from the last ones, or anew.
LEMMA EvaluateKeeps ==
    ASSUME Inv, NEW f \in Rows, NEW n \in 1 .. RowCount, Evaluate(f, n)
    PROVE  Inv'
<1>0. RowCount \in Nat \ {0} /\ f \in Nat /\ n \in Nat \ {0} /\ f < RowCount
  BY BoundariesAssumption DEF Rows
<1>e. /\ f + n <= RowCount /\ Bounds(f, n)
      /\ first' = f /\ count' = n /\ i' = 0 /\ sel' = << >> /\ pc' = "Start"
      /\ rdata' = [p \in 0 .. n - 1 |-> 0]
      /\ mode' = mode /\ UNCHANGED rank_vars
      /\ next_partition_begin' = next_partition_begin
  BY DEF Evaluate
<1>b. IsBlock(f, n)
  BY <1>0, <1>e DEF IsBlock
<1>m. MasksOK /\ CarriedOK
  BY DEF Inv
<1> DEFINE begin == PartitionBegin(f, n, IsJump(f))
           end == PartitionEnd(f, n, IsJump(f), begin)
           peers == PeerBegin(f, n, IsJump(f))
           ends == PeerEnd(n, peers, end)
<1>u. /\ bounds' = [partition_begin |-> begin, partition_end |-> end,
                    peer_begin |-> peers, peer_end |-> ends]
      /\ partition_start' = begin[n - 1] /\ partition_end' = end[n - 1]
      /\ peer_start' = peers[n - 1] /\ next_pos' = f + n
      /\ UNCHANGED mask_vars
  BY <1>e DEF Bounds
<1>1. begin = [p \in 0 .. n - 1 |-> BeginOf(partition_mask, f + p)]
  BY <1>b, <1>m, PartitionBeginExact
<1>2. end = [p \in 0 .. n - 1 |-> EndOf(partition_mask, f + p)]
  <2> HIDE DEF begin
  <2>1. \A p \in 0 .. n - 1 : begin[p] = BeginOf(partition_mask, f + p)
    BY <1>1
  <2> QED BY <1>b, <1>m, <2>1, PartitionEndExact
<1>3. peers = [p \in 0 .. n - 1 |-> BeginOf(order_mask, f + p)]
  BY <1>b, <1>m, PeerBeginExact
<1> HIDE DEF begin, end, peers
<1>4. ends = [p \in 0 .. n - 1 |-> EndOf(order_mask, f + p)]
  <2>1. \A p \in 0 .. n - 1 : end[p] = EndOf(partition_mask, f + p) /\ peers[p] = BeginOf(order_mask, f + p)
    BY <1>2, <1>3
  <2> QED BY <1>b, <1>m, <2>1, PeerEndExact
<1> HIDE DEF ends
<1>5. MasksOK' /\ partition_mask' = partition_mask /\ order_mask' = order_mask
  BY <1>m, <1>u, SameMasks
<1>6. IsBlock(first, count)' /\ ExactBounds(first, count, bounds)'
  BY <1>1, <1>2, <1>3, <1>4, <1>5, <1>b, <1>e, <1>u DEF ExactBounds, IsBlock
<1>7. CarriedOK'
  <2>1. n - 1 \in 0 .. n - 1 /\ f + (n - 1) = (f + n) - 1
    BY <1>0
  <2> QED BY <1>1, <1>2, <1>3, <1>5, <1>u, <2>1 DEF CarriedOK
<1>8. TypeOK'
  <2>1. /\ partition_mask \subseteq order_mask /\ order_mask \subseteq Rows /\ mode \in Modes
        /\ {rank, rank_equal, dense_rank} \subseteq Int
        /\ next_partition_begin \in 0 .. RowCount
    BY DEF Inv, TypeOK
  <2>2. /\ first' \in 0 .. RowCount /\ count' \in 0 .. RowCount
        /\ first' + count' <= RowCount /\ next_pos' \in 0 .. RowCount /\ i' \in 0 .. count'
    BY <1>0, <1>e, <1>u
  <2>3. Positions' = 0 .. n - 1
    BY <1>e DEF Positions
  <2>4. rdata' \in [Positions' -> Int] /\ sel' \in Seq(Positions')
    BY <1>e, <2>3
  <2>5. {rank, rank_equal, dense_rank}' \subseteq Int
    BY <1>e, <2>1 DEF rank_vars
  <2> QED BY <1>5, <1>e, <2>1, <2>2, <2>4, <2>5 DEF TypeOK
<1>9. SelectsOnce'
  <2>1. Len(sel') = 0
    BY <1>e
  <2> QED BY <2>1 DEF SelectsOnce
<1> QED BY <1>5, <1>6, <1>7, <1>8, <1>9, <1>e DEF Inv, RanksAreExact, SelectsExactly

\* The iterator's next partition.
LEMMA FirstAfterProps ==
    ASSUME MasksOK, NEW r \in Nat, r < RowCount
    PROVE  LET b == FirstAfter(r)
           IN  /\ b \in Nat /\ b > r /\ b <= RowCount
               /\ b = RowCount \/ b \in partition_begins
               /\ \A c \in partition_begins : c > r => c >= b
<1> DEFINE T == {b \in partition_begins : b > r} \cup {RowCount}
<1>0. RowCount \in Nat
  BY BoundariesAssumption
<1>1. \A b \in partition_begins : b \in Nat /\ b < RowCount
  BY <1>0 DEF partition_begins, MasksOK, IsMask, Rows
<1>2. T \subseteq Nat /\ RowCount \in T
  BY <1>0, <1>1
<1>3. \A m \in T : m > r /\ m <= RowCount
  BY <1>0, <1>1
<1> HIDE DEF T
<1>4. Min(T) \in T /\ \A m \in T : Min(T) <= m
  BY <1>2, MinProps
<1>5. FirstAfter(r) = Min(T)
  BY DEF FirstAfter, T, cend
<1>6. \A m \in T : m = RowCount \/ m \in partition_begins
  BY DEF T
<1>7. \A c \in partition_begins : c > r => Min(T) <= c
  BY <1>4 DEF T
<1>8. Min(T) \in Nat
  BY <1>2, <1>4
<1>9. \A c \in partition_begins : c > r => c >= Min(T)
  BY <1>1, <1>7, <1>8
<1> QED BY <1>3, <1>4, <1>5, <1>6, <1>8, <1>9

\* What only depends on the group, the block and its boundaries.
LEMMA SameInput ==
    ASSUME Inv, UNCHANGED input_vars
    PROVE  /\ MasksOK' /\ CarriedOK'
           /\ partition_mask' = partition_mask /\ order_mask' = order_mask
           /\ \A r : Rank(r)' = Rank(r) /\ DenseRank(r)' = DenseRank(r)
           /\ mode' = mode /\ first' = first /\ count' = count
           /\ next_pos' = next_pos
           /\ Positions' = Positions /\ partition_begins' = partition_begins
           /\ EveryPartitionFails' = EveryPartitionFails
           /\ early_out' = early_out
           /\ IsBlock(first, count)' = IsBlock(first, count)
           /\ ExactBounds(first, count, bounds)' = ExactBounds(first, count, bounds)
<1>1. /\ UNCHANGED mask_vars /\ mode' = mode /\ first' = first /\ count' = count
      /\ next_pos' = next_pos /\ partition_start' = partition_start
      /\ partition_end' = partition_end /\ peer_start' = peer_start /\ bounds' = bounds
  BY DEF input_vars, boundary_vars
<1>2. MasksOK /\ CarriedOK
  BY DEF Inv
<1>3. /\ MasksOK' /\ partition_mask' = partition_mask /\ order_mask' = order_mask
      /\ \A r : Rank(r)' = Rank(r) /\ DenseRank(r)' = DenseRank(r)
  BY <1>1, <1>2, SameMasks
<1>4. CarriedOK'
  BY <1>1, <1>2, <1>3 DEF CarriedOK
<1>5. /\ Positions' = Positions /\ partition_begins' = partition_begins
      /\ early_out' = early_out /\ IsBlock(first, count)' = IsBlock(first, count)
      /\ ExactBounds(first, count, bounds)' = ExactBounds(first, count, bounds)
  BY <1>1, <1>3 DEF Positions, partition_begins, early_out, IsBlock, ExactBounds
<1>6. EveryPartitionFails' = EveryPartitionFails
  BY <1>1, <1>3, <1>5 DEF EveryPartitionFails
<1> QED BY <1>1, <1>3, <1>4, <1>5, <1>6

\* The types of a block under evaluation.
LEMMA BlockTypes ==
    ASSUME Inv, pc # "Done"
    PROVE  /\ RowCount \in Nat /\ first \in Nat /\ count \in Nat \ {0} /\ i \in Nat
           /\ i <= count /\ first + count <= RowCount /\ first < RowCount
           /\ \A p \in Positions : p \in Nat /\ p < count /\ first + p \in Rows
           /\ i < count => i \in Positions /\ row_idx \in Rows
           /\ row_idx \in Nat
           /\ \A b \in partition_begins : /\ b \in Nat /\ b < RowCount
                                          /\ b \in partition_mask
                                          /\ b - first \in Positions
<1>1. /\ RowCount \in Nat \ {0} /\ first \in 0 .. RowCount /\ count \in 0 .. RowCount
      /\ first + count <= RowCount /\ i \in 0 .. count
  BY BoundariesAssumption DEF Inv, TypeOK
<1>2. IsBlock(first, count)
  BY DEF Inv
<1>3. first < RowCount /\ count # 0
  BY <1>1, <1>2 DEF IsBlock, Rows
<1>4. \A p \in Positions : p \in Nat /\ p < count /\ first + p \in Rows
  BY <1>1 DEF Positions, Rows
<1>5. i < count => i \in Positions /\ row_idx \in Rows
  BY <1>1 DEF Positions, Rows, row_idx
<1>6. row_idx \in Nat
  BY <1>1 DEF row_idx
<1>7. \A b \in partition_begins : b \in partition_mask /\ b \in first .. first + count - 1
  BY DEF partition_begins
<1>8. \A b \in first .. first + count - 1 : b \in Nat /\ b < RowCount /\ b - first \in Positions
  BY <1>1 DEF Positions
<1> QED BY <1>1, <1>3, <1>4, <1>5, <1>6, <1>7, <1>8

\* The counters are reset to the row before the block.
LEMMA StartReady ==
    ASSUME Inv, Start
    PROVE  /\ rank' \in Int /\ rank_equal' \in Int /\ dense_rank' \in Int
           /\ Ready(first)'
<1>0. /\ pc = "Start" /\ UNCHANGED input_vars
      /\ rank' = bounds.peer_begin[0] - bounds.partition_begin[0] + 1
      /\ rank_equal' = first - bounds.peer_begin[0]
      /\ dense_rank' = IF mode = "dense_rank"
                       THEN DenseBefore(bounds.partition_begin[0], first)
                       ELSE dense_rank
  BY DEF Start, StartAt
<1>1. MasksOK /\ IsMask(partition_mask) /\ IsMask(order_mask) /\ dense_rank \in Int
  BY DEF Inv, MasksOK, TypeOK
<1>2. first \in Nat /\ first \in Rows /\ 0 \in 0 .. count - 1 /\ first + 0 = first
  BY <1>0, BlockTypes, BoundariesAssumption DEF Rows
<1>3. /\ bounds.partition_begin[0] = BeginOf(partition_mask, first)
      /\ bounds.peer_begin[0] = BeginOf(order_mask, first)
  BY <1>0, <1>2 DEF Inv, ExactBounds
<1> DEFINE b == BeginOf(partition_mask, first)
           o == BeginOf(order_mask, first)
<1>4. b \in Nat /\ b <= first /\ o \in Nat
  BY <1>1, <1>2, BeginProps
<1>5. rank' = o - b + 1 /\ rank_equal' = first - o /\ Rank(first) = o - b + 1
  BY <1>0, <1>3 DEF Rank
<1>6. DenseBefore(b, first) = Cardinality(order_mask \cap b .. first - 1)
  BY <1>1, <1>2, <1>4, DenseBeforeCounts
<1>7. /\ DenseBefore(b, first) \in Nat
      /\ first \in order_mask => DenseRank(first) = DenseBefore(b, first) + 1
      /\ first \notin order_mask => DenseRank(first) = DenseBefore(b, first)
  BY <1>1, <1>2, <1>6, DenseRankCounts
<1>8. dense_rank' = IF mode = "dense_rank" THEN DenseBefore(b, first) ELSE dense_rank
  BY <1>0, <1>3
<1>9. first \in order_mask => o = first
  BY <1>1, <1>2, BoundaryStep
<1>10. /\ mode' = mode /\ partition_mask' = partition_mask /\ order_mask' = order_mask
       /\ first' = first
       /\ \A r : Rank(r)' = Rank(r) /\ DenseRank(r)' = DenseRank(r)
  BY <1>0, SameInput
<1>11. /\ Rank(first)' = Rank(first) /\ DenseRank(first)' = DenseRank(first)
       /\ BeginOf(order_mask, first)' = o
  BY <1>10 DEF Rank, DenseRank
<1> HIDE DEF b, o
<1>12. rank' \in Int /\ rank_equal' \in Int /\ dense_rank' \in Int
  BY <1>1, <1>2, <1>4, <1>5, <1>7, <1>8
<1>13. first \in order_mask => rank' + rank_equal' = Rank(first)
  BY <1>2, <1>4, <1>5, <1>9
<1>14. Ready(first)'
  <2>1. CASE first \in order_mask
    <3>1. mode = "dense_rank" => dense_rank' + 1 = DenseRank(first)
      BY <1>7, <1>8, <2>1
    <3> QED BY <1>10, <1>11, <1>13, <2>1, <3>1 DEF Ready
  <2>2. CASE first \notin order_mask
    <3>1. mode = "dense_rank" => dense_rank' = DenseRank(first)
      BY <1>7, <1>8, <2>2
    <3> QED BY <1>5, <1>10, <1>11, <2>2, <3>1 DEF Ready
  <2> QED BY <2>1, <2>2
<1> QED BY <1>12, <1>14

\* Starting a block keeps the invariant.
LEMMA StartKeeps ==
    ASSUME Inv, Start
    PROVE  Inv'
<1>0. /\ pc = "Start" /\ pc' = "Row" /\ UNCHANGED input_vars
      /\ i' = i /\ rdata' = rdata /\ sel' = sel
      /\ next_partition_begin' = IF early_out THEN FirstAfter(first) ELSE RowCount
  BY DEF Start, StartAt, cend
<1>1. i = 0 /\ sel = << >> /\ MasksOK /\ TypeOK
  BY <1>0 DEF Inv
<1>2. /\ RowCount \in Nat /\ first \in Nat /\ count \in Nat \ {0} /\ first < RowCount
      /\ \A p \in Positions : p \in Nat
  BY <1>0, BlockTypes
<1>3. /\ MasksOK' /\ CarriedOK' /\ mode' = mode /\ first' = first /\ count' = count
      /\ partition_mask' = partition_mask /\ order_mask' = order_mask
      /\ next_pos' = next_pos
      /\ Positions' = Positions /\ partition_begins' = partition_begins
      /\ early_out' = early_out
      /\ IsBlock(first, count)' = IsBlock(first, count)
      /\ ExactBounds(first, count, bounds)' = ExactBounds(first, count, bounds)
  BY <1>0, SameInput
<1>4. LET b == FirstAfter(first)
      IN  /\ b \in Nat /\ b > first /\ b <= RowCount
          /\ b = RowCount \/ b \in partition_begins
          /\ \A c \in partition_begins : c > first => c >= b
  BY <1>1, <1>2, FirstAfterProps
<1>5. next_partition_begin' \in 0 .. RowCount
  BY <1>0, <1>2, <1>4
<1>6. row_idx' = first
  BY <1>0, <1>1, <1>2, <1>3 DEF row_idx
<1>7. TypeOK'
  <2>1. /\ partition_mask \subseteq order_mask /\ order_mask \subseteq Rows
        /\ next_pos \in 0 .. RowCount /\ mode \in Modes
        /\ first \in 0 .. RowCount /\ count \in 0 .. RowCount
        /\ first + count <= RowCount /\ i \in 0 .. count
        /\ rdata \in [Positions -> Int] /\ sel \in Seq(Positions)
    BY <1>1 DEF TypeOK
  <2>2. rank' \in Int /\ rank_equal' \in Int /\ dense_rank' \in Int
    BY StartReady
  <2>3. {rank, rank_equal, dense_rank}' \subseteq Int
    BY <2>2
  <2> QED BY <1>0, <1>3, <1>5, <2>1, <2>3 DEF TypeOK
<1>8. RowOK'
  <2>1. (i < count => Ready(row_idx))'
    <3>1. Ready(row_idx)'
      <4>1. Ready(first)'
        BY StartReady
      <4> QED BY <1>3, <1>6, <4>1 DEF Ready, Rank, DenseRank
    <3> QED BY <3>1
  <2>2. RanksOK'
    BY <1>0, <1>1, <1>2, <1>3 DEF RanksOK
  <2>3. SelectionOK'
    <3>1. Selected' = {}
      BY <1>0, <1>1 DEF Selected
    <3> QED BY <1>0, <1>1, <1>2, <1>3, <3>1 DEF SelectionOK
  <2>4. (early_out => IteratorOK)'
    BY <1>0, <1>3, <1>4, <1>6 DEF IteratorOK, cend
  <2>5. OnceOK'
    <3>1. Len(sel') = 0
      BY <1>0, <1>1
    <3> QED BY <1>0, <1>3, <1>4, <1>6, <3>1 DEF OnceOK, cend
  <2> QED BY <2>1, <2>2, <2>3, <2>4, <2>5 DEF RowOK
<1>9. SelectsOnce'
  <2>1. Len(sel') = 0
    BY <1>0, <1>1
  <2> QED BY <2>1 DEF SelectsOnce
<1> QED BY <1>0, <1>3, <1>7, <1>8, <1>9 DEF Inv, RanksAreExact, SelectsExactly

\* NextRank gives the row its rank, and counts it among its peers.
LEMMA RowRank ==
    ASSUME Inv, EvaluateRow
    PROVE  /\ rank' = Rank(row_idx) /\ rank' \in Int
           /\ rank_equal' = (row_idx + 1) - BeginOf(order_mask, row_idx)
           /\ rank_equal' \in Int
           /\ mode = "dense_rank" => dense_rank' = DenseRank(row_idx)
           /\ dense_rank' \in Int
<1>0. pc = "Row" /\ i < count /\ NextRank
  BY DEF EvaluateRow
<1>1. MasksOK /\ IsMask(partition_mask) /\ IsMask(order_mask) /\ Ready(row_idx)
  BY <1>0 DEF Inv, MasksOK, RowOK
<1>2. rank \in Int /\ rank_equal \in Int /\ dense_rank \in Int
  BY DEF Inv, TypeOK
<1>3. PICK r \in Rows : r = row_idx
  BY <1>0, BlockTypes
<1>4. r \in Nat /\ i \in 0 .. count - 1
  BY <1>0, BlockTypes DEF Rows, Positions
<1>5. /\ bounds.partition_begin[i] = BeginOf(partition_mask, r)
      /\ bounds.peer_begin[i] = BeginOf(order_mask, r)
  BY <1>0, <1>3, <1>4 DEF Inv, ExactBounds, row_idx
<1> DEFINE b == BeginOf(partition_mask, r)
           o == BeginOf(order_mask, r)
<1>6. b \in Nat /\ b \in partition_mask /\ o \in Nat /\ o \in order_mask
  BY <1>1, BeginProps
<1>7. /\ r \in partition_mask => b = r
      /\ r \in order_mask => o = r
  BY <1>1, BoundaryStep
<1>8. r \in partition_mask => o = r /\ Rank(r) = 1 /\ DenseRank(r) = 1
  BY <1>1, RankOpens
<1>9. Rank(r) = o - b + 1
  BY DEF Rank
<1>n. IF b = r
      THEN rank' = 1 /\ rank_equal' = 1 /\ dense_rank' = 1
      ELSE IF o = r
      THEN rank' = rank + rank_equal /\ rank_equal' = 1 /\ dense_rank' = dense_rank + 1
      ELSE rank_equal' = rank_equal + 1 /\ rank' = rank /\ dense_rank' = dense_rank
  BY <1>0, <1>3, <1>5 DEF NextRank
<1>y. Ready(r)
  BY <1>1, <1>3
<1> HIDE DEF b, o
<1>10. CASE r \in partition_mask
  BY <1>10, <1>3, <1>4, <1>7, <1>8, <1>n DEF o
<1>11. CASE r \notin partition_mask /\ r \in order_mask
  <2>1. b # r /\ o = r
    BY <1>6, <1>7, <1>11
  <2>2. rank + rank_equal = Rank(r) /\ (mode = "dense_rank" => dense_rank + 1 = DenseRank(r))
    BY <1>11, <1>y DEF Ready
  <2> QED BY <1>2, <1>3, <1>4, <1>n, <2>1, <2>2 DEF o
<1>12. CASE r \notin partition_mask /\ r \notin order_mask
  <2>1. b # r /\ o # r
    BY <1>6, <1>12
  <2>2. /\ rank = Rank(r) /\ rank_equal = r - o
        /\ mode = "dense_rank" => dense_rank = DenseRank(r)
    BY <1>12, <1>y DEF Ready, o
  <2> QED BY <1>2, <1>3, <1>4, <1>6, <1>n, <2>1, <2>2 DEF o
<1>13. partition_mask \subseteq order_mask
  BY <1>1 DEF MasksOK
<1> QED BY <1>10, <1>11, <1>12

\* Then the counters are ready for the next row.
LEMMA RowReady ==
    ASSUME Inv, EvaluateRow, UNCHANGED input_vars, row_idx + 1 \in Rows
    PROVE  \A r : r = row_idx + 1 =>
             \/ r \in partition_mask
             \/ /\ r \in order_mask
                /\ rank' + rank_equal' = Rank(r)
                /\ mode = "dense_rank" => dense_rank' + 1 = DenseRank(r)
             \/ /\ r \notin order_mask
                /\ rank' = Rank(r)
                /\ rank_equal' = r - BeginOf(order_mask, r)
                /\ mode = "dense_rank" => dense_rank' = DenseRank(r)
<1> TAKE r
<1> HAVE r = row_idx + 1
<1>0. /\ MasksOK /\ r \in Rows /\ row_idx \in Nat /\ r \in Nat
  BY BlockTypes DEF Inv, EvaluateRow, Rows
<1>1. PICK q : q = row_idx
  OBVIOUS
<1>2. r = q + 1 /\ r - 1 = q /\ q \in Nat
  BY <1>0, <1>1
<1>3. /\ rank' = Rank(q) /\ rank' \in Int
      /\ rank_equal' = (q + 1) - BeginOf(order_mask, q)
      /\ mode = "dense_rank" => dense_rank' = DenseRank(q)
      /\ dense_rank' \in Int
  BY <1>1, RowRank
<1> SUFFICES ASSUME r \notin partition_mask
             PROVE  \/ /\ r \in order_mask
                       /\ rank' + rank_equal' = Rank(r)
                       /\ mode = "dense_rank" => dense_rank' + 1 = DenseRank(r)
                    \/ /\ r \notin order_mask
                       /\ rank' = Rank(r)
                       /\ rank_equal' = r - BeginOf(order_mask, r)
                       /\ mode = "dense_rank" => dense_rank' = DenseRank(r)
  OBVIOUS
<1> DEFINE b == BeginOf(partition_mask, q)
           o == BeginOf(order_mask, q)
<1>4. /\ DenseRank(q) \in Nat /\ o \in Nat /\ b \in Nat /\ BeginOf(partition_mask, r) = b
      /\ r \in order_mask => /\ BeginOf(order_mask, r) = r
                             /\ DenseRank(r) = DenseRank(q) + 1
      /\ r \notin order_mask =>
           /\ BeginOf(order_mask, r) = o
           /\ Rank(r) = Rank(q)
           /\ DenseRank(r) = DenseRank(q)
  <2>1. PICK s \in Rows : s = r
    BY <1>0
  <2>2. s \notin partition_mask /\ s - 1 = q
    BY <1>2, <2>1
  <2>3. /\ DenseRank(s - 1) \in Nat /\ BeginOf(order_mask, s - 1) \in Nat
        /\ BeginOf(partition_mask, s) \in Nat
        /\ BeginOf(partition_mask, s) = BeginOf(partition_mask, s - 1)
        /\ s \in order_mask => /\ BeginOf(order_mask, s) = s
                               /\ DenseRank(s) = DenseRank(s - 1) + 1
        /\ s \notin order_mask =>
             /\ BeginOf(order_mask, s) = BeginOf(order_mask, s - 1)
             /\ Rank(s) = Rank(s - 1)
             /\ DenseRank(s) = DenseRank(s - 1)
    BY <1>0, <2>2, RankStep
  <2> QED BY <2>1, <2>2, <2>3
<1>5. Rank(q) = o - b + 1 /\ Rank(r) = BeginOf(order_mask, r) - b + 1
  BY <1>4 DEF Rank
<1> HIDE DEF b, o
<1>6. rank_equal' = (q + 1) - o
  BY <1>3 DEF o
<1>7. CASE r \in order_mask
  <2>1. Rank(r) = r - b + 1
    BY <1>4, <1>5, <1>7
  <2>2. rank' + rank_equal' = Rank(r)
    BY <1>2, <1>3, <1>4, <1>5, <1>6, <2>1
  <2>3. mode = "dense_rank" => dense_rank' + 1 = DenseRank(r)
    BY <1>3, <1>4, <1>7
  <2> QED BY <1>7, <2>2, <2>3
<1>8. CASE r \notin order_mask
  BY <1>2, <1>3, <1>4, <1>6, <1>8
<1> QED BY <1>7, <1>8

\* What evaluating a row changes and keeps, whatever the predicate says of it.
LEMMA RowSteps ==
    ASSUME Inv, EvaluateRow, UNCHANGED input_vars
    PROVE  /\ pc = "Row" /\ i \in Positions /\ i \in Nat /\ row_idx \in Rows
           /\ {rank, rank_equal, dense_rank}' \subseteq Int
           /\ rdata' \in [Positions -> Int]
           /\ mode # "dense_rank" => rdata'[i] = Rank(row_idx)
           /\ mode = "dense_rank" => rdata'[i] = DenseRank(row_idx)
           /\ \A p \in Positions : p # i => rdata'[p] = rdata[p]
           /\ i' = i + 1 => (i < count => Ready(row_idx))'
           /\ i' = i + 1 => i' \in Nat /\ i' <= count /\ row_idx' = row_idx + 1
<1>0. pc = "Row" /\ i < count
  BY DEF EvaluateRow
<1>1. /\ i \in Positions /\ i \in Nat /\ row_idx \in Rows /\ row_idx \in Nat
      /\ count \in Nat /\ first \in Nat /\ RowCount \in Nat /\ first + count <= RowCount
  BY <1>0, BlockTypes
<1>2. /\ rank' = Rank(row_idx) /\ rank' \in Int /\ rank_equal' \in Int
      /\ mode = "dense_rank" => dense_rank' = DenseRank(row_idx)
      /\ dense_rank' \in Int
  BY RowRank
<1>3. rdata \in [Positions -> Int]
  BY DEF Inv, TypeOK
<1>4. rdata' = [rdata EXCEPT ![i] = IF mode = "dense_rank" THEN dense_rank' ELSE rank']
  BY DEF EvaluateRow
<1>5. /\ rdata' \in [Positions -> Int]
      /\ mode # "dense_rank" => rdata'[i] = Rank(row_idx)
      /\ mode = "dense_rank" => rdata'[i] = DenseRank(row_idx)
      /\ \A p \in Positions : p # i => rdata'[p] = rdata[p]
  BY <1>1, <1>2, <1>3, <1>4
<1>6. {rank, rank_equal, dense_rank}' \subseteq Int
  BY <1>2
<1>7. /\ partition_mask' = partition_mask /\ order_mask' = order_mask
      /\ \A r : Rank(r)' = Rank(r) /\ DenseRank(r)' = DenseRank(r)
      /\ mode' = mode /\ first' = first /\ count' = count
  BY SameInput
<1>8. i' = i + 1 => i' \in Nat /\ i' <= count /\ row_idx' = row_idx + 1
  BY <1>0, <1>1, <1>7 DEF row_idx
<1>9. ASSUME i' = i + 1, i' < count' PROVE Ready(row_idx)'
  <2>1. row_idx + 1 \in Rows
    BY <1>0, <1>1, <1>7, <1>9 DEF row_idx, Rows
  <2>2. PICK r : r = row_idx + 1
    OBVIOUS
  <2>3. row_idx' = r
    BY <1>8, <1>9, <2>2
  <2>4. \/ r \in partition_mask
        \/ /\ r \in order_mask
           /\ rank' + rank_equal' = Rank(r)
           /\ mode = "dense_rank" => dense_rank' + 1 = DenseRank(r)
        \/ /\ r \notin order_mask
           /\ rank' = Rank(r)
           /\ rank_equal' = r - BeginOf(order_mask, r)
           /\ mode = "dense_rank" => dense_rank' = DenseRank(r)
    BY <2>1, <2>2, RowReady
  <2>5. \/ r \in partition_mask'
        \/ /\ r \in order_mask'
           /\ rank' + rank_equal' = Rank(r)'
           /\ mode' = "dense_rank" => dense_rank' + 1 = DenseRank(r)'
        \/ /\ r \notin order_mask'
           /\ rank' = Rank(r)'
           /\ rank_equal' = r - BeginOf(order_mask', r)
           /\ mode' = "dense_rank" => dense_rank' = DenseRank(r)'
    BY <1>7, <2>4
  <2> QED BY <2>3, <2>5 DEF Ready, Rank, DenseRank
<1> QED BY <1>0, <1>1, <1>5, <1>6, <1>8, <1>9

\* A step within a block keeps the types.
LEMMA RowTypes ==
    ASSUME Inv, EvaluateRow, UNCHANGED input_vars,
           i' \in 0 .. count, next_partition_begin' \in 0 .. RowCount,
           sel' \in Seq(Positions), pc' \in {"Start", "Row", "Done"}
    PROVE  TypeOK'
<1>1. /\ partition_mask \subseteq order_mask /\ order_mask \subseteq Rows
      /\ next_pos \in 0 .. RowCount /\ mode \in Modes
      /\ first \in 0 .. RowCount /\ count \in 0 .. RowCount
      /\ first + count <= RowCount
  BY DEF Inv, TypeOK
<1>2. {rank, rank_equal, dense_rank}' \subseteq Int /\ rdata' \in [Positions -> Int]
  BY RowSteps
<1>3. /\ partition_mask' = partition_mask /\ order_mask' = order_mask
      /\ mode' = mode /\ first' = first /\ count' = count /\ next_pos' = next_pos
      /\ Positions' = Positions
  BY SameInput
<1> QED BY <1>1, <1>2, <1>3 DEF TypeOK

\* The next row: the part of the invariant that does not depend on the predicate.
LEMMA NextRow ==
    ASSUME Inv, EvaluateRow, UNCHANGED input_vars,
           i' = i + 1, next_partition_begin' = next_partition_begin, pc' = pc,
           sel' \in Seq(Positions)
    PROVE  /\ TypeOK' /\ MasksOK' /\ CarriedOK' /\ pc' = "Row"
           /\ IsBlock(first, count)' /\ ExactBounds(first, count, bounds)'
           /\ (i < count => Ready(row_idx))'
           /\ RanksOK'
           /\ (early_out => IteratorOK)'
<1>1. /\ pc = "Row" /\ i \in Positions /\ i \in Nat /\ row_idx \in Rows
      /\ mode # "dense_rank" => rdata'[i] = Rank(row_idx)
      /\ mode = "dense_rank" => rdata'[i] = DenseRank(row_idx)
      /\ \A p \in Positions : p # i => rdata'[p] = rdata[p]
      /\ (i < count => Ready(row_idx))'
      /\ i' \in Nat /\ i' <= count /\ row_idx' = row_idx + 1
  BY RowSteps
<1>2. /\ MasksOK' /\ CarriedOK'
      /\ \A r : Rank(r)' = Rank(r) /\ DenseRank(r)' = DenseRank(r)
      /\ mode' = mode /\ first' = first /\ count' = count
      /\ Positions' = Positions /\ partition_begins' = partition_begins
      /\ early_out' = early_out
      /\ IsBlock(first, count)' = IsBlock(first, count)
      /\ ExactBounds(first, count, bounds)' = ExactBounds(first, count, bounds)
  BY SameInput
<1>3. IsBlock(first, count) /\ ExactBounds(first, count, bounds) /\ RowOK
  BY <1>1 DEF Inv
<1>t. /\ \A p \in Positions : p \in Nat
      /\ count \in Nat /\ row_idx \in Nat /\ RowCount \in Nat
      /\ \A b \in partition_begins : b \in Nat
  BY <1>1, BlockTypes
<1>n. next_partition_begin \in 0 .. RowCount
  BY DEF Inv, TypeOK
<1>4. TypeOK'
  <2>1. i' \in 0 .. count
    BY <1>1, <1>t
  <2> QED BY <1>1, <1>n, <2>1, RowTypes
<1>5. RanksOK'
  <2>1. ASSUME NEW p \in Positions, p < i'
        PROVE  /\ mode = "rank" => rdata'[p] = Rank(first + p)
               /\ mode = "dense_rank" => rdata'[p] = DenseRank(first + p)
    <3>1. p = i \/ p < i
      BY <1>1, <1>t, <2>1
    <3>2. CASE p = i
      BY <1>1, <3>2 DEF row_idx
    <3>3. CASE p < i
      <4>1. p # i
        BY <1>1, <1>t, <3>3
      <4> QED BY <1>1, <1>3, <3>3, <4>1 DEF RowOK, RanksOK
    <3> QED BY <3>1, <3>2, <3>3
  <2> QED BY <1>2, <2>1 DEF RanksOK
<1>6. (early_out => IteratorOK)'
  <2>1. SUFFICES ASSUME early_out' PROVE IteratorOK'
    OBVIOUS
  <2>2. IteratorOK
    BY <1>2, <1>3, <2>1 DEF RowOK
  <2>3. \A b \in partition_begins : b <= row_idx => b <= row_idx + 1
    BY <1>t
  <2> QED BY <1>1, <1>2, <2>2, <2>3 DEF IteratorOK, cend
<1> QED BY <1>1, <1>2, <1>3, <1>4, <1>5, <1>6

\* A row of a block without a predicate keeps the invariant.
LEMMA ComputeKeeps ==
    ASSUME Inv, Compute
    PROVE  Inv'
<1>0. /\ mode \in {"rank", "dense_rank"} /\ EvaluateRow /\ i' = i + 1
      /\ UNCHANGED input_vars /\ next_partition_begin' = next_partition_begin
      /\ sel' = sel /\ pc' = pc
  BY DEF Compute
<1>1. sel \in Seq(Positions) /\ pc = "Row" /\ RowOK /\ SelectsOnce
  BY <1>0 DEF Inv, TypeOK, EvaluateRow
<1>2. /\ TypeOK' /\ MasksOK' /\ CarriedOK' /\ pc' = "Row"
      /\ IsBlock(first, count)' /\ ExactBounds(first, count, bounds)'
      /\ (i < count => Ready(row_idx))' /\ RanksOK' /\ (early_out => IteratorOK)'
  BY <1>0, <1>1, NextRow
<1>3. /\ mode' = mode /\ early_out' = early_out
      /\ EveryPartitionFails' = EveryPartitionFails
  BY <1>0, SameInput
<1>4. ~early_out /\ mode \notin {"filter", "stop"}
  BY <1>0 DEF early_out
<1>5. OnceOK'
  <2>1. \A m \in 1 .. Len(sel) : sel[m] < i
    BY <1>1, <1>4 DEF RowOK, OnceOK
  <2>2. i \in Nat /\ \A p \in Positions : p \in Nat
    BY <1>1, BlockTypes
  <2>3. \A m \in 1 .. Len(sel) : sel[m] \in Positions
    BY <1>1
  <2>4. \A m \in 1 .. Len(sel) : sel[m] < i + 1
    BY <2>1, <2>2, <2>3
  <2> QED BY <1>0, <1>3, <1>4, <2>4 DEF OnceOK
<1>6. RowOK'
  BY <1>2, <1>3, <1>4, <1>5 DEF RowOK
<1>7. SelectsOnce'
  BY <1>0, <1>1, <1>3 DEF SelectsOnce
<1> QED BY <1>2, <1>6, <1>7 DEF Inv, RanksAreExact, SelectsExactly

\* What a selected row adds to the selection.
LEMMA SelectedAppend ==
    ASSUME sel \in Seq(Positions), i \in Positions, sel' = Append(sel, i)
    PROVE  /\ sel' \in Seq(Positions)
           /\ Selected' = Selected \cup {i}
           /\ Len(sel') = Len(sel) + 1 /\ Len(sel) \in Nat
           /\ \A m \in 1 .. Len(sel) : sel'[m] = sel[m]
           /\ sel'[Len(sel) + 1] = i
<1>1. /\ sel' \in Seq(Positions)
      /\ Len(sel') = Len(sel) + 1 /\ Len(sel) \in Nat
      /\ \A m \in 1 .. Len(sel) : sel'[m] = sel[m]
      /\ sel'[Len(sel) + 1] = i
  OBVIOUS
<1>2. 1 .. Len(sel') = 1 .. Len(sel) \cup {Len(sel) + 1}
  BY <1>1
<1>3. Selected' = {sel'[m] : m \in 1 .. Len(sel')}
  BY DEF Selected
<1>4. Selected' = Selected \cup {i}
  BY <1>1, <1>2, <1>3 DEF Selected
<1> QED BY <1>1, <1>4

\* A row that matches keeps the invariant: in particular the iterator stays
\* ahead of it, as the last row before the iterator's partition would fail.
LEMMA SelectKeeps ==
    ASSUME Inv, Select
    PROVE  Inv'
<1>0. /\ mode \in {"filter", "stop"} /\ EvaluateRow /\ i' = i + 1
      /\ UNCHANGED input_vars /\ next_partition_begin' = next_partition_begin
      /\ Matches(rank') /\ sel' = Append(sel, i) /\ pc' = pc
  BY DEF Select
<1>1. sel \in Seq(Positions) /\ pc = "Row" /\ RowOK /\ SelectsOnce /\ MasksOK
  BY <1>0 DEF Inv, TypeOK, EvaluateRow
<1>r. /\ i \in Positions /\ i \in Nat /\ row_idx \in Rows
      /\ rdata'[i] = Rank(row_idx)
      /\ \A p \in Positions : p # i => rdata'[p] = rdata[p]
      /\ row_idx' = row_idx + 1
  BY <1>0, RowSteps
<1>k. Rank(row_idx) <= predicate_value
  BY <1>0, RowRank DEF Matches
<1>a. /\ sel' \in Seq(Positions)
      /\ Selected' = Selected \cup {i}
      /\ Len(sel') = Len(sel) + 1 /\ Len(sel) \in Nat
      /\ \A m \in 1 .. Len(sel) : sel'[m] = sel[m]
      /\ sel'[Len(sel) + 1] = i
  BY <1>0, <1>1, <1>r, SelectedAppend
<1>2. /\ TypeOK' /\ MasksOK' /\ CarriedOK' /\ pc' = "Row"
      /\ IsBlock(first, count)' /\ ExactBounds(first, count, bounds)'
      /\ (i < count => Ready(row_idx))' /\ RanksOK' /\ (early_out => IteratorOK)'
  BY <1>0, <1>a, NextRow
<1>3. /\ mode' = mode /\ first' = first /\ early_out' = early_out
      /\ EveryPartitionFails' = EveryPartitionFails /\ Positions' = Positions
      /\ \A r : Rank(r)' = Rank(r)
  BY <1>0, SameInput
<1>t. /\ \A p \in Positions : p \in Nat
      /\ row_idx \in Nat /\ first \in Nat
      /\ \A b \in partition_begins : b \in Nat
      /\ \A m \in 1 .. Len(sel) : sel[m] \in Positions
      /\ predicate_value \in Int
  BY <1>1, BlockTypes, PredicateAssumption
<1>4. SelectionOK'
  <2>0. SelectionOK
    BY <1>0, <1>1 DEF RowOK
  <2>1. ASSUME NEW p \in Selected'
        PROVE  Rank(first + p) <= predicate_value /\ rdata'[p] = Rank(first + p)
    <3>1. CASE p = i
      BY <1>k, <1>r, <3>1 DEF row_idx
    <3>2. CASE p # i
      <4>1. p \in Selected /\ p \in Positions
        BY <1>a, <1>t, <3>2 DEF Selected
      <4> QED BY <1>r, <2>0, <3>2, <4>1 DEF SelectionOK
    <3> QED BY <3>1, <3>2
  <2>2. ASSUME NEW p \in Positions, p < i', Rank(first + p) <= predicate_value
        PROVE  p \in Selected'
    <3>1. p = i \/ p < i
      BY <1>0, <1>r, <1>t, <2>2
    <3> QED BY <1>a, <2>0, <2>2, <3>1 DEF SelectionOK
  <2> QED BY <1>3, <2>1, <2>2 DEF SelectionOK
<1>5. ASSUME early_out => EveryPartitionFails
      PROVE  /\ \A m \in 1 .. Len(sel) : sel[m] < i
             /\ early_out => next_partition_begin = cend \/ next_partition_begin > row_idx
  BY <1>1, <1>5 DEF RowOK, OnceOK
<1>6. OnceOK'
  <2> SUFFICES ASSUME early_out => EveryPartitionFails
               PROVE  /\ \A m \in 1 .. Len(sel') : sel'[m] < i'
                      /\ early_out => next_partition_begin = cend \/ next_partition_begin > row_idx'
    BY <1>0, <1>3 DEF OnceOK, cend
  <2>1. ASSUME NEW m \in 1 .. Len(sel') PROVE sel'[m] < i'
    <3>1. m \in 1 .. Len(sel) \/ m = Len(sel) + 1
      BY <1>a
    <3>2. CASE m \in 1 .. Len(sel)
      <4>1. sel'[m] = sel[m] /\ sel[m] \in Nat /\ sel[m] < i
        BY <1>5, <1>a, <1>t, <3>2
      <4> QED BY <1>0, <1>r, <4>1
    <3>3. CASE m = Len(sel) + 1
      BY <1>0, <1>a, <1>r, <3>3
    <3> QED BY <3>1, <3>2, <3>3
  <2>2. ASSUME early_out, next_partition_begin # cend
        PROVE  next_partition_begin > row_idx + 1
    <3>1. next_partition_begin \in partition_begins /\ next_partition_begin > first
      BY <1>1, <2>2 DEF RowOK, IteratorOK
    <3>2. Rank(next_partition_begin - 1) > predicate_value
      BY <2>2, <3>1 DEF EveryPartitionFails
    <3>3. next_partition_begin > row_idx /\ next_partition_begin \in Nat
      BY <1>5, <1>t, <2>2, <3>1
    <3>4. next_partition_begin - 1 # row_idx
      <4> SUFFICES ASSUME next_partition_begin - 1 = row_idx PROVE FALSE
        OBVIOUS
      <4>1. Rank(row_idx) > predicate_value
        BY <3>2
      <4>2. Rank(row_idx) \in Int
        BY <1>0, RowRank
      <4> QED BY <1>k, <1>t, <4>1, <4>2
    <3> QED BY <1>t, <3>3, <3>4
  <2> QED BY <1>r, <2>1, <2>2
<1>7. RowOK'
  BY <1>2, <1>4, <1>6 DEF RowOK
<1>8. SelectsOnce'
  <2> SUFFICES ASSUME early_out => EveryPartitionFails,
                      NEW m \in 1 .. Len(sel'), NEW n \in 1 .. Len(sel'), m < n
               PROVE  sel'[m] < sel'[n]
    BY <1>3 DEF SelectsOnce
  <2>1. m \in 1 .. Len(sel) /\ (n \in 1 .. Len(sel) \/ n = Len(sel) + 1)
    BY <1>a
  <2>2. CASE n \in 1 .. Len(sel)
    BY <1>1, <1>a, <2>1, <2>2 DEF SelectsOnce
  <2>3. CASE n = Len(sel) + 1
    BY <1>5, <1>a, <2>1, <2>3
  <2> QED BY <2>1, <2>2, <2>3
<1> QED BY <1>2, <1>7, <1>8 DEF Inv, RanksAreExact, SelectsExactly

\* A row that fails adds nothing to the selection, and leaves it right.
LEMMA FailingRow ==
    ASSUME Inv, EvaluateRow, UNCHANGED input_vars, mode \in {"filter", "stop"},
           ~Matches(rank'), sel' = sel
    PROVE  /\ Selected' = Selected
           /\ \A p \in Selected' :
                /\ p \in Positions /\ Rank(first + p) <= predicate_value
                /\ rdata'[p] = Rank(first + p)
           /\ \A p \in Positions :
                p <= i /\ Rank(first + p) <= predicate_value => p \in Selected
           /\ Rank(row_idx) > predicate_value
           /\ \A m \in 1 .. Len(sel) : sel[m] \in Positions /\ sel[m] \in Nat
<1>1. sel \in Seq(Positions) /\ pc = "Row" /\ SelectionOK
  BY DEF Inv, TypeOK, EvaluateRow, RowOK
<1>2. /\ i \in Positions /\ i \in Nat
      /\ rdata'[i] = Rank(row_idx)
      /\ \A p \in Positions : p # i => rdata'[p] = rdata[p]
  BY RowSteps
<1>3. Rank(row_idx) > predicate_value /\ ~(Rank(row_idx) <= predicate_value)
  BY RowRank, PredicateAssumption DEF Matches
<1>4. Selected' = Selected
  BY DEF Selected
<1>5. \A m \in 1 .. Len(sel) : sel[m] \in Positions
  BY <1>1
<1>6. \A p \in Positions : p \in Nat
  BY <1>1, BlockTypes
<1>7. ASSUME NEW p \in Selected
      PROVE  /\ p \in Positions /\ Rank(first + p) <= predicate_value
             /\ rdata'[p] = Rank(first + p)
  <2>1. p \in Positions
    BY <1>5 DEF Selected
  <2>2. Rank(first + p) <= predicate_value /\ rdata[p] = Rank(first + p)
    BY <1>1 DEF SelectionOK
  <2>3. p # i
    BY <1>3, <2>2 DEF row_idx
  <2> QED BY <1>2, <2>1, <2>2, <2>3
<1>8. ASSUME NEW p \in Positions, p <= i, Rank(first + p) <= predicate_value
      PROVE  p \in Selected
  <2>1. p # i
    BY <1>3, <1>8 DEF row_idx
  <2>2. p < i
    BY <1>2, <1>6, <1>8, <2>1
  <2> QED BY <1>1, <1>8, <2>2 DEF SelectionOK
<1> QED BY <1>3, <1>4, <1>5, <1>6, <1>7, <1>8

\* A row that fails, without the early stop, keeps the invariant.
LEMMA RejectKeeps ==
    ASSUME Inv, Reject
    PROVE  Inv'
<1>0. /\ mode = "filter" /\ EvaluateRow /\ i' = i + 1
      /\ UNCHANGED input_vars /\ next_partition_begin' = next_partition_begin
      /\ ~Matches(rank') /\ sel' = sel /\ pc' = pc
  BY DEF Reject
<1>1. sel \in Seq(Positions) /\ pc = "Row" /\ RowOK /\ SelectsOnce
  BY <1>0 DEF Inv, TypeOK, EvaluateRow
<1>2. /\ TypeOK' /\ MasksOK' /\ CarriedOK' /\ pc' = "Row"
      /\ IsBlock(first, count)' /\ ExactBounds(first, count, bounds)'
      /\ (i < count => Ready(row_idx))' /\ RanksOK' /\ (early_out => IteratorOK)'
  BY <1>0, <1>1, NextRow
<1>3. /\ mode' = mode /\ first' = first /\ early_out' = early_out
      /\ EveryPartitionFails' = EveryPartitionFails /\ Positions' = Positions
      /\ \A r : Rank(r)' = Rank(r)
  BY <1>0, SameInput
<1>f. /\ Selected' = Selected
      /\ \A p \in Selected' : /\ Rank(first + p) <= predicate_value
                              /\ rdata'[p] = Rank(first + p)
      /\ \A p \in Positions :
           p <= i /\ Rank(first + p) <= predicate_value => p \in Selected
      /\ \A m \in 1 .. Len(sel) : sel[m] \in Nat
  BY <1>0, FailingRow
<1>t. i \in Nat /\ \A p \in Positions : p \in Nat
  BY <1>1, BlockTypes
<1>4. SelectionOK'
  <2>1. \A p \in Positions : p < i' => p <= i
    BY <1>0, <1>t
  <2> QED BY <1>3, <1>f, <2>1 DEF SelectionOK
<1>5. OnceOK'
  <2>1. ~early_out
    BY <1>0 DEF early_out
  <2>2. \A m \in 1 .. Len(sel) : sel[m] < i
    BY <1>1, <2>1 DEF RowOK, OnceOK
  <2>3. \A m \in 1 .. Len(sel) : sel[m] < i + 1
    BY <1>f, <1>t, <2>2
  <2> QED BY <1>0, <1>3, <2>1, <2>3 DEF OnceOK
<1>6. RowOK'
  BY <1>2, <1>4, <1>5 DEF RowOK
<1>7. SelectsOnce'
  BY <1>0, <1>1, <1>3 DEF SelectsOnce
<1> QED BY <1>2, <1>6, <1>7 DEF Inv, RanksAreExact, SelectsExactly

\* The rows that the early stop leaves out would all fail: up to the partition
\* the iterator is at, they are of the failing row's window partition.
LEMMA SkippedFail ==
    ASSUME Inv, pc = "Row", i < count, early_out,
           Rank(row_idx) > predicate_value,
           NEW p \in Positions, p >= i, first + p < next_partition_begin
    PROVE  Rank(first + p) > predicate_value
<1>1. MasksOK /\ IteratorOK /\ next_partition_begin \in Nat
  BY DEF Inv, RowOK, TypeOK
<1>2. PICK s \in Rows : s = first + p
  BY BlockTypes
<1>3. PICK r \in Rows : r = row_idx
  BY BlockTypes
<1>4. /\ r \in Nat /\ s \in Nat /\ first \in Nat /\ i \in Nat /\ p \in Nat
      /\ s < first + count /\ count \in Nat
  BY <1>2, <1>3, BlockTypes DEF Rows
<1>5. r <= s /\ first <= r
  BY <1>2, <1>3, <1>4 DEF row_idx
<1>6. ASSUME NEW b \in partition_mask, r < b, b <= s PROVE FALSE
  <2>1. b \in Nat
    BY <1>1 DEF MasksOK, IsMask, Rows
  <2>2. b \in partition_begins /\ b > first
    BY <1>4, <1>5, <1>6, <2>1 DEF partition_begins
  <2>3. b <= row_idx \/ b >= next_partition_begin
    BY <1>1, <2>2 DEF IteratorOK
  <2> QED BY <1>1, <1>2, <1>3, <1>4, <1>6, <2>1, <2>3
<1>7. BeginOf(partition_mask, r) = BeginOf(partition_mask, s)
  BY <1>1, <1>5, <1>6, SamePartition
<1>8. Rank(r) <= Rank(s) /\ Rank(r) \in Int /\ Rank(s) \in Int
  BY <1>1, <1>5, <1>7, RankGrows
<1>9. Rank(s) > predicate_value
  BY <1>3, <1>8, PredicateAssumption
<1> QED BY <1>2, <1>9

\* The row fails and the iterator is at its end: the block is done.
LEMMA StopKeeps ==
    ASSUME Inv, Skip, next_partition_begin = cend
    PROVE  Inv'
<1>0. /\ early_out /\ EvaluateRow /\ ~Matches(rank') /\ UNCHANGED input_vars
      /\ sel' = sel /\ pc' = "Done" /\ i' = i
      /\ next_partition_begin' = next_partition_begin
  BY DEF Skip, SkipTo
<1>1. /\ sel \in Seq(Positions) /\ pc = "Row" /\ i < count /\ SelectsOnce
      /\ i \in 0 .. count /\ next_partition_begin \in 0 .. RowCount
  BY <1>0 DEF Inv, TypeOK, EvaluateRow
<1>2. TypeOK'
  BY <1>0, <1>1, RowTypes
<1>3. /\ MasksOK' /\ CarriedOK' /\ mode' = mode /\ first' = first
      /\ early_out' = early_out
      /\ EveryPartitionFails' = EveryPartitionFails /\ Positions' = Positions
      /\ \A r : Rank(r)' = Rank(r)
  BY <1>0, SameInput
<1>m. mode = "stop"
  BY <1>0 DEF early_out
<1>f. /\ Selected' = Selected
      /\ \A p \in Selected' :
           /\ p \in Positions /\ Rank(first + p) <= predicate_value
           /\ rdata'[p] = Rank(first + p)
      /\ \A p \in Positions :
           p <= i /\ Rank(first + p) <= predicate_value => p \in Selected
      /\ Rank(row_idx) > predicate_value
  BY <1>0, <1>m, FailingRow
<1>4. ASSUME NEW p \in Positions, Rank(first + p) <= predicate_value
      PROVE  p \in Selected
  <2>1. /\ p \in Nat /\ i \in Nat /\ first + p \in Rows /\ RowCount \in Nat
    BY <1>1, BlockTypes
  <2>2. CASE p <= i
    BY <1>4, <1>f, <2>2
  <2>3. CASE ~(p <= i)
    <3>1. p >= i /\ first + p < next_partition_begin
      BY <2>1, <2>3 DEF cend, Rows
    <3>2. Rank(first + p) > predicate_value
      BY <1>0, <1>1, <1>f, <3>1, SkippedFail
    <3>3. Rank(first + p) \in Int
      BY <2>1, RankType DEF Inv
    <3> QED BY <1>4, <3>2, <3>3, PredicateAssumption
  <2> QED BY <2>2, <2>3
<1>5. SelectsExactly'
  <2>1. Selected' = {p \in Positions : Rank(first + p) <= predicate_value}
    BY <1>4, <1>f
  <2> QED BY <1>3, <1>f, <2>1 DEF SelectsExactly
<1>6. RanksAreExact'
  BY <1>3, <1>m DEF RanksAreExact
<1>7. SelectsOnce'
  BY <1>0, <1>1, <1>3 DEF SelectsOnce
<1> QED BY <1>0, <1>2, <1>3, <1>5, <1>6, <1>7 DEF Inv

\* The row fails and evaluation goes on at a window partition of the block.
LEMMA SkipKeeps ==
    ASSUME Inv, Skip, next_partition_begin # cend
    PROVE  Inv' /\ next_partition_begin' > next_partition_begin
<1>0. /\ early_out /\ EvaluateRow /\ ~Matches(rank') /\ UNCHANGED input_vars
      /\ sel' = sel /\ pc' = pc /\ i' = next_partition_begin - first
      /\ next_partition_begin' = FirstAfter(next_partition_begin)
  BY DEF Skip, SkipTo
<1>1. /\ sel \in Seq(Positions) /\ pc = "Row" /\ i < count /\ SelectsOnce
      /\ RowOK /\ MasksOK
      /\ IsBlock(first, count) /\ ExactBounds(first, count, bounds)
  BY <1>0 DEF Inv, TypeOK, EvaluateRow
<1>2. PICK b : b = next_partition_begin
  OBVIOUS
<1>i. /\ b \in partition_begins /\ b > first
      /\ \A c \in partition_begins : c > first => c <= row_idx \/ c >= b
  BY <1>0, <1>1, <1>2 DEF RowOK, IteratorOK
<1>b. /\ b \in Nat /\ b < RowCount /\ b \in partition_mask /\ b - first \in Positions
      /\ first \in Nat /\ count \in Nat /\ i \in Nat /\ RowCount \in Nat
      /\ \A p \in Positions : p \in Nat /\ p < count
      /\ \A c \in partition_begins : c \in Nat
  BY <1>1, <1>i, BlockTypes
<1>3. PICK a : a = FirstAfter(b)
  OBVIOUS
<1>a. /\ a \in Nat /\ a > b /\ a <= RowCount
      /\ a = RowCount \/ a \in partition_begins
      /\ \A c \in partition_begins : c > b => c >= a
  BY <1>1, <1>3, <1>b, FirstAfterProps
<1>n. next_partition_begin' = a /\ i' = b - first /\ next_partition_begin' > next_partition_begin
  BY <1>0, <1>2, <1>3, <1>a
<1>4. TypeOK'
  <2>1. i' \in 0 .. count /\ next_partition_begin' \in 0 .. RowCount
    BY <1>a, <1>b, <1>n
  <2> QED BY <1>0, <1>1, <2>1, RowTypes
<1>5. /\ MasksOK' /\ CarriedOK' /\ mode' = mode /\ first' = first /\ count' = count
      /\ partition_mask' = partition_mask
      /\ early_out' = early_out /\ partition_begins' = partition_begins
      /\ EveryPartitionFails' = EveryPartitionFails /\ Positions' = Positions
      /\ \A r : Rank(r)' = Rank(r)
      /\ IsBlock(first, count)' /\ ExactBounds(first, count, bounds)'
  BY <1>0, <1>1, SameInput
<1>m. mode = "stop"
  BY <1>0 DEF early_out
<1>r. row_idx' = b
  BY <1>5, <1>b, <1>n DEF row_idx
<1>f. /\ Selected' = Selected
      /\ \A p \in Selected' :
           /\ p \in Positions /\ Rank(first + p) <= predicate_value
           /\ rdata'[p] = Rank(first + p)
      /\ \A p \in Positions :
           p <= i /\ Rank(first + p) <= predicate_value => p \in Selected
      /\ Rank(row_idx) > predicate_value
      /\ \A m \in 1 .. Len(sel) : sel[m] \in Nat
  BY <1>0, <1>m, FailingRow
<1>6. (i < count => Ready(row_idx))'
  BY <1>5, <1>b, <1>r DEF Ready
<1>7. RanksOK'
  BY <1>5, <1>m DEF RanksOK
<1>8. SelectionOK'
  <2>1. ASSUME NEW p \in Positions, p < i', Rank(first + p) <= predicate_value
        PROVE  p \in Selected
    <3>1. p \in Nat /\ first + p \in Rows
      BY <1>1, BlockTypes
    <3>2. CASE p <= i
      BY <1>f, <2>1, <3>2
    <3>3. CASE ~(p <= i)
      <4>1. p >= i /\ first + p < next_partition_begin
        BY <1>2, <1>b, <1>n, <2>1, <3>1, <3>3
      <4>2. Rank(first + p) > predicate_value
        BY <1>0, <1>1, <1>f, <4>1, SkippedFail
      <4>3. Rank(first + p) \in Int
        BY <1>1, <3>1, RankType
      <4> QED BY <2>1, <4>2, <4>3, PredicateAssumption
    <3> QED BY <3>2, <3>3
  <2> QED BY <1>5, <1>f, <2>1 DEF SelectionOK
<1>9. IteratorOK'
  <2>1. a > first
    BY <1>a, <1>b, <1>i
  <2>2. \A c \in partition_begins : c <= b \/ c >= a
    BY <1>a, <1>b
  <2> QED BY <1>5, <1>a, <1>n, <1>r, <2>1, <2>2 DEF IteratorOK, cend
<1>10. OnceOK'
  <2> SUFFICES ASSUME early_out => EveryPartitionFails
               PROVE  /\ \A m \in 1 .. Len(sel) : sel[m] < i'
                      /\ a = RowCount \/ a > b
    BY <1>0, <1>5, <1>n, <1>r DEF OnceOK, cend
  <2>1. (\A m \in 1 .. Len(sel) : sel[m] < i) /\ b > row_idx
    BY <1>0, <1>1, <1>2 DEF RowOK, OnceOK
  <2>2. i < i'
    BY <1>b, <1>n, <2>1 DEF row_idx
  <2> QED BY <1>a, <1>b, <1>f, <1>n, <2>1, <2>2
<1>11. RowOK'
  BY <1>6, <1>7, <1>8, <1>9, <1>10 DEF RowOK
<1>12. SelectsOnce'
  BY <1>0, <1>1, <1>5 DEF SelectsOnce
<1> QED BY <1>0, <1>1, <1>4, <1>5, <1>11, <1>12, <1>n
        DEF Inv, RanksAreExact, SelectsExactly

\* At the end of a block the invariant gives its ranks and its selection.
LEMMA FinishKeeps ==
    ASSUME Inv, Finish
    PROVE  Inv'
<1>0. /\ pc = "Row" /\ i = count /\ pc' = "Done" /\ UNCHANGED input_vars
      /\ i' = i /\ UNCHANGED rank_vars /\ next_partition_begin' = next_partition_begin
      /\ rdata' = rdata /\ sel' = sel
  BY DEF Finish
<1>1. RowOK /\ SelectsOnce /\ TypeOK
  BY <1>0 DEF Inv
<1>2. /\ MasksOK' /\ CarriedOK' /\ mode' = mode /\ first' = first /\ count' = count
      /\ partition_mask' = partition_mask /\ order_mask' = order_mask
      /\ next_pos' = next_pos
      /\ early_out' = early_out
      /\ EveryPartitionFails' = EveryPartitionFails /\ Positions' = Positions
      /\ \A r : Rank(r)' = Rank(r) /\ DenseRank(r)' = DenseRank(r)
  BY <1>0, SameInput
<1>3. TypeOK'
  BY <1>0, <1>1, <1>2 DEF TypeOK, rank_vars
<1>4. \A p \in Positions : p < i
  BY <1>0, BlockTypes
<1>5. RanksAreExact'
  BY <1>0, <1>1, <1>2, <1>4 DEF RanksAreExact, RowOK, RanksOK
<1>6. SelectsExactly'
  <2>1. SUFFICES ASSUME mode \in {"filter", "stop"}
                 PROVE  /\ Selected' = {p \in Positions : Rank(first + p) <= predicate_value}
                        /\ \A p \in Selected' : rdata[p] = Rank(first + p)
    BY <1>0, <1>2 DEF SelectsExactly
  <2>2. SelectionOK
    BY <1>1, <2>1 DEF RowOK
  <2>3. Selected' = Selected
    BY <1>0 DEF Selected
  <2>4. \A p \in Selected : p \in Positions
    <3>1. sel \in Seq(Positions)
      BY <1>1 DEF TypeOK
    <3> QED BY <3>1 DEF Selected
  <2> QED BY <1>4, <2>2, <2>3, <2>4 DEF SelectionOK
<1>7. SelectsOnce'
  BY <1>0, <1>1, <1>2 DEF SelectsOnce
<1> QED BY <1>0, <1>2, <1>3, <1>5, <1>6, <1>7 DEF Inv

\* A step that changes nothing keeps the invariant.
LEMMA StutterKeeps ==
    ASSUME Inv, UNCHANGED vars
    PROVE  Inv'
<1>0. /\ UNCHANGED input_vars /\ i' = i
      /\ rank' = rank /\ rank_equal' = rank_equal /\ dense_rank' = dense_rank
      /\ next_partition_begin' = next_partition_begin
      /\ rdata' = rdata /\ sel' = sel /\ pc' = pc
  BY DEF vars, rank_vars
<1>1. /\ partition_count' = partition_count /\ partition_mask' = partition_mask
      /\ order_mask' = order_mask /\ mode' = mode /\ first' = first /\ count' = count
      /\ next_pos' = next_pos /\ partition_start' = partition_start
      /\ partition_end' = partition_end /\ peer_start' = peer_start /\ bounds' = bounds
  BY <1>0 DEF input_vars, boundary_vars, mask_vars
<1>2. /\ MasksOK' /\ CarriedOK'
      /\ Positions' = Positions /\ partition_begins' = partition_begins
      /\ EveryPartitionFails' = EveryPartitionFails
      /\ early_out' = early_out
      /\ IsBlock(first, count)' = IsBlock(first, count)
      /\ ExactBounds(first, count, bounds)' = ExactBounds(first, count, bounds)
      /\ \A r : Rank(r)' = Rank(r) /\ DenseRank(r)' = DenseRank(r)
  BY <1>0, SameInput
<1>3. Selected' = Selected /\ row_idx' = row_idx
  BY <1>0, <1>1 DEF Selected, row_idx
<1>4. TypeOK'
  BY <1>0, <1>1, <1>2 DEF Inv, TypeOK
<1>5. pc = "Row" => RowOK'
  <2> SUFFICES ASSUME RowOK PROVE RowOK'
    BY DEF Inv
  <2>1. Ready(row_idx)' = Ready(row_idx)
    BY <1>0, <1>1, <1>3 DEF Ready, Rank, DenseRank
  <2>2. RanksOK' = RanksOK /\ SelectionOK' = SelectionOK
    BY <1>0, <1>1, <1>2, <1>3 DEF RanksOK, SelectionOK
  <2>3. IteratorOK' = IteratorOK /\ OnceOK' = OnceOK
    BY <1>0, <1>1, <1>2, <1>3 DEF IteratorOK, OnceOK, cend
  <2> QED BY <1>0, <1>1, <1>2, <2>1, <2>2, <2>3 DEF RowOK
<1>6. RanksAreExact' /\ SelectsExactly' /\ SelectsOnce'
  BY <1>0, <1>1, <1>2, <1>3 DEF Inv, RanksAreExact, SelectsExactly, SelectsOnce
<1> QED BY <1>0, <1>2, <1>4, <1>5, <1>6 DEF Inv

-----------------------------------------------------------------------------
(***************************************************************************)
(* The theorems.                                                           *)
(***************************************************************************)
\* Every step keeps the invariant.
LEMMA NextInv ==
    ASSUME Inv, [Next]_vars
    PROVE  Inv'
<1>1. CASE \E f \in Rows, n \in 1 .. RowCount : Evaluate(f, n)
  BY <1>1, EvaluateKeeps
<1>2. CASE Start
  BY <1>2, StartKeeps
<1>3. CASE Compute
  BY <1>3, ComputeKeeps
<1>4. CASE Select
  BY <1>4, SelectKeeps
<1>5. CASE Reject
  BY <1>5, RejectKeeps
<1>6. CASE Skip
  BY <1>6, StopKeeps, SkipKeeps
<1>7. CASE Finish
  BY <1>7, FinishKeeps
<1>8. CASE Terminated \/ UNCHANGED vars
  BY <1>8, StutterKeeps DEF Terminated
<1> QED BY <1>1, <1>2, <1>3, <1>4, <1>5, <1>6, <1>7, <1>8 DEF Next

\* The invariant holds in every state.
LEMMA Invariant == Spec => []Inv
  BY InitInv, NextInv, PTL DEF Spec

\* The state of a block's evaluation keeps its types: no position leaves the
\* block, although the early stop may jump back.
THEOREM TypeCorrect == Spec => []TypeOK
<1>1. Inv => TypeOK
  BY DEF Inv
<1> QED BY <1>1, Invariant, PTL

\* The boundaries that a thread finds for a block, by words from the masks or
\* from its last block, are those of its rows.
THEOREM BoundsExact == Spec => []BoundsAreExact
<1>1. Inv => BoundsAreExact
  BY DEF Inv, BoundsAreExact
<1> QED BY <1>1, Invariant, PTL

\* Every row of every block gets its rank, or its dense rank, wherever in a
\* window partition, a peer group or a word of the mask the block begins.
THEOREM RanksExact == Spec => []RanksAreExact
<1>1. Inv => RanksAreExact
  BY DEF Inv
<1> QED BY <1>1, Invariant, PTL

\* The early stop is sound: the rows handed on are exactly those whose rank
\* satisfies the predicate, for any predicate.
THEOREM SelectionExact == Spec => []SelectsExactly
<1>1. Inv => SelectsExactly
  BY DEF Inv
<1> QED BY <1>1, Invariant, PTL

\* No row is selected twice unless the early stop meets a window partition
\* that ends in the block and has no failing row.
THEOREM SelectionOnce == Spec => []SelectsOnce
<1>1. Inv => SelectsOnce
  BY DEF Inv
<1> QED BY <1>1, Invariant, PTL

\* Evaluation of a block moves the iterator on, or stays with it and moves to
\* a later row.
THEOREM Advances == Spec => EvaluationAdvances
<1>1. ASSUME Inv, [Next]_vars
      PROVE  [pc = "Row" /\ pc' = "Row" =>
                \/ next_partition_begin' > next_partition_begin
                \/ next_partition_begin' = next_partition_begin /\ i' > i]_vars
  <2> SUFFICES ASSUME Next, pc = "Row", pc' = "Row", ~UNCHANGED vars
               PROVE  \/ next_partition_begin' > next_partition_begin
                      \/ next_partition_begin' = next_partition_begin /\ i' > i
    BY <1>1
  <2>1. CASE Compute \/ Select \/ Reject
    <3>1. i' = i + 1 /\ next_partition_begin' = next_partition_begin
      BY <2>1 DEF Compute, Select, Reject
    <3>2. i \in Nat
      BY <1>1, BlockTypes
    <3> QED BY <3>1, <3>2
  <2>2. CASE Skip
    <3>1. next_partition_begin # cend
      BY <2>2 DEF Skip, SkipTo
    <3> QED BY <1>1, <2>2, <3>1, SkipKeeps
  <2> QED BY <2>1, <2>2 DEF Next, Evaluate, Start, StartAt, Finish, Terminated
<1> QED BY <1>1, Invariant, PTL DEF Spec, EvaluationAdvances

===============================================================================
