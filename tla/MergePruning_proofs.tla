------------------------- MODULE MergePruning_proofs -------------------------
(***************************************************************************)
(* Merge pruning never changes the answer, for every input and every k.    *)
(*                                                                         *)
(* First, the bytes that are cut out of a sort key are the columns, and    *)
(* keys are ordered by them.  Then, each of the two loops always has a     *)
(* witness for its counter: order_by_count rows of the window partition,   *)
(* none above order_by, while the rows to come are not below it.  A row is *)
(* dropped only when the witnesses are k rows before it.                   *)
(***************************************************************************)
EXTENDS MergePruning, SharedTheorems, TLAPS

\* Division by d, as used by the shifts and masks.
LEMMA DivMod ==
    ASSUME NEW a \in Nat, NEW d \in Nat \ {0}
    PROVE  /\ a \div d \in Nat
           /\ a % d \in 0 .. d - 1
           /\ a = d * (a \div d) + (a % d)
  BY SMT

\* Quotient and remainder are unique.
LEMMA DivUnique ==
    ASSUME NEW d \in Nat \ {0}, NEW q \in Nat, NEW x \in 0 .. d - 1
    PROVE  /\ (q * d + x) \div d = q
           /\ (q * d + x) % d = x
<1> DEFINE a == q * d + x
<1>1. a \in Nat
  BY SMT
<1> DEFINE p == a \div d
           y == a % d
<1>2. /\ p \in Nat /\ y \in 0 .. d - 1
      /\ a = d * p + y
  BY <1>1, DivMod
<1> HIDE DEF p, y
<1>3. ~(p < q)
  <2>1. SUFFICES ASSUME p < q PROVE FALSE
    OBVIOUS
  <2>2. d * q >= d * (p + 1)
    BY <1>2, <2>1, SMT
  <2>3. d * (p + 1) = d * p + d
    BY <1>2, SMT
  <2>4. q * d = d * q
    BY SMT
  <2> QED BY <1>2, <2>2, <2>3, <2>4, SMT
<1>4. ~(q < p)
  <2>1. SUFFICES ASSUME q < p PROVE FALSE
    OBVIOUS
  <2>2. d * p >= d * (q + 1)
    BY <1>2, <2>1, SMT
  <2>3. d * (q + 1) = d * q + d
    BY SMT
  <2>4. q * d = d * q
    BY SMT
  <2> QED BY <1>2, <2>2, <2>3, <2>4, SMT
<1>5. p = q
  BY <1>2, <1>3, <1>4, SMT
<1>6. y = x
  BY <1>2, <1>5, SMT
<1> QED BY <1>5, <1>6 DEF p, y

\* The byte counts that the shifts use are positive.
LEMMA Widths ==
    /\ Two \in Nat \ {0} /\ Three \in Nat \ {0}
    /\ Five \in Nat \ {0} /\ Six \in Nat \ {0}
    /\ Five = Three * Two
<1>1. ASSUME NEW x \in Nat \ {0}, NEW y \in Nat \ {0} PROVE x * y \in Nat \ {0}
  BY SMT
<1>2. Base \in Nat \ {0}
  BY NumbersAssumption
<1>3. Two \in Nat \ {0}
  BY <1>1, <1>2 DEF Two
<1>4. Three \in Nat \ {0}
  BY <1>1, <1>2, <1>3 DEF Two, Three
<1> HIDE DEF Two, Three
<1> QED BY <1>1, <1>3, <1>4 DEF Five, Six

Columns(r) ==
    data[r].part \in 0 .. Five - 1 /\ data[r].value \in 0 .. Five - 1

\* extract_partition and extract_order_by are the columns of the row.
LEMMA Extracted ==
    ASSUME NEW r \in Rows, Columns(r)
    PROVE  /\ extract_partition(r) = data[r].part
           /\ extract_order_by(r) = data[r].value
<1> DEFINE p == data[r].part
           v == data[r].value
           h == v \div Two
           l == v % Two
<1>1. p \in Nat /\ v \in Nat /\ v < Five
  BY Widths DEF Columns
<1>2. h \in Nat /\ l \in 0 .. Two - 1 /\ v = Two * h + l
  BY <1>1, Widths, DivMod
<1> HIDE DEF p, v, h, l
<1>3. h < Three
  <2>1. SUFFICES ASSUME h >= Three PROVE FALSE
    BY <1>2, Widths
  <2>2. Two * h >= Two * Three
    BY <1>2, <2>1, Widths, SMT
  <2>3. Two * Three = Five
    BY Widths, SMT
  <2> QED BY <1>1, <1>2, <2>2, <2>3, Widths, SMT
<1>4. part0(r) = p * Three + h
  BY DEF part0, p, v, h
<1>5. extract_partition(r) = p
  BY <1>1, <1>2, <1>3, <1>4, Widths, DivUnique DEF extract_partition
<1>6. part1(r) = l * Six + 0
  BY <1>2, Widths, SMT DEF part1, v, l
<1>7. part1(r) \div Six = l
  <2>1. 0 \in 0 .. Six - 1 /\ l \in Nat
    BY <1>2, Widths
  <2> QED BY <1>6, <2>1, Widths, DivUnique
<1>8. (part0(r) * Two) % Five = h * Two
  <2>1. h * Two \in 0 .. Five - 1
    <3>1. h * Two <= v
      BY <1>1, <1>2, Widths, SMT
    <3>2. h * Two \in Nat
      BY <1>2, Widths, SMT
    <3> QED BY <1>1, <3>1, <3>2, Widths, SMT
  <2>2. part0(r) * Two = p * Five + h * Two
    <3>1. p * (Three * Two) = (p * Three) * Two
      BY <1>1, Widths, SMT
    <3>2. p * Three \in Nat
      BY <1>1, Widths, SMT
    <3>3. (p * Three + h) * Two = (p * Three) * Two + h * Two
      BY <1>2, <3>2, Widths, SMT
    <3> QED BY <1>4, <3>1, <3>3, Widths
  <2>3. (p * Five + h * Two) % Five = h * Two
    BY <1>1, <2>1, Widths, DivUnique, Zenon
  <2> QED BY <2>2, <2>3
<1>9. extract_order_by(r) = h * Two + l
  BY <1>7, <1>8 DEF extract_order_by
<1>10. h * Two + l = v
  BY <1>2, Widths, SMT
<1> QED BY <1>5, <1>9, <1>10 DEF p, v

\* Rows of a window partition are in the order of their values.
LEMMA KeyOrder ==
    ASSUME NEW r \in Rows, NEW s \in Rows, Columns(r), Columns(s),
           data[r].part = data[s].part, data[s].value < data[r].value
    PROVE  KeyLess(s, r)
<1> DEFINE p == data[r].part
           v == data[r].value
           u == data[s].value
           h == v \div Two
           l == v % Two
           g == u \div Two
           k == u % Two
<1>1. p \in Nat /\ v \in Nat /\ u \in Nat /\ u < v
  BY Widths DEF Columns
<1>2. /\ h \in Nat /\ l \in 0 .. Two - 1 /\ v = Two * h + l
      /\ g \in Nat /\ k \in 0 .. Two - 1 /\ u = Two * g + k
  BY <1>1, Widths, DivMod
<1>3. /\ part0(r) = p * Three + h /\ part1(r) = l * Six
      /\ part0(s) = p * Three + g /\ part1(s) = k * Six
  BY DEF part0, part1
<1> HIDE DEF p, v, u, h, l, g, k
<1>4. p * Three \in Nat
  BY <1>1, Widths, SMT
<1>5. ~(h < g)
  <2>1. SUFFICES ASSUME h < g PROVE FALSE
    OBVIOUS
  <2>2. Two * g >= Two * (h + 1)
    BY <1>2, <2>1, Widths, SMT
  <2>3. Two * (h + 1) = Two * h + Two
    BY <1>2, Widths, SMT
  <2> QED BY <1>1, <1>2, <2>2, <2>3, Widths, SMT
<1>6. CASE g < h
  BY <1>2, <1>3, <1>4, <1>6, SMT DEF KeyLess
<1>7. CASE g = h
  <2>1. k < l
    BY <1>1, <1>2, <1>7, Widths, SMT
  <2>2. k * Six < l * Six
    BY <1>2, <2>1, Widths, SMT
  <2> QED BY <1>3, <1>7, <2>2 DEF KeyLess
<1> QED BY <1>2, <1>5, <1>6, <1>7, SMT

-----------------------------------------------------------------------------
(***************************************************************************)
(* The inductive invariant.                                                *)
(***************************************************************************)
Typed ==
    /\ data \in Inputs
    /\ partition_idx \in Nat /\ run_idx \in 0 .. NumRuns
    /\ pc \in {"Partition", "Run", "Copy", "Scan"}
    /\ pc = "Copy" => run_idx < NumRuns
    /\ unread \in SUBSET Rows /\ merged \in SUBSET Rows
    /\ output \in SUBSET Rows
    /\ run_state \in States /\ scan_state \in States
    /\ begin \in BOOLEAN /\ count \in Nat

\* st counts order_by_count rows of its window partition, not above order_by.
Witnessed(st) ==
    \E W \in SUBSET Rows :
       /\ Cardinality(W) = st.order_by_count
       /\ \A w \in W : /\ data[w].part = st.partition
                       /\ data[w].value <= st.order_by

\* The rows S, which are to come, are not below st.
NotBelow(st, S) ==
    \A s \in S : data[s].part = st.partition => data[s].value >= st.order_by

StatesOK ==
    /\ Witnessed(run_state) /\ NotBelow(run_state, unread)
    /\ Witnessed(scan_state) /\ NotBelow(scan_state, merged)
    /\ pc \in {"Run", "Copy"} => scan_state = State(0, 0, 0)
    /\ pc = "Partition" => merged = {}

TopAlive == TopK(data, Rows, predicate) \subseteq Alive

Inv == Typed /\ StatesOK /\ TopAlive

\* The columns of every row are within their width.
LEMMA AllColumns ==
    ASSUME data \in Inputs, NEW r \in Rows
    PROVE  /\ Columns(r) /\ data[r].part \in Nat /\ data[r].value \in Nat
           /\ data[r].run \in 0 .. NumRuns - 1 /\ data[r].merge \in Nat
  BY InputsAssumption, NumbersAssumption, Widths DEF Columns

\* The zero state is a state that nothing is below.
LEMMA ZeroState ==
    ASSUME data \in Inputs
    PROVE  /\ State(0, 0, 0) \in States
           /\ Witnessed(State(0, 0, 0))
           /\ \A S \in SUBSET Rows : NotBelow(State(0, 0, 0), S)
<1>1. State(0, 0, 0) \in States
  BY DEF State, States
<1>2. Cardinality({}) = 0
  BY FS_EmptySet
<1>3. Witnessed(State(0, 0, 0))
  BY <1>2 DEF Witnessed, State
<1>4. \A S \in SUBSET Rows : NotBelow(State(0, 0, 0), S)
  BY AllColumns DEF NotBelow, State
<1> QED BY <1>1, <1>3, <1>4

\* After the next row is kept its state has witnesses, and the rows after it are
\* not below it.
LEMMA AfterOK ==
    ASSUME data \in Inputs, NEW st \in States, NEW S \in SUBSET Rows,
           NEW first \in BOOLEAN, NEW r \in S,
           Witnessed(st), NotBelow(st, S), IsNext(r, S)
    PROVE  /\ After(st, first, r) \in States
           /\ Witnessed(After(st, first, r))
           /\ NotBelow(After(st, first, r), S \ {r})
<1> DEFINE new == After(st, first, r)
<1>1. /\ extract_partition(r) = data[r].part
      /\ extract_order_by(r) = data[r].value
      /\ data[r].part \in Nat /\ data[r].value \in Nat
  BY AllColumns, Extracted
<1>2. /\ new.partition = data[r].part /\ new.order_by = data[r].value
      /\ new.order_by_count = IF IsNew(st, first, r) THEN 1
                              ELSE IF SameOrder(st, r) THEN st.order_by_count
                              ELSE st.order_by_count + 1
      /\ new = State(new.partition, new.order_by, new.order_by_count)
  BY <1>1 DEF After, State
<1>3. new \in States
  BY <1>1, <1>2 DEF States, State
<1>4. NotBelow(new, S \ {r})
  <2> SUFFICES ASSUME NEW s \in S, data[s].part = data[r].part
               PROVE  data[s].value >= data[r].value
    BY <1>2 DEF NotBelow
  <2>1. ~KeyLess(s, r)
    BY DEF IsNext
  <2>2. /\ Columns(r) /\ Columns(s)
        /\ data[s].value \in Nat /\ data[r].value \in Nat
    BY AllColumns
  <2> QED BY <2>1, <2>2, KeyOrder
<1>5. Witnessed(new)
  <2> HIDE DEF new
  <2>1. CASE IsNew(st, first, r)
    <3>1. Cardinality({r}) = 1
      BY FS_Singleton
    <3> QED BY <1>1, <1>2, <2>1, <3>1 DEF Witnessed
  <2>2. CASE ~IsNew(st, first, r) /\ SameOrder(st, r)
    <3>1. data[r].part = st.partition /\ data[r].value = st.order_by
      BY <1>1, <2>2 DEF IsNew, SameOrder
    <3> QED BY <1>2, <2>2, <3>1 DEF Witnessed
  <2>3. CASE ~IsNew(st, first, r) /\ ~SameOrder(st, r)
    <3>1. data[r].part = st.partition /\ data[r].value # st.order_by
      BY <1>1, <2>3 DEF IsNew, SameOrder
    <3>2. data[r].value > st.order_by
      <4>1. data[r].value >= st.order_by /\ st.order_by \in Nat
        BY <3>1 DEF NotBelow, States
      <4> QED BY <1>1, <3>1, <4>1
    <3>3. PICK W \in SUBSET Rows :
             /\ Cardinality(W) = st.order_by_count
             /\ \A w \in W : /\ data[w].part = st.partition
                             /\ data[w].value <= st.order_by
      BY DEF Witnessed
    <3>4. IsFiniteSet(W)
      BY RowsAssumption, FS_Subset
    <3>5. r \notin W
      BY <1>1, <3>2, <3>3 DEF States
    <3>6. Cardinality(W \cup {r}) = st.order_by_count + 1
      BY <3>3, <3>4, <3>5, FS_AddElement
    <3>7. \A w \in W \cup {r} : /\ data[w].part = data[r].part
                                /\ data[w].value <= data[r].value
      <4> SUFFICES ASSUME NEW w \in W \cup {r}
                   PROVE  /\ data[w].part = data[r].part
                          /\ data[w].value <= data[r].value
        OBVIOUS
      <4>1. data[w].value \in Nat /\ st.order_by \in Nat
        BY AllColumns DEF States
      <4> QED BY <1>1, <3>1, <3>2, <3>3, <4>1
    <3>8. W \cup {r} \in SUBSET Rows
      OBVIOUS
    <3> QED BY <1>2, <2>3, <3>6, <3>7, <3>8 DEF Witnessed
  <2> QED BY <2>1, <2>2, <2>3
<1> QED BY <1>3, <1>4, <1>5

\* A row that is not kept has k rows before it: the query does not return it.
LEMMA DroppedIsLow ==
    ASSUME data \in Inputs, NEW st \in States, NEW S \in SUBSET Rows,
           NEW first \in BOOLEAN, NEW r \in S,
           Witnessed(st), NotBelow(st, S), ~Keeps(st, first, r)
    PROVE  r \notin TopK(data, Rows, predicate)
<1>1. /\ data[r].part = st.partition /\ data[r].value # st.order_by
      /\ ~(st.order_by_count < predicate)
  BY AllColumns, Extracted DEF Keeps, IsNew, SameOrder
<1>2. /\ data[r].value \in Nat /\ st.order_by \in Nat
      /\ st.order_by_count \in Nat /\ predicate \in Nat
  BY AllColumns, NumbersAssumption DEF States
<1>3. data[r].value > st.order_by
  BY <1>1, <1>2 DEF NotBelow
<1>4. PICK W \in SUBSET Rows :
         /\ Cardinality(W) = st.order_by_count
         /\ \A w \in W : /\ data[w].part = st.partition
                         /\ data[w].value <= st.order_by
  BY DEF Witnessed
<1>5. W \subseteq Smaller(data, Rows, r)
  <2> SUFFICES ASSUME NEW w \in W PROVE w \in Smaller(data, Rows, r)
    OBVIOUS
  <2>1. data[w].value \in Nat
    BY AllColumns
  <2> QED BY <1>1, <1>2, <1>3, <1>4, <2>1 DEF Smaller
<1>6. IsFiniteSet(Smaller(data, Rows, r))
  BY RowsAssumption, FS_Subset DEF Smaller
<1>7. /\ Cardinality(Smaller(data, Rows, r)) \in Nat
      /\ Cardinality(W) <= Cardinality(Smaller(data, Rows, r))
  BY <1>5, <1>6, FS_Subset, FS_CardinalityType
<1> QED BY <1>1, <1>2, <1>4, <1>7 DEF TopK, Rank

-----------------------------------------------------------------------------
\* At the start every row is still to be read.
LEMMA InvInit == Init => Inv
<1> SUFFICES ASSUME Init PROVE Inv
  OBVIOUS
<1>1. data \in Inputs /\ NumRuns \in Nat
  BY NumbersAssumption DEF Init
<1>2. Typed
  BY <1>1, ZeroState DEF Init, Typed
<1>3. StatesOK
  BY <1>1, ZeroState DEF Init, StatesOK
<1>4. Rows \subseteq Alive
  <2> SUFFICES ASSUME NEW r \in Rows PROVE r \in Unmerged
    BY DEF Alive
  <2>1. data[r].merge \in Nat
    BY <1>1, AllColumns
  <2> QED BY <2>1 DEF Init, Unmerged
<1>5. TopAlive
  BY <1>4 DEF TopAlive, TopK
<1> QED BY <1>2, <1>3, <1>5 DEF Inv

\* Every action of the merger keeps the types.
LEMMA TypedNext == Inv /\ [Next]_vars => Typed'
<1> SUFFICES ASSUME Inv, [Next]_vars PROVE Typed'
  OBVIOUS
<1> USE DEF Inv, Typed
<1>0. NumRuns \in Nat /\ data \in Inputs
  BY NumbersAssumption
<1>1. CASE UNCHANGED vars
  BY <1>1 DEF vars, copy_vars, scan_vars
<1>2. CASE StartPartition
  BY <1>0, <1>2, ZeroState DEF StartPartition
<1>3. CASE StartRun
  BY <1>0, <1>3, ZeroState DEF StartRun, scan_vars, RunRows
<1>4. CASE EndRun
  BY <1>0, <1>4 DEF EndRun, scan_vars
<1>5. CASE StartScan
  BY <1>5 DEF StartScan, copy_vars
<1>6. CASE EndChunk
  BY <1>6 DEF EndChunk, copy_vars
<1>7. CASE EndPartition
  BY <1>7 DEF EndPartition, copy_vars
<1>8. ASSUME NEW r \in Rows, CopyRow(r) PROVE Typed'
  <2>1. r \in unread
    BY <1>8 DEF CopyRow, IsNext
  <2>2. After(run_state, begin, r) \in States
    BY <1>0, <1>8, <2>1, AfterOK DEF CopyRow, StatesOK
  <2> QED BY <1>8, <2>2 DEF CopyRow, scan_vars
<1>9. ASSUME NEW r \in Rows, SkipRow(r) PROVE Typed'
  BY <1>9 DEF SkipRow, scan_vars
<1>10. ASSUME NEW r \in Rows, ScanRow(r) PROVE Typed'
  <2>1. r \in merged
    BY <1>10 DEF ScanRow, Scan, IsNext
  <2>2. After(scan_state, BeginOfScan, r) \in States
    BY <1>0, <1>10, <2>1, AfterOK DEF ScanRow, Scan, StatesOK, BeginOfScan
  <2> QED BY <1>10, <2>2 DEF ScanRow, Scan, copy_vars
<1>11. ASSUME NEW r \in Rows, DropRow(r) PROVE Typed'
  BY <1>11 DEF DropRow, Scan, copy_vars
<1> QED BY <1>1, <1>2, <1>3, <1>4, <1>5, <1>6, <1>7, <1>8, <1>9, <1>10, <1>11
        DEF Next

\* Every action keeps the witnesses of both loops.
LEMMA StatesNext == Inv /\ [Next]_vars => StatesOK'
<1> SUFFICES ASSUME Inv, [Next]_vars PROVE StatesOK'
  OBVIOUS
<1>0. data \in Inputs /\ data' = data /\ StatesOK /\ Typed
  BY DEF Inv, Typed, Next, vars, StartPartition, StartRun, EndRun, StartScan,
     EndChunk, EndPartition, CopyRow, SkipRow, ScanRow, DropRow, Scan
<1>1. /\ run_state' = run_state => Witnessed(run_state)'
      /\ scan_state' = scan_state => Witnessed(scan_state)'
  BY <1>0 DEF Witnessed, StatesOK
<1>2. /\ run_state' = run_state /\ unread' \subseteq unread
            => NotBelow(run_state, unread)'
      /\ scan_state' = scan_state /\ merged' \subseteq merged
            => NotBelow(scan_state, merged)'
  BY <1>0 DEF NotBelow, StatesOK
<1>3. ASSUME run_state' = run_state, unread' \subseteq unread,
             scan_state' = scan_state, merged' \subseteq merged,
             pc' \in {"Run", "Copy"} => pc \in {"Run", "Copy"},
             pc' = "Partition" => merged' = {}
      PROVE  StatesOK'
  BY <1>0, <1>1, <1>2, <1>3 DEF StatesOK
<1>4. ASSUME scan_state' = State(0, 0, 0), merged' \in SUBSET Rows
      PROVE  Witnessed(scan_state)' /\ NotBelow(scan_state, merged)'
  <2>1. Witnessed(State(0, 0, 0)) /\ NotBelow(State(0, 0, 0), merged')
    BY <1>0, <1>4, ZeroState
  <2> QED BY <1>0, <1>4, <2>1 DEF Witnessed, NotBelow
<1>5. CASE UNCHANGED vars
  BY <1>0, <1>3, <1>5 DEF vars, copy_vars, scan_vars, StatesOK
<1>6. CASE StartPartition
  BY <1>0, <1>1, <1>2, <1>4, <1>6 DEF StartPartition, StatesOK
<1>7. CASE StartRun
  <2>1. unread' \in SUBSET Rows /\ run_state' = State(0, 0, 0)
    BY <1>7 DEF StartRun, RunRows
  <2>2. /\ Witnessed(State(0, 0, 0)) /\ NotBelow(State(0, 0, 0), unread')
    BY <1>0, <2>1, ZeroState
  <2>3. Witnessed(run_state)' /\ NotBelow(run_state, unread)'
    BY <1>0, <2>1, <2>2 DEF Witnessed, NotBelow
  <2>4. merged' = merged /\ scan_state' = scan_state /\ pc = "Run" /\ pc' = "Copy"
    BY <1>7 DEF StartRun, scan_vars
  <2> QED BY <1>0, <1>1, <1>2, <2>3, <2>4 DEF StatesOK
<1>8. CASE EndRun
  BY <1>3, <1>8 DEF EndRun, scan_vars
<1>9. CASE StartScan
  BY <1>3, <1>9 DEF StartScan, copy_vars
<1>10. CASE EndChunk
  BY <1>3, <1>10 DEF EndChunk, ChunkEnds, copy_vars
<1>11. CASE EndPartition
  <2>1. merged = {}
    BY <1>11, NumbersAssumption DEF EndPartition, ChunkEnds
  <2> QED BY <1>3, <1>11, <2>1 DEF EndPartition, copy_vars
<1>12. ASSUME NEW r \in Rows, CopyRow(r) PROVE StatesOK'
  <2>1. r \in unread /\ begin \in BOOLEAN
    BY <1>12, <1>0 DEF CopyRow, IsNext, Typed
  <2>2. /\ Witnessed(After(run_state, begin, r))
        /\ NotBelow(After(run_state, begin, r), unread \ {r})
    BY <1>0, <1>12, <2>1, AfterOK DEF CopyRow, StatesOK, Typed
  <2>3. /\ run_state' = After(run_state, begin, r) /\ unread' = unread \ {r}
        /\ scan_state' = scan_state /\ merged' = merged \cup {r}
        /\ pc = "Copy" /\ pc' = "Copy"
    BY <1>12 DEF CopyRow, scan_vars
  <2>4. Witnessed(run_state)' /\ NotBelow(run_state, unread)'
    <3> DEFINE new == After(run_state, begin, r)
    <3>1. run_state' = new /\ Witnessed(new) /\ NotBelow(new, unread \ {r})
      BY <2>2, <2>3
    <3> HIDE DEF new
    <3> QED BY <1>0, <2>3, <3>1 DEF Witnessed, NotBelow
  <2>5. scan_state' = State(0, 0, 0) /\ merged' \in SUBSET Rows
    BY <1>0, <2>3 DEF StatesOK, Typed
  <2> QED BY <1>4, <2>3, <2>4, <2>5 DEF StatesOK
<1>13. ASSUME NEW r \in Rows, SkipRow(r) PROVE StatesOK'
  BY <1>3, <1>13 DEF SkipRow, scan_vars
<1>14. ASSUME NEW r \in Rows, ScanRow(r) PROVE StatesOK'
  <2>1. r \in merged /\ BeginOfScan \in BOOLEAN
    BY <1>14 DEF ScanRow, Scan, IsNext, BeginOfScan
  <2> DEFINE new == After(scan_state, BeginOfScan, r)
  <2>2. Witnessed(new) /\ NotBelow(new, merged \ {r})
    BY <1>0, <1>14, <2>1, AfterOK DEF ScanRow, Scan, StatesOK, Typed
  <2>3. /\ scan_state' = new /\ merged' = merged \ {r}
        /\ run_state' = run_state /\ unread' = unread
        /\ pc = "Scan" /\ pc' = "Scan"
    BY <1>14 DEF ScanRow, Scan, copy_vars
  <2> HIDE DEF new
  <2>4. Witnessed(scan_state)' /\ NotBelow(scan_state, merged)'
    BY <1>0, <2>2, <2>3 DEF Witnessed, NotBelow
  <2> QED BY <1>1, <1>2, <2>3, <2>4 DEF StatesOK
<1>15. ASSUME NEW r \in Rows, DropRow(r) PROVE StatesOK'
  BY <1>3, <1>15 DEF DropRow, Scan, copy_vars
<1> QED BY <1>5, <1>6, <1>7, <1>8, <1>9, <1>10, <1>11, <1>12, <1>13, <1>14,
           <1>15 DEF Next

\* Every action keeps the rows that the query returns.
LEMMA AliveNext == Inv /\ [Next]_vars => TopAlive'
<1> SUFFICES ASSUME Inv, [Next]_vars PROVE TopAlive'
  OBVIOUS
<1>0. /\ data \in Inputs /\ data' = data /\ StatesOK /\ Typed
      /\ NumRuns \in Nat
  BY NumbersAssumption
  DEF Inv, Typed, Next, vars, StartPartition, StartRun, EndRun, StartScan,
     EndChunk, EndPartition, CopyRow, SkipRow, ScanRow, DropRow, Scan
<1>1. TopK(data, Rows, predicate) \subseteq Alive
  BY DEF Inv, TopAlive
<1>2. ASSUME Alive \subseteq Alive' PROVE TopAlive'
  BY <1>0, <1>1, <1>2 DEF TopAlive
<1>3. ASSUME NEW r \in Rows, r \notin TopK(data, Rows, predicate),
             Alive \subseteq Alive' \cup {r}
      PROVE  TopAlive'
  BY <1>0, <1>1, <1>3 DEF TopAlive
<1>4. \A r \in Rows : /\ data[r].run \in 0 .. NumRuns - 1
                      /\ data[r].merge \in Nat
  BY <1>0, AllColumns
<1> USE DEF Alive, Unmerged
<1>5. CASE UNCHANGED vars
  BY <1>0, <1>2, <1>5 DEF vars, copy_vars, scan_vars
<1>6. CASE StartPartition
  <2>1. merged = {}
    BY <1>0, <1>6 DEF StartPartition, StatesOK
  <2> QED BY <1>0, <1>2, <1>4, <1>6, <2>1 DEF StartPartition
<1>7. CASE StartRun
  BY <1>0, <1>2, <1>4, <1>7 DEF StartRun, RunRows, scan_vars, Typed
<1>8. CASE EndRun
  BY <1>0, <1>2, <1>4, <1>8 DEF EndRun, scan_vars, Typed
<1>9. CASE StartScan
  BY <1>0, <1>2, <1>4, <1>9 DEF StartScan, copy_vars, Typed
<1>10. CASE EndChunk
  BY <1>0, <1>2, <1>10 DEF EndChunk, ChunkEnds, copy_vars
<1>11. CASE EndPartition
  BY <1>0, <1>2, <1>4, <1>11 DEF EndPartition, ChunkEnds, copy_vars, Typed
<1>12. ASSUME NEW r \in Rows, CopyRow(r) PROVE TopAlive'
  BY <1>0, <1>2, <1>12 DEF CopyRow, scan_vars
<1>13. ASSUME NEW r \in Rows, SkipRow(r) PROVE TopAlive'
  <2>1. r \in unread /\ begin \in BOOLEAN /\ ~Keeps(run_state, begin, r)
    BY <1>0, <1>13 DEF SkipRow, IsNext, Typed
  <2>2. r \notin TopK(data, Rows, predicate)
    BY <1>0, <2>1, DroppedIsLow DEF StatesOK, Typed
  <2> QED BY <1>0, <1>3, <1>13, <2>2 DEF SkipRow, scan_vars
<1>14. ASSUME NEW r \in Rows, ScanRow(r) PROVE TopAlive'
  BY <1>0, <1>2, <1>14 DEF ScanRow, Scan, copy_vars
<1>15. ASSUME NEW r \in Rows, DropRow(r) PROVE TopAlive'
  <2>1. r \in merged /\ ~Keeps(scan_state, BeginOfScan, r)
    BY <1>15 DEF DropRow, Scan, IsNext
  <2>2. r \notin TopK(data, Rows, predicate)
    BY <1>0, <2>1, DroppedIsLow DEF StatesOK, Typed, BeginOfScan
  <2> QED BY <1>0, <1>3, <1>15, <2>2 DEF DropRow, Scan, copy_vars
<1> QED BY <1>5, <1>6, <1>7, <1>8, <1>9, <1>10, <1>11, <1>12, <1>13, <1>14,
           <1>15 DEF Next

\* The invariant is inductive.
LEMMA InvNext == Inv /\ [Next]_vars => Inv'
  BY TypedNext, StatesNext, AliveNext DEF Inv

\* The invariant implies the property.
LEMMA InvExact == Inv => MergePruningIsExact
<1> SUFFICES ASSUME Inv PROVE MergePruningIsExact
  OBVIOUS
<1>1. Alive \in SUBSET Rows
  BY DEF Inv, Typed, Alive, Unmerged
<1>2. \A x \in Rows : data[x].value \in Int
  BY AllColumns DEF Inv, Typed
<1>3. predicate \in Nat /\ TopK(data, Rows, predicate) \subseteq Alive
  BY NumbersAssumption DEF Inv, TopAlive
<1> QED BY <1>1, <1>2, <1>3, RowsAssumption, PruningSound
        DEF MergePruningIsExact

\* Merge pruning drops no row that the query returns (TemplatedMergePartition and
\* TemplatedScanPartition): for any rows, runs, merge partitions, chunk size, k
\* and byte width.
THEOREM MergePruningExact == Spec => []MergePruningIsExact
<1>1. Init => Inv
  BY InvInit
<1>2. Inv /\ [Next]_vars => Inv'
  BY InvNext
<1>3. Inv => MergePruningIsExact
  BY InvExact
<1> QED BY <1>1, <1>2, <1>3, PTL DEF Spec

-----------------------------------------------------------------------------
(***************************************************************************)
(* Merge pruning implements RankQuery.                                     *)
(***************************************************************************)
\* A step drops rows or returns rows, and never both.
LEMMA StepShrinks ==
    Inv /\ [Next]_vars =>
       /\ data' = data
       /\ Alive' \subseteq Alive
       /\ output \subseteq output'
       /\ (output' = output) \/ (Alive' = Alive)
<1>0. SUFFICES ASSUME Inv, [Next]_vars
               PROVE  /\ data' = data
                      /\ Alive' \subseteq Alive
                      /\ output \subseteq output'
                      /\ (output' = output) \/ (Alive' = Alive)
  OBVIOUS
<1>1. Typed /\ StatesOK /\ data \in Inputs
  BY <1>0 DEF Inv, Typed
<1>2. \A r \in Rows : /\ data[r].run \in 0 .. NumRuns - 1
                      /\ data[r].merge \in Nat
  BY <1>1, AllColumns
<1> USE DEF Alive, Unmerged
<1>5. CASE UNCHANGED vars
  BY <1>1, <1>5 DEF vars, copy_vars, scan_vars
<1>6. CASE StartPartition
  <2>1. merged = {}
    BY <1>1, <1>6 DEF StartPartition, StatesOK
  <2> QED BY <1>1, <1>2, <1>6, <2>1 DEF StartPartition
<1>7. CASE StartRun
  BY <1>1, <1>2, <1>7 DEF StartRun, RunRows, scan_vars, Typed
<1>8. CASE EndRun
  BY <1>1, <1>2, <1>8 DEF EndRun, scan_vars, Typed
<1>9. CASE StartScan
  BY <1>1, <1>2, <1>9 DEF StartScan, copy_vars, Typed
<1>10. CASE EndChunk
  BY <1>1, <1>10 DEF EndChunk, ChunkEnds, copy_vars
<1>11. CASE EndPartition
  BY <1>1, <1>2, <1>11 DEF EndPartition, ChunkEnds, copy_vars, Typed
<1>12. ASSUME NEW r \in Rows, CopyRow(r)
       PROVE  data' = data /\ Alive' \subseteq Alive /\ output' = output
  BY <1>1, <1>12 DEF CopyRow, IsNext, scan_vars
<1>13. ASSUME NEW r \in Rows, SkipRow(r)
       PROVE  data' = data /\ Alive' \subseteq Alive /\ output' = output
  BY <1>1, <1>13 DEF SkipRow, scan_vars
<1>14. ASSUME NEW r \in Rows, ScanRow(r)
       PROVE  data' = data /\ Alive' = Alive /\ output \subseteq output'
  BY <1>1, <1>14 DEF ScanRow, Scan, IsNext, copy_vars
<1>15. ASSUME NEW r \in Rows, DropRow(r)
       PROVE  data' = data /\ Alive' \subseteq Alive /\ output' = output
  BY <1>1, <1>15 DEF DropRow, Scan, copy_vars
<1> HIDE DEF Alive, Unmerged
<1> QED BY <1>0, <1>5, <1>6, <1>7, <1>8, <1>9, <1>10, <1>11, <1>12, <1>13,
           <1>14, <1>15 DEF Next

\* RankQuery has its own instance of RankPruning.
LEMMA QueryAnswer ==
    ASSUME NEW d, NEW S, NEW K, NEW n, SameAnswer(d, S, K, n)
    PROVE  Query!SameAnswer(d, S, K, n)
<1>1. \A T : Query!Cardinality(T) = Cardinality(T)
  BY DEF Cardinality, Query!Cardinality
<1>2. \A T, r : Query!Rank(d, T, r) = Rank(d, T, r)
  BY <1>1 DEF Rank, Smaller, Query!Rank, Query!Smaller
<1>3. \A T : Query!TopK(d, T, n) = TopK(d, T, n)
  BY <1>2 DEF TopK, Query!TopK
<1> QED BY <1>2, <1>3 DEF SameAnswer, Query!SameAnswer

\* Every step is one that RankQuery allows, or none.
LEMMA QueryStep ==
    Inv /\ Inv' /\ [Next]_vars => [Query!Next]_<<data, Alive, output>>
<1>0. SUFFICES ASSUME Inv, Inv', [Next]_vars
               PROVE  [Query!Next]_<<data, Alive, output>>
  OBVIOUS
<1>1. MergePruningIsExact'
  BY <1>0, InvExact, PTL
<1>2. Query!SameAnswer(data', Rows, Alive', predicate)
  BY <1>1, QueryAnswer DEF MergePruningIsExact
<1>3. output \subseteq Alive /\ output' \subseteq Alive'
  BY DEF Alive
<1>4. /\ data' = data
      /\ Alive' \subseteq Alive
      /\ output \subseteq output'
      /\ (output' = output) \/ (Alive' = Alive)
  BY <1>0, StepShrinks
<1>5. CASE Alive' = Alive
  <2>1. Query!Pass
    BY <1>3, <1>4, <1>5 DEF Query!Pass
  <2> QED BY <2>1 DEF Query!Next
<1>6. CASE Alive' # Alive
  <2>1. Query!Drop
    BY <1>2, <1>3, <1>4, <1>6 DEF Query!Drop
  <2> QED BY <2>1 DEF Query!Next
<1> QED BY <1>5, <1>6

\* Merge pruning implements the query: whatever the merger does in a step, it
\* passes rows on or drops rows that do not count, and never a row that it has
\* returned (TemplatedMergePartition and TemplatedScanPartition).
THEOREM MergeImplementsQuery == Spec => ImplementsQuery
<1>1. Init => Query!Init
  <2> SUFFICES ASSUME Init PROVE Query!Init
    OBVIOUS
  <2>1. \A r \in Rows : data[r].merge \in Nat
    BY InvInit, AllColumns DEF Inv, Typed
  <2>2. Alive = Rows
    BY <2>1 DEF Init, Alive, Unmerged
  <2> QED BY <2>2 DEF Init, Query!Init
<1>2. Init => Inv
  BY InvInit
<1>3. Inv /\ [Next]_vars => Inv'
  BY InvNext
<1>4. Inv /\ Inv' /\ [Next]_vars => [Query!Next]_<<data, Alive, output>>
  BY QueryStep
<1> QED BY <1>1, <1>2, <1>3, <1>4, PTL
        DEF Spec, ImplementsQuery, Query!Spec, Query!query_vars
-----------------------------------------------------------------------------
(***************************************************************************)
(* How much is pruned.  The scan returns the rows of a merge partition in  *)
(* the order of their keys, so that the window partition of its state is   *)
(* the last one it returned rows of, and order_by_count counts the values  *)
(* it returned of it.                                                      *)
(***************************************************************************)
Values(p, w) ==
    {data[r].value : r \in {q \in output : data[q].merge = p /\ data[q].part = w}}

\* The scan of the merge partition has read a row.
Scanned == pc = "Scan" /\ ~BeginOfScan

Counters ==
    /\ i \in Nat /\ merged_partition_index \in Nat /\ skipped_tuples \in Nat
    /\ count <= i /\ count <= VectorSize
    /\ pc \in {"Run", "Copy"} => merged_partition_index = 0
    /\ partition_idx <= NumPartitions
    /\ pc # "Partition" => partition_idx < NumPartitions

\* Rows are copied from the merge partition, and returned in its turn.
RowsInTurn ==
    /\ \A r \in merged : data[r].merge = partition_idx
    /\ pc = "Copy" => \A r \in unread : data[r].merge = partition_idx
    /\ \A r \in output : data[r].merge <= partition_idx
    /\ ~Scanned => \A r \in output : data[r].merge < partition_idx

\* What the state of the scan knows of the rows returned.
StateCounts ==
    LET w == scan_state.partition IN
    Scanned =>
       /\ \A r \in merged : data[r].part >= w
       /\ \A r \in output : data[r].merge = partition_idx => data[r].part <= w
       /\ scan_state.order_by \in Values(partition_idx, w)
       /\ Cardinality(Values(partition_idx, w)) <= scan_state.order_by_count
       /\ scan_state.order_by_count <= predicate

PruneInv == Inv /\ Counters /\ RowsInTurn /\ StateCounts /\ PrunesFully

\* Rows are in the order of their window partitions.
LEMMA PartOrder ==
    ASSUME NEW r \in Rows, NEW s \in Rows, Columns(r), Columns(s), data[s].part < data[r].part
    PROVE  KeyLess(s, r)
<1> DEFINE p == data[r].part
           q == data[s].part
           h == data[r].value \div Two
           g == data[s].value \div Two
           k == data[s].value % Two
           u == data[s].value
<1>1. p \in Nat /\ q \in Nat /\ q < p /\ data[r].value \in Nat /\ u \in Nat /\ u < Three * Two
  BY Widths DEF Columns, Five
<1>2. h \in Nat /\ g \in Nat /\ k \in Nat /\ u = Two * g + k
  <2>1. g \in Nat /\ k \in 0 .. Two - 1 /\ u = Two * g + k
    BY <1>1, Widths, DivMod
  <2>2. h \in Nat
    BY <1>1, Widths, DivMod
  <2>3. \A x \in 0 .. Two - 1 : x \in Nat
    OBVIOUS
  <2> QED BY <2>1, <2>2, <2>3
<1>3. part0(r) = p * Three + h /\ part0(s) = q * Three + g
  BY DEF part0
<1> HIDE DEF p, q, h, g, k, u
<1>4. g < Three
  <2>1. SUFFICES ASSUME g >= Three PROVE FALSE
    BY <1>2, Widths
  <2>2. Two * g >= Two * Three
    BY <1>2, <2>1, Widths, SMT
  <2>3. Two * Three = Three * Two /\ Two * g \in Nat /\ Two * Three \in Nat
    BY <1>2, Widths, SMT
  <2> QED BY <1>1, <1>2, <2>2, <2>3
<1>5. p * Three >= (q + 1) * Three
  BY <1>1, Widths, SMT
<1>6. (q + 1) * Three = q * Three + Three
  BY <1>1, Widths, SMT
<1>7. p * Three \in Nat /\ q * Three \in Nat
  BY <1>1, Widths, SMT
<1>8. q * Three + g < p * Three + h
  BY <1>2, <1>4, <1>5, <1>6, <1>7, Widths
<1> QED BY <1>3, <1>8 DEF KeyLess

\* The values returned of a window partition are finitely many.
LEMMA ValuesFinite ==
    ASSUME Typed, NEW p, NEW w
    PROVE  IsFiniteSet(Values(p, w)) /\ Cardinality(Values(p, w)) \in Nat
<1>1. Values(p, w) \subseteq 0 .. Five - 1
  BY AllColumns DEF Typed, Values, Columns
<1>2. Five - 1 \in Int
  BY Widths
<1> DEFINE top == Five - 1
<1> HIDE DEF top
<1>3. IsFiniteSet(0 .. top)
  BY <1>2, FS_Interval DEF top
<1>4. IsFiniteSet(Values(p, w))
  BY <1>1, <1>3, FS_Subset DEF top
<1> QED BY <1>4, FS_CardinalityType

\* Before the first row nothing was returned.
LEMMA PruneInvInit == Init => PruneInv
<1> SUFFICES ASSUME Init PROVE PruneInv
  OBVIOUS
<1>1. Counters
  BY NumbersAssumption DEF Init, Counters
<1>2. RowsInTurn /\ StateCounts
  BY DEF Init, RowsInTurn, StateCounts, Scanned
<1>3. \A p, w : Values(p, w) = {}
  BY DEF Init, Values
<1>4. PrunesFully
  BY <1>3, NumbersAssumption, FS_EmptySet DEF PrunesFully, Values
<1> QED BY <1>1, <1>2, <1>4, InvInit DEF PruneInv

\* No action touches the rows.
LEMMA DataKept == [Next]_vars => data' = data
  BY DEF Next, vars, StartPartition, StartRun, EndRun, StartScan, EndChunk, EndPartition,
         CopyRow, SkipRow, ScanRow, DropRow, Scan

\* Every action keeps the counters: a chunk has no more rows than were read for it.
LEMMA CountersNext == PruneInv /\ [Next]_vars => Counters'
<1> SUFFICES ASSUME PruneInv, [Next]_vars PROVE Counters'
  OBVIOUS
<1>0. /\ NumPartitions \in Nat /\ VectorSize \in Nat \ {0}
      /\ partition_idx \in Nat /\ count \in Nat
      /\ i \in Nat /\ merged_partition_index \in Nat /\ skipped_tuples \in Nat
      /\ count <= i /\ count <= VectorSize /\ partition_idx <= NumPartitions
      /\ pc \in {"Run", "Copy"} => merged_partition_index = 0
      /\ pc # "Partition" => partition_idx < NumPartitions
  BY NumbersAssumption DEF PruneInv, Inv, Typed, Counters
<1> USE DEF Counters, copy_vars, scan_vars
<1>1. CASE UNCHANGED vars
  BY <1>0, <1>1 DEF vars
<1>2. CASE StartPartition
  BY <1>0, <1>2 DEF StartPartition
<1>3. CASE StartRun \/ EndRun \/ StartScan
  BY <1>0, <1>3 DEF StartRun, EndRun, StartScan
<1>4. CASE EndChunk
  BY <1>0, <1>4 DEF EndChunk, ChunkEnds
<1>5. CASE EndPartition
  BY <1>0, <1>5 DEF EndPartition, ChunkEnds
<1>6. ASSUME NEW r \in Rows, CopyRow(r) \/ SkipRow(r) PROVE Counters'
  BY <1>0, <1>6 DEF CopyRow, SkipRow
<1>7. ASSUME NEW r \in Rows, ScanRow(r) \/ DropRow(r) PROVE Counters'
  BY <1>0, <1>7 DEF ScanRow, DropRow, Scan, ChunkHasRoom
<1> QED BY <1>1, <1>2, <1>3, <1>4, <1>5, <1>6, <1>7 DEF Next

\* A row that is not kept is not the first.
LEMMA FirstIsKept ==
    ASSUME NEW r, DropRow(r)
    PROVE  ~BeginOfScan
  BY DEF DropRow, Keeps, IsNew

\* Whether the scan has read a row, after each action.
LEMMA ScannedNext ==
    ASSUME PruneInv, [Next]_vars
    PROVE  /\ (\E r \in Rows : ScanRow(r)) => Scanned'
           /\ ~(\E r \in Rows : ScanRow(r)) /\ ~EndPartition => (Scanned' <=> Scanned)
           /\ EndPartition => ~Scanned'
<1>0. i \in Nat /\ merged_partition_index \in Nat /\ count \in Nat /\ count <= i
      /\ (pc \in {"Run", "Copy"} => merged_partition_index = 0)
  BY DEF PruneInv, Counters, Inv, Typed
<1> USE DEF Scanned, BeginOfScan, copy_vars, scan_vars
<1>1. ASSUME NEW r \in Rows, ScanRow(r) \/ DropRow(r) PROVE Scanned'
  BY <1>0, <1>1 DEF ScanRow, DropRow, Scan
<1>2. ASSUME NEW r \in Rows, DropRow(r) PROVE Scanned
  BY <1>2, FirstIsKept DEF DropRow, Scan
<1>3. CASE StartPartition \/ StartRun \/ EndRun \/ UNCHANGED vars
  BY <1>3 DEF StartPartition, StartRun, EndRun, vars, ScanRow, Scan, EndPartition, ChunkEnds
<1>4. CASE StartScan
  BY <1>0, <1>4 DEF StartScan, ScanRow, Scan, EndPartition, ChunkEnds
<1>5. CASE EndChunk
  BY <1>0, <1>5 DEF EndChunk, ChunkEnds, EndPartition, ScanRow, Scan
<1>6. CASE EndPartition
  BY <1>6 DEF EndPartition, ScanRow, Scan
<1>7. ASSUME NEW r \in Rows, CopyRow(r) \/ SkipRow(r)
      PROVE  ~Scanned /\ ~Scanned'
  BY <1>7 DEF CopyRow, SkipRow
<1>8. EndPartition => ~Scanned'
  BY DEF EndPartition
<1> QED BY <1>1, <1>2, <1>3, <1>4, <1>5, <1>6, <1>7, <1>8 DEF Next

\* Every action copies rows of its merge partition and returns them in its turn.
LEMMA TurnNext == PruneInv /\ [Next]_vars => RowsInTurn'
<1> SUFFICES ASSUME PruneInv, [Next]_vars PROVE RowsInTurn'
  OBVIOUS
<1>0. /\ data' = data /\ RowsInTurn /\ partition_idx \in Nat
      /\ unread \subseteq Rows /\ merged \subseteq Rows /\ output \subseteq Rows
      /\ \A r \in Rows : data[r].merge \in Nat
  BY DataKept, AllColumns DEF PruneInv, Inv, Typed
<1> USE DEF copy_vars, scan_vars
<1>1. ASSUME UNCHANGED partition_idx, merged' \subseteq merged, Scanned' <=> Scanned,
             output' = output,
             pc' = "Copy" => \A r \in unread' : data[r].merge = partition_idx
      PROVE  RowsInTurn'
  BY <1>0, <1>1 DEF RowsInTurn
<1>2. CASE UNCHANGED vars
  BY <1>0, <1>1, <1>2, ScannedNext DEF vars, RowsInTurn, ScanRow, Scan, EndPartition, ChunkEnds,
     Scanned, BeginOfScan
<1>3. CASE StartPartition
  <2>1. ~(\E r \in Rows : ScanRow(r)) /\ ~EndPartition
    BY <1>3 DEF StartPartition, ScanRow, Scan, EndPartition, ChunkEnds
  <2> QED BY <1>1, <1>3, <2>1, ScannedNext DEF StartPartition
<1>4. CASE StartRun
  <2>1. ~(\E r \in Rows : ScanRow(r)) /\ ~EndPartition
    BY <1>4 DEF StartRun, ScanRow, Scan, EndPartition, ChunkEnds
  <2> QED BY <1>1, <1>4, <2>1, ScannedNext DEF StartRun, RunRows
<1>5. CASE EndRun \/ StartScan
  <2>1. ~(\E r \in Rows : ScanRow(r)) /\ ~EndPartition
    BY <1>5 DEF EndRun, StartScan, ScanRow, Scan, EndPartition, ChunkEnds
  <2> QED BY <1>1, <1>5, <2>1, ScannedNext DEF EndRun, StartScan
<1>6. CASE EndChunk
  <2>1. pc = "Scan" /\ ~Scanned => i = 0
    BY DEF Scanned, BeginOfScan
  <2>2. UNCHANGED <<pc, partition_idx, merged, output>> /\ pc = "Scan" /\ count # 0
    BY <1>6 DEF EndChunk, ChunkEnds
  <2>3. count \in Nat /\ i \in Nat /\ count <= i
    BY DEF PruneInv, Counters, Inv, Typed
  <2>4. Scanned
    BY <2>1, <2>2, <2>3
  <2>5. Scanned'
    BY <1>6, <2>2, <2>3 DEF EndChunk, Scanned, BeginOfScan, PruneInv, Counters
  <2> QED BY <1>0, <2>2, <2>4, <2>5 DEF RowsInTurn
<1>7. CASE EndPartition
  <2>1. merged = {}
    BY <1>7, NumbersAssumption DEF EndPartition, ChunkEnds
  <2>2. /\ pc' = "Partition" /\ partition_idx' = partition_idx + 1
        /\ merged' = merged /\ output' = output
    BY <1>7 DEF EndPartition
  <2>3. ASSUME NEW r \in output PROVE data[r].merge < partition_idx + 1
    BY <1>0 DEF RowsInTurn
  <2> QED BY <1>0, <2>1, <2>2, <2>3 DEF RowsInTurn
<1>8. ASSUME NEW r \in Rows, CopyRow(r) \/ SkipRow(r) PROVE RowsInTurn'
  <2>1. pc = "Copy" /\ r \in unread /\ pc' = "Copy"
    BY <1>8 DEF CopyRow, SkipRow, IsNext
  <2>2. /\ unread' \subseteq unread /\ merged' \subseteq merged \cup {r}
        /\ UNCHANGED <<partition_idx, output>>
    BY <1>8 DEF CopyRow, SkipRow
  <2>3. ~Scanned /\ ~Scanned'
    BY <2>1 DEF Scanned
  <2> QED BY <1>0, <2>1, <2>2, <2>3 DEF RowsInTurn
<1>9. ASSUME NEW r \in Rows, ScanRow(r) \/ DropRow(r) PROVE RowsInTurn'
  <2>1. pc = "Scan" /\ r \in merged /\ pc' = "Scan"
    BY <1>9 DEF ScanRow, DropRow, Scan, IsNext
  <2>2. /\ merged' \subseteq merged /\ output' \subseteq output \cup {r}
        /\ UNCHANGED partition_idx
    BY <1>9 DEF ScanRow, DropRow, Scan
  <2>3. Scanned'
    <3>1. CASE ScanRow(r)
      BY <3>1, ScannedNext
    <3>2. CASE DropRow(r)
      BY <3>2 DEF DropRow, Scan, Scanned, BeginOfScan, PruneInv, Counters
    <3> QED BY <1>9, <3>1, <3>2
  <2> QED BY <1>0, <2>1, <2>2, <2>3 DEF RowsInTurn
<1> QED BY <1>2, <1>3, <1>4, <1>5, <1>6, <1>7, <1>8, <1>9 DEF Next

\* What the scan returns adds one value to one window partition.
LEMMA ScanValues ==
    ASSUME PruneInv, NEW r \in Rows, ScanRow(r), data' = data, NEW p, NEW w
    PROVE  Values(p, w)' = IF p = data[r].merge /\ w = data[r].part
                           THEN Values(p, w) \cup {data[r].value} ELSE Values(p, w)
  BY DEF ScanRow, Values

\* A row that is returned keeps the count of values of its window partition.
LEMMA ScanCounts ==
    ASSUME PruneInv, NEW r \in Rows, ScanRow(r), data' = data, Scanned'
    PROVE  StateCounts' /\ PrunesFully'
<1> PICK p, x, v, w, c :
       /\ p = partition_idx /\ x = data[r].part /\ v = data[r].value
       /\ w = scan_state.partition /\ c = scan_state.order_by_count
  OBVIOUS
<1>0. /\ data \in Inputs /\ Typed /\ RowsInTurn /\ predicate \in Nat \ {0}
      /\ w \in Nat /\ c \in Nat /\ scan_state.order_by \in Nat
  BY NumbersAssumption DEF PruneInv, Inv, Typed, States
<1>1. /\ r \in merged /\ (\A s \in merged : ~KeyLess(s, r)) /\ pc = "Scan"
      /\ merged' = merged \ {r} /\ output' = output \cup {r} /\ partition_idx' = p
      /\ Keeps(scan_state, BeginOfScan, r)
      /\ scan_state' = After(scan_state, BeginOfScan, r)
  BY DEF ScanRow, Scan, IsNext
<1>2. /\ extract_partition(r) = x /\ extract_order_by(r) = v
      /\ x \in Nat /\ v \in Nat /\ data[r].merge = p
  BY <1>0, <1>1, AllColumns, Extracted DEF RowsInTurn
<1>3. /\ scan_state'.partition = x /\ scan_state'.order_by = v
      /\ scan_state'.order_by_count = IF IsNew(scan_state, BeginOfScan, r) THEN 1
                                      ELSE IF SameOrder(scan_state, r) THEN c ELSE c + 1
  BY <1>1, <1>2 DEF After, State
<1>4. \A s \in merged : data[s].part >= x
  <2> SUFFICES ASSUME NEW s \in merged, ~(data[s].part >= x) PROVE FALSE
    OBVIOUS
  <2>1. s \in Rows
    BY <1>0 DEF Typed
  <2>2. Columns(r) /\ Columns(s) /\ data[s].part \in Nat
    BY <1>0, <2>1, AllColumns
  <2>3. data[s].part < data[r].part
    BY <1>2, <2>2
  <2> QED BY <1>1, <2>1, <2>2, <2>3, PartOrder
<1>5. /\ \A q \in output : data[q].merge = p => data[q].part <= x
      /\ Cardinality(Values(p, x)') <= scan_state'.order_by_count
      /\ scan_state'.order_by_count <= predicate
  <2>1. Values(p, x)' = Values(p, x) \cup {v}
    BY <1>2, ScanValues
  <2>2. CASE IsNew(scan_state, BeginOfScan, r)
    <3>1. \A q \in output : data[q].merge = p => data[q].part < x
      <4>1. CASE BeginOfScan
        BY <1>0, <1>2, <4>1, AllColumns DEF RowsInTurn, Scanned, Typed
      <4>2. CASE ~BeginOfScan
        <5>1. x # w
          BY <1>2, <2>2, <4>2 DEF IsNew
        <5>2. x >= w /\ \A q \in output : data[q].merge = p => data[q].part <= w
          BY <1>1, <4>2 DEF PruneInv, StateCounts, Scanned
        <5>3. \A q \in output : data[q].part \in Nat
          BY <1>0, AllColumns DEF Typed
        <5> QED BY <1>0, <1>2, <5>1, <5>2, <5>3
      <4> QED BY <4>1, <4>2
    <3>2. Values(p, x) = {}
      <4>1. \A q \in output : ~(data[q].merge = p /\ data[q].part = x)
        BY <1>2, <3>1
      <4> QED BY <4>1 DEF Values
    <3>3. Values(p, x)' = {v}
      BY <2>1, <3>2
    <3>4. Cardinality(Values(p, x)') = 1
      BY <3>3, FS_Singleton
    <3>5. \A q \in output : data[q].part \in Nat
      BY <1>0, AllColumns DEF Typed
    <3> QED BY <1>0, <1>2, <1>3, <2>2, <3>1, <3>4, <3>5
  <2>3. CASE ~IsNew(scan_state, BeginOfScan, r)
    <3>1. x = w /\ ~BeginOfScan
      BY <1>2, <2>3 DEF IsNew
    <3>2. /\ \A q \in output : data[q].merge = p => data[q].part <= w
          /\ scan_state.order_by \in Values(p, w)
          /\ Cardinality(Values(p, w)) <= c /\ c <= predicate
      BY <1>1, <3>1 DEF PruneInv, StateCounts, Scanned
    <3>3. IsFiniteSet(Values(p, w)) /\ Cardinality(Values(p, w)) \in Nat
      BY <1>0, ValuesFinite
    <3>4. CASE SameOrder(scan_state, r)
      <4>1. v = scan_state.order_by
        BY <1>2, <3>4 DEF SameOrder
      <4>2. Values(p, x)' = Values(p, w)
        BY <2>1, <3>1, <3>2, <4>1
      <4> QED BY <1>3, <2>3, <3>1, <3>2, <3>4, <4>2
    <3>5. CASE ~SameOrder(scan_state, r)
      <4>1. c < predicate
        BY <1>1, <2>3, <3>5 DEF Keeps
      <4>2. Cardinality(Values(p, w) \cup {v}) <= Cardinality(Values(p, w)) + 1
            /\ Cardinality(Values(p, w) \cup {v}) \in Nat
        <5>1. Cardinality(Values(p, w) \cup {v}) = IF v \in Values(p, w) THEN Cardinality(Values(p, w))
                                                   ELSE Cardinality(Values(p, w)) + 1
          BY <3>3, FS_AddElement
        <5> QED BY <3>3, <5>1
      <4>3. Values(p, x)' = Values(p, w) \cup {v}
        BY <2>1, <3>1
      <4>4. scan_state'.order_by_count = c + 1
        BY <1>3, <2>3, <3>5
      <4>5. Cardinality(Values(p, x)') <= c + 1
        BY <1>0, <3>2, <3>3, <4>2, <4>3
      <4>6. c + 1 <= predicate
        BY <1>0, <4>1
      <4> QED BY <3>1, <3>2, <4>4, <4>5, <4>6
    <3> QED BY <3>4, <3>5
  <2> QED BY <2>2, <2>3
<1>6. StateCounts'
  <2>1. \A s \in merged' : data'[s].part >= scan_state'.partition
    BY <1>1, <1>3, <1>4
  <2>2. \A q \in output' : data'[q].merge = partition_idx' => data'[q].part <= scan_state'.partition
    BY <1>1, <1>2, <1>3, <1>5
  <2>3. v \in Values(p, x)'
    BY <1>2, ScanValues
  <2>4. Values(partition_idx, scan_state.partition)' = Values(p, x)'
    BY <1>1, <1>3 DEF Values
  <2> QED BY <1>3, <1>5, <2>1, <2>2, <2>3, <2>4 DEF StateCounts
<1>7. PrunesFully'
  <2> SUFFICES ASSUME NEW q \in 0 .. NumPartitions - 1, NEW y \in {data'[s].part : s \in Rows}
               PROVE  Cardinality(Values(q, y)') <= predicate
    BY DEF PrunesFully, Values
  <2>1. y \in {data[s].part : s \in Rows}
    OBVIOUS
  <2>2. Cardinality(Values(q, y)') <= predicate
    <3>1. CASE q = p /\ y = x
      <4>1. /\ Values(q, y)' = Values(p, x) \cup {v} /\ IsFiniteSet(Values(p, x))
        BY <1>0, <1>2, <3>1, ScanValues, ValuesFinite
      <4>2. Cardinality(Values(q, y)') \in Nat
        BY <4>1, FS_AddElement, FS_CardinalityType
      <4>3. Values(q, y)' = Values(p, x)'
        BY <3>1, <1>2, <4>1, ScanValues
      <4>4. scan_state'.order_by_count \in Nat
        BY <1>0, <1>3
      <4> QED BY <1>0, <1>5, <4>2, <4>3, <4>4
    <3>2. CASE ~(q = p /\ y = x)
      <4>1. Values(q, y)' = Values(q, y)
        BY <1>2, <3>2, ScanValues
      <4>2. Cardinality(Values(q, y)) <= predicate
        BY <2>1 DEF PruneInv, PrunesFully, Values
      <4> QED BY <4>1, <4>2
    <3> QED BY <3>1, <3>2
  <2> QED BY <2>2
<1> QED BY <1>6, <1>7

\* Every other action leaves the rows returned and their count alone.
LEMMA CountsNext == PruneInv /\ [Next]_vars => StateCounts' /\ PrunesFully'
<1> SUFFICES ASSUME PruneInv, [Next]_vars PROVE StateCounts' /\ PrunesFully'
  OBVIOUS
<1>0. data' = data
  BY DataKept
<1> USE DEF copy_vars, scan_vars
<1>1. CASE \E r \in Rows : ScanRow(r)
  BY <1>0, <1>1, ScanCounts, ScannedNext
<1>2. CASE ~ \E r \in Rows : ScanRow(r)
  <2>1. output' = output
    BY <1>2 DEF Next, vars, StartPartition, StartRun, EndRun, StartScan, EndChunk, EndPartition,
                CopyRow, SkipRow, DropRow
  <2>2. PrunesFully'
    <3> SUFFICES ASSUME NEW q \in 0 .. NumPartitions - 1, NEW y \in {data'[s].part : s \in Rows}
                 PROVE  Cardinality(Values(q, y)') <= predicate
      BY DEF PrunesFully, Values
    <3>1. y \in {data[s].part : s \in Rows}
      BY <1>0
    <3>2. Values(q, y)' = Values(q, y)
      BY <1>0, <2>1 DEF Values
    <3>3. Cardinality(Values(q, y)) <= predicate
      BY <3>1 DEF PruneInv, PrunesFully, Values
    <3> QED BY <3>2, <3>3
  <2>3. ASSUME Scanned' PROVE StateCounts'
    <3>1. Scanned
      BY <1>2, <2>3, ScannedNext
    <3>2. merged' \subseteq merged /\ UNCHANGED <<scan_state, partition_idx>>
      <4>1. pc = "Scan"
        BY <3>1 DEF Scanned
      <4>2. UNCHANGED vars \/ EndChunk \/ EndPartition \/ \E r \in Rows : DropRow(r)
        BY <1>2, <4>1 DEF Next, StartPartition, StartRun, EndRun, StartScan, CopyRow, SkipRow
      <4>3. ~EndPartition
        BY <2>3, ScannedNext
      <4> QED BY <4>2, <4>3 DEF vars, EndChunk, DropRow, Scan
    <3>3. Values(partition_idx, scan_state.partition)' = Values(partition_idx, scan_state.partition)
      BY <1>0, <2>1, <3>2 DEF Values
    <3> QED BY <1>0, <2>1, <3>1, <3>2, <3>3 DEF PruneInv, StateCounts
  <2> QED BY <2>2, <2>3 DEF StateCounts
<1> QED BY <1>1, <1>2

\* So it is an invariant.
LEMMA PruneInvariant == Spec => []PruneInv
<1>1. PruneInv /\ [Next]_vars => PruneInv'
  BY InvNext, CountersNext, TurnNext, CountsNext DEF PruneInv
<1> QED BY <1>1, PruneInvInit, PTL DEF Spec

\* Every state of the merger is well typed: merge partitions, runs and chunks stay
\* within their bounds.
THEOREM MergeTypeCorrect == Spec => []TypeOK
<1>1. PruneInv => TypeOK
  BY AllColumns, NumbersAssumption DEF PruneInv, Inv, Typed, Counters, TypeOK
<1> QED BY <1>1, PruneInvariant, PTL

\* Merge pruning is as good as promised (TemplatedScanPartition): of a window
\* partition no merge partition returns more than k ORDER BY values, for any rows,
\* runs, merge partitions and chunk size.
THEOREM MergePrunesFully == Spec => []PrunesFully
<1>1. PruneInv => PrunesFully
  BY DEF PruneInv
<1> QED BY <1>1, PruneInvariant, PTL

=============================================================================
