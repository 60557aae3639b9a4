--------------------------- MODULE SortSink_proofs ---------------------------
(***************************************************************************)
(* The sink of a sort and the memory it is granted, for any number of      *)
(* threads and operators, any chunks and any memory limit.                 *)
(***************************************************************************)
EXTENDS SortSink, SharedTheorems

(***************************************************************************)
(* The parts of the inductive invariant.                                   *)
(***************************************************************************)
\* A state is granted at most what it asks for, and nothing if it is not active.
\* An active state has a minimum.
Granted ==
    \A s \in States : /\ reservation[s] <= remaining_size[s]
                      /\ s \notin active_states => reservation[s] = 0
                      /\ s \in active_states => minimum_reservation[s] # 0

\* The lock is held exactly between LockAndUpdate and TryIncreaseReservation.
LockHeld == \A t \in Threads : pc[t] = "Increase" <=> lock = t

\* What a thread that is about to add a run knows of the decision.
Decided ==
    /\ sorted_runs # << >> => external \/ any_combined
    /\ \A t \in Threads :
          /\ pc[t] = "Increase" => ~external
          /\ local_external[t] => external
          /\ pc[t] \in {"Finalize", "Add"} => external
          /\ pc[t] = "Add" => finalize_external[t]
          /\ pc[t] \in {"CombineFinalize", "CombineAdd"} => any_combined
          /\ pc[t] = "CombineAdd" => finalize_external[t] = external

\* A run that is not null has rows, and only a thread that gets chunks, or
\* hands one over, has one.
RunsHeld ==
    \A t \in Threads :
       /\ sorted_run[t].count = 0 <=> sorted_run[t] = NullRun
       /\ sorted_run[t].count # 0 => sorted_run[t].size # 0
       /\ pc[t] \in {"Lock", "Increase", "Finalize", "Add", "CombineFinalize",
                     "CombineAdd"} => sorted_run[t].count # 0
       /\ pc[t] = "Done" => sorted_run[t].count = 0

\* The end of the sort.
Ended ==
    /\ finalized => \A t \in Threads : pc[t] = "Done"
    /\ destroyed => finalized
    /\ ~destroyed => remaining_size[ThisSort] # 0

\* The chunks that a thread got and has not handed over.
Held(t) == sorted_run[t].count
           + (IF pc[t] \in {"External", "Append"} THEN 1 ELSE 0)

\* Every chunk is in a run of the sort or with its thread.
Counted ==
    ~destroyed =>
       RunCount(sorted_runs) + SumFunction([t \in Threads |-> Held(t)]) = sunk

-----------------------------------------------------------------------------
(***************************************************************************)
(* The memory manager.                                                     *)
(***************************************************************************)
\* The constants that are numbers.
LEMMA MemoryNumbers ==
    /\ IsFiniteSet(States)
    /\ memory_limit \in Nat /\ query_max_memory \in Nat
    /\ DefaultMinimumReservation \in Nat /\ DefaultMinimumReservation >= 1
  BY MemoryAssumption

\* The smallest and the largest of a few numbers.
LEMMA Min2 ==
    ASSUME NEW a \in Int, NEW b \in Int
    PROVE  /\ Min({a, b}) \in Int /\ (Min({a, b}) = a \/ Min({a, b}) = b)
           /\ Min({a, b}) <= a /\ Min({a, b}) <= b
<1>1. \E x \in {a, b} : \A y \in {a, b} : x <= y
  OBVIOUS
<1> QED
  BY <1>1 DEF Min

\* The same for the larger of two.
LEMMA Max2 ==
    ASSUME NEW a \in Int, NEW b \in Int
    PROVE  /\ Max({a, b}) \in Int /\ (Max({a, b}) = a \/ Max({a, b}) = b)
           /\ Max({a, b}) >= a /\ Max({a, b}) >= b
<1>1. \E x \in {a, b} : \A y \in {a, b} : x >= y
  OBVIOUS
<1> QED
  BY <1>1 DEF Max

\* The same for the smallest of three.
LEMMA Min3 ==
    ASSUME NEW a \in Int, NEW b \in Int, NEW c \in Int
    PROVE  /\ Min({a, b, c}) \in Int
           /\ Min({a, b, c}) <= a /\ Min({a, b, c}) <= b /\ Min({a, b, c}) <= c
<1>1. \E x \in {a, b, c} : \A y \in {a, b, c} : x <= y
  OBVIOUS
<1> QED
  BY <1>1 DEF Min

\* The same for the smallest of four.
LEMMA Min4 ==
    ASSUME NEW a \in Int, NEW b \in Int, NEW c \in Int, NEW d \in Int
    PROVE  /\ Min({a, b, c, d}) \in Int
           /\ Min({a, b, c, d}) <= a /\ Min({a, b, c, d}) <= d
<1>1. \E x \in {a, b, c, d} : \A y \in {a, b, c, d} : x <= y
  OBVIOUS
<1> QED
  BY <1>1 DEF Min

\* The part of a size that may be used is an integer.
LEMMA FreeRatioType == \A x \in Int : FreeRatio(x) \in Int
  BY DEF FreeRatio

\* What the other states have reserved is a natural number.
LEMMA OthersReservationType ==
    ASSUME MemoryTypeOK, NEW s \in States
    PROVE  OthersReservation(s) \in Nat
<1> DEFINE f == [reservation EXCEPT ![s] = 0]
<1>1. f \in [States -> Int] /\ \A x \in States : f[x] >= 0
  BY DEF MemoryTypeOK
<1> HIDE DEF f
<1>2. SumFunction(f) \in Nat
  BY <1>1, MemoryNumbers, SumFunctionType
<1> QED
  BY <1>2 DEF f, OthersReservation

\* Memory that is short is divided so that a state gets no more than it asked
\* for, and keeps what it has or fits into what the others leave.
LEMMA ComputeReservationProps ==
    ASSUME MemoryTypeOK, Granted, NEW s \in active_states,
           NEW size \in Nat \ {0}, NEW r,
           r \in ComputeReservation([remaining_size EXCEPT ![s] = size], s)
    PROVE  /\ r \in Nat /\ r <= size
           /\ \/ r <= minimum_reservation[s]
              \/ r <= reservation[s]
              \/ r + OthersReservation(s) <= memory_limit
<1> DEFINE remaining == [remaining_size EXCEPT ![s] = size]
           init(u) == IF u \in active_states
                      THEN ComputeInitialReservation(remaining, u) ELSE 0
           all == [u \in States |-> init(u)]
           free == memory_limit - SumFunction(all)
<1>a. s \in States /\ active_states \subseteq States
  BY DEF MemoryTypeOK
<1>0. /\ s \in States
      /\ remaining \in [States -> Nat] /\ remaining[s] = size
      /\ \A u \in States \ {s} : remaining[u] = remaining_size[u]
      /\ reservation \in [States -> Nat]
      /\ minimum_reservation \in [States -> Nat]
  BY DEF MemoryTypeOK
<1> HIDE DEF remaining
<1>1. ASSUME NEW u \in States
      PROVE  /\ init(u) \in Nat /\ init(u) \in Int /\ init(u) >= 0
             /\ u # s => init(u) >= reservation[u]
             /\ u = s => init(u) <= size /\ init(u) >= 1
                         /\ init(u) <= Max({minimum_reservation[u], reservation[u]})
  <2> DEFINE a == Max({minimum_reservation[u], reservation[u]})
             b == Min({a, remaining[u]})
  <2>1. /\ minimum_reservation[u] \in Nat
        /\ u \in active_states => minimum_reservation[u] >= 1
        /\ reservation[u] \in Nat
        /\ remaining[u] \in Nat
    <3>1. reservation[u] \in Nat
      BY Zenon, <1>0
    <3>2. remaining[u] \in Nat
      BY Zenon, <1>0
    <3>3. minimum_reservation[u] \in Nat
      BY Zenon, <1>0
    <3>4. u \in active_states => minimum_reservation[u] # 0
      BY DEF Granted
    <3> QED
      BY <3>1, <3>2, <3>3, <3>4
  <2>a. minimum_reservation[u] \in Int /\ reservation[u] \in Int
        /\ remaining[u] \in Int /\ 1 \in Int
    BY <2>1
  <2>2. a \in Int /\ a >= minimum_reservation[u] /\ a >= reservation[u]
    BY Zenon, <2>a, Max2
  <2> HIDE DEF a
  <2>3. b \in Int /\ (b = a \/ b = remaining[u]) /\ b <= a /\ b <= remaining[u]
    BY Zenon, <2>a, <2>2, Min2
  <2> HIDE DEF b
  <2>4. /\ Max({1, b}) \in Int /\ (Max({1, b}) = 1 \/ Max({1, b}) = b)
        /\ Max({1, b}) >= 1 /\ Max({1, b}) >= b
    BY Zenon, <2>a, <2>3, Max2
  <2>5. u \in active_states => init(u) = Max({1, b})
    BY DEF ComputeInitialReservation, a, b
  <2>6. u \notin active_states => init(u) = 0 /\ reservation[u] = 0
    BY DEF Granted
  <2>7. u # s => reservation[u] <= remaining[u]
    BY <1>0 DEF Granted
  <2>8. u = s => u \in active_states /\ remaining[u] = size
    BY <1>0
  <2> HIDE DEF init
  <2>9. CASE u \in active_states
    BY <2>1, <2>2, <2>3, <2>4, <2>5, <2>7, <2>8, <2>9 DEF a
  <2>10. CASE u \notin active_states
    BY <2>1, <2>6, <2>8, <2>10
  <2> QED
    BY <2>9, <2>10
<1> HIDE DEF init
<1>2. all \in [States -> Int] /\ \A u \in States : all[u] >= 0
  BY <1>1
<1>3. SumFunction(all) \in Nat
  BY <1>2, MemoryNumbers, SumFunctionType
<1>4. OthersReservation(s) + init(s) <= SumFunction(all)
  <2> DEFINE f == [reservation EXCEPT ![s] = 0]
             k == [f EXCEPT ![s] = init(s)]
  <2>1. f \in [States -> Int] /\ f[s] = 0 /\ init(s) \in Int
    <3>1. f \in [States -> Int] /\ f[s] = 0
      BY <1>0
    <3>2. init(s) \in Int
      BY <1>0, <1>1
    <3> QED
      BY <3>1, <3>2
  <2>2. k \in [States -> Int] /\ \A u \in States : k[u] <= all[u]
    <3>1. k \in [States -> Int] /\ k[s] = init(s)
          /\ \A u \in States \ {s} : k[u] = reservation[u]
      BY <1>0, <2>1
    <3>2. \A u \in States : all[u] = init(u)
      OBVIOUS
    <3> HIDE DEF k, f, all
    <3>3. ASSUME NEW u \in States PROVE k[u] <= all[u]
      <4>1. CASE u = s
        BY <2>1, <3>1, <3>2, <4>1
      <4>2. CASE u # s
        <5>1. k[u] = reservation[u] /\ all[u] = init(u)
          BY <3>1, <3>2, <4>2
        <5>2. init(u) >= reservation[u] /\ init(u) \in Int
          BY <1>1, <4>2
        <5>3. reservation[u] \in Int
          BY Zenon, <3>1, <5>1
        <5> QED
          BY <5>1, <5>2, <5>3
      <4> QED
        BY <4>1, <4>2
    <3> QED
      BY <3>1, <3>3
  <2> HIDE DEF f
  <2>3. SumFunction(k) = SumFunction(f) + (init(s) - f[s])
    BY ZenonT(60), <1>0, <2>1, MemoryNumbers, SumFunctionUpdate
  <2> HIDE DEF k, all
  <2>4. SumFunction(k) <= SumFunction(all)
    BY <1>2, <2>2, MemoryNumbers, SumFunctionMonotone
  <2>5. OthersReservation(s) = SumFunction(f)
    BY DEF OthersReservation, f
  <2>6. SumFunction(f) \in Int
    BY <2>1, MemoryNumbers, SumFunctionType
  <2> QED
    BY <2>1, <2>3, <2>4, <2>5, <2>6
<1>5. r \in init(s) .. IF free <= 0 THEN init(s)
                       ELSE Max({init(s), Min({remaining[s], init(s) + free,
                                               FreeRatio(init(s) + free)})})
  BY DEF ComputeReservation, init, remaining
<1> HIDE DEF all
<1>6. free \in Int /\ init(s) \in Nat /\ OthersReservation(s) \in Nat
      /\ memory_limit \in Nat /\ reservation[s] \in Nat
      /\ minimum_reservation[s] \in Nat /\ init(s) <= size
      /\ free = memory_limit - SumFunction(all)
  <2>1. init(s) \in Nat /\ init(s) <= size
    BY <1>0, <1>1
  <2>2. reservation[s] \in Nat /\ minimum_reservation[s] \in Nat
    BY Zenon, <1>0
  <2>3. OthersReservation(s) \in Nat
    BY <1>0, OthersReservationType
  <2> QED
    BY <1>3, <2>1, <2>2, <2>3, MemoryNumbers
<1> HIDE DEF free
<1>7. init(s) <= minimum_reservation[s] \/ init(s) <= reservation[s]
  <2>1. init(s) <= Max({minimum_reservation[s], reservation[s]})
    BY <1>0, <1>1
  <2>2. minimum_reservation[s] \in Int /\ reservation[s] \in Int
    BY <1>6
  <2>3. \/ Max({minimum_reservation[s], reservation[s]}) = minimum_reservation[s]
        \/ Max({minimum_reservation[s], reservation[s]}) = reservation[s]
    BY Zenon, <2>2, Max2
  <2> QED
    BY Zenon, <2>1, <2>3
<1>8. CASE free <= 0
  <2>1. r = init(s)
    BY <1>5, <1>6, <1>8
  <2> QED
    BY <1>6, <1>7, <2>1
<1>9. CASE ~(free <= 0)
  <2> DEFINE m == Min({size, init(s) + free, FreeRatio(init(s) + free)})
  <2>1. m \in Int /\ m <= size /\ m <= init(s) + free
    <3>1. size \in Int /\ init(s) + free \in Int
          /\ FreeRatio(init(s) + free) \in Int
      BY <1>6, FreeRatioType
    <3> QED
      BY Zenon, <3>1, Min3
  <2>2. r \in init(s) .. Max({init(s), m})
    BY <1>0, <1>5, <1>9
  <2> HIDE DEF m
  <2>3. Max({init(s), m}) = init(s) \/ Max({init(s), m}) = m
    <3>1. init(s) \in Int
      BY <1>6
    <3> QED
      BY Zenon, <2>1, <3>1, Max2
  <2>4. r \in Nat /\ (r = init(s) \/ r <= m)
    BY <1>6, <2>1, <2>2, <2>3
  <2>5. CASE r = init(s)
    BY <1>6, <1>7, <2>5
  <2>6. CASE r <= m
    BY <1>3, <1>4, <1>6, <2>1, <2>4, <2>6
  <2> QED
    BY <2>4, <2>5, <2>6
<1> QED
  BY <1>8, <1>9

\* The same for all that UpdateState decides, unless there is nowhere to write
\* to, when a state gets all that it asks for.
LEMMA UpdateStateProps ==
    ASSUME MemoryTypeOK, Granted, NEW s \in active_states, NEW size \in Nat,
           NEW r, r \in UpdateState([remaining_size EXCEPT ![s] = size], s)
    PROVE  /\ r \in Nat /\ r <= size
           /\ config.has_temporary_directory =>
                 \/ r <= minimum_reservation[s]
                 \/ r <= reservation[s]
                 \/ r + OthersReservation(s) <= memory_limit
<1> DEFINE remaining == [remaining_size EXCEPT ![s] = size]
           lower == LowerBound(remaining, s)
           upper == UpperBound(remaining, s)
<1>0. s \in States /\ remaining[s] = size /\ OthersReservation(s) \in Nat
      /\ minimum_reservation[s] \in Nat /\ memory_limit \in Nat
      /\ query_max_memory \in Nat
  BY MemoryNumbers, OthersReservationType DEF MemoryTypeOK
<1>1. lower \in Nat /\ lower <= size /\ lower <= minimum_reservation[s]
  <2>1. minimum_reservation[s] \in Int /\ size \in Int
    BY <1>0
  <2>2. lower = Min({minimum_reservation[s], size})
    BY <1>0 DEF LowerBound
  <2> HIDE DEF lower
  <2>3. /\ lower \in Int /\ (lower = minimum_reservation[s] \/ lower = size)
        /\ lower <= minimum_reservation[s] /\ lower <= size
    BY Zenon, <2>1, <2>2, Min2
  <2> QED
    BY <1>0, <2>3
<1>2. upper \in Int /\ upper <= size
      /\ upper <= memory_limit - OthersReservation(s)
  <2>1. FreeMemory(s) \in Int /\ FreeMemory(s) = memory_limit - OthersReservation(s)
    BY <1>0 DEF FreeMemory
  <2>2. upper = Min({size, query_max_memory, FreeRatio(FreeMemory(s)),
                     FreeMemory(s)})
    BY <1>0 DEF UpperBound
  <2> HIDE DEF upper
  <2>3. upper \in Int /\ upper <= size /\ upper <= FreeMemory(s)
    <3>1. size \in Int /\ query_max_memory \in Int
          /\ FreeRatio(FreeMemory(s)) \in Int
      BY <1>0, <2>1, FreeRatioType
    <3> QED
      BY Zenon, <2>1, <2>2, <3>1, Min4
  <2> QED
    BY <1>0, <2>1, <2>3
<1> HIDE DEF lower, upper
<1>3. \/ r = 0 /\ size = 0
      \/ r = lower
      \/ r = size /\ ~config.has_temporary_directory
      \/ r = upper /\ ~(lower >= upper)
      \/ r \in ComputeReservation(remaining, s) /\ size # 0
  BY <1>0 DEF UpdateState, lower, upper
<1>4. CASE r \in ComputeReservation(remaining, s) /\ size # 0
  BY <1>4, ComputeReservationProps
<1>5. CASE r = upper /\ ~(lower >= upper)
  BY <1>0, <1>1, <1>2, <1>5
<1> QED
  BY <1>0, <1>1, <1>3, <1>4, <1>5

\* What all states of the manager keep.
MemoryInv == MemoryTypeOK /\ Granted /\ GrantsWithinLimit

\* What a state has beyond the minimum it was granted for.
LEMMA ExtraProps ==
    ASSUME MemoryTypeOK, NEW s \in States
    PROVE  /\ Extra(s) \in Nat /\ Extra(s) \in Int /\ Extra(s) >= 0
           /\ Extra(s) <= reservation[s]
<1> DEFINE d == reservation[s] - guaranteed[s]
<1>1. reservation[s] \in Nat /\ d \in Int /\ 0 \in Int /\ d <= reservation[s]
  BY DEF MemoryTypeOK
<1> HIDE DEF d
<1>2. /\ Max({0, d}) \in Int /\ (Max({0, d}) = 0 \/ Max({0, d}) = d)
      /\ Max({0, d}) >= 0
  BY Zenon, <1>1, Max2
<1>3. Extra(s) = Max({0, d})
  BY DEF Extra, d
<1> QED
  BY <1>1, <1>2, <1>3

\* A reservation that is for the minimum, a part of the one before, or fits into
\* what the others leave keeps the grants within the limit.
LEMMA GrantStep ==
    ASSUME MemoryInv, NEW s \in States, NEW r \in Nat, NEW g \in Nat,
           config' = config,
           reservation' = [reservation EXCEPT ![s] = r],
           guaranteed' = [guaranteed EXCEPT ![s] = g],
           config.has_temporary_directory =>
              \/ r <= g
              \/ r <= reservation[s] /\ g = guaranteed[s]
              \/ r + OthersReservation(s) <= memory_limit
    PROVE  GrantsWithinLimit'
<1> DEFINE E == [u \in States |-> Extra(u)]
           x == Max({0, r - g})
           rest == [E EXCEPT ![s] = 0]
           others == [reservation EXCEPT ![s] = 0]
<1>1. SUFFICES ASSUME config.has_temporary_directory
               PROVE  SumFunction([u \in States |-> Extra(u)'] ) <= memory_limit
  BY DEF GrantsWithinLimit
<1>0. /\ reservation \in [States -> Nat] /\ guaranteed \in [States -> Nat]
      /\ SumFunction(E) <= memory_limit
      /\ \/ r <= g
         \/ r <= reservation[s] /\ g = guaranteed[s]
         \/ r + OthersReservation(s) <= memory_limit
  BY <1>1 DEF MemoryInv, MemoryTypeOK, GrantsWithinLimit
<1>2. /\ x \in Int /\ (x = 0 \/ x = r - g)
      /\ x >= 0 /\ x >= r - g
  <2>1. 0 \in Int /\ r - g \in Int
    OBVIOUS
  <2> QED
    BY Zenon, <2>1, Max2
<1>3. [u \in States |-> Extra(u)'] = [E EXCEPT ![s] = x]
  BY <1>0 DEF Extra
<1>4. \A u \in States : /\ E[u] = Extra(u) /\ E[u] \in Int /\ E[u] >= 0
                        /\ E[u] <= reservation[u]
  BY ExtraProps DEF MemoryInv
<1>5. E \in [States -> Int]
  BY <1>4
<1>6. Extra(s) >= reservation[s] - guaranteed[s] /\ Extra(s) \in Int
  <2>1. 0 \in Int /\ reservation[s] - guaranteed[s] \in Int
    BY <1>0
  <2> QED
    BY Zenon, <2>1, Max2 DEF Extra
<1>7. E[s] = Extra(s) /\ reservation[s] \in Nat /\ guaranteed[s] \in Nat
  BY <1>0
<1> HIDE DEF x, E
<1>8. SumFunction([E EXCEPT ![s] = x]) = SumFunction(E) + (x - E[s])
  BY <1>2, <1>5, MemoryNumbers, SumFunctionUpdate
<1>9. SumFunction(E) \in Int
  BY <1>5, MemoryNumbers, SumFunctionType
<1>10. CASE r <= g \/ (r <= reservation[s] /\ g = guaranteed[s])
  <2>1. x <= E[s]
    BY <1>2, <1>4, <1>6, <1>7, <1>10
  <2>2. SumFunction(E) + (x - E[s]) <= memory_limit
    BY <1>0, <1>2, <1>4, <1>9, <2>1, MemoryNumbers
  <2> QED
    BY Zenon, <1>3, <1>8, <2>2
<1>11. CASE r + OthersReservation(s) <= memory_limit
  <2>0. 0 \in Int
    OBVIOUS
  <2>1. SumFunction(rest) = SumFunction(E) + (0 - E[s])
    BY Zenon, <1>5, <2>0, MemoryNumbers, SumFunctionUpdate
  <2>2. /\ rest \in [States -> Int] /\ others \in [States -> Int]
        /\ \A u \in States : rest[u] <= others[u]
    BY <1>0, <1>4, <1>5
  <2>3. SumFunction(rest) <= SumFunction(others)
    <3> HIDE DEF rest, others
    <3> QED
      BY <2>2, MemoryNumbers, SumFunctionMonotone
  <2>4. SumFunction(others) = OthersReservation(s)
    BY DEF OthersReservation
  <2>5. OthersReservation(s) \in Nat /\ E[s] \in Int
    BY <1>4, OthersReservationType DEF MemoryInv
  <2> HIDE DEF rest, others
  <2>6. SumFunction(E) + (x - E[s]) <= memory_limit
    BY <1>2, <1>9, <1>11, <2>1, <2>3, <2>4, <2>5, MemoryNumbers
  <2> QED
    BY Zenon, <1>3, <1>8, <2>6
<1> QED
  BY <1>0, <1>10, <1>11

\* What an update of a reservation keeps, for any size that is asked for.
LEMMA UpdateStep ==
    ASSUME MemoryInv, config' = config, NEW s \in active_states,
           NEW size \in Nat,
           remaining_size' = [remaining_size EXCEPT ![s] = size],
           Update([remaining_size EXCEPT ![s] = size], s),
           UNCHANGED <<active_states, minimum_reservation>>
    PROVE  MemoryInv'
<1>0. MemoryTypeOK /\ Granted /\ s \in States
  BY DEF MemoryInv, MemoryTypeOK
<1>1. PICK r \in UpdateState([remaining_size EXCEPT ![s] = size], s) :
         /\ reservation' = [reservation EXCEPT ![s] = r]
         /\ guaranteed' = IF r > reservation[s] \/ r <= minimum_reservation[s]
                          THEN [guaranteed EXCEPT ![s] = minimum_reservation[s]]
                          ELSE guaranteed
  BY DEF Update
<1>2. /\ r \in Nat /\ r <= size
      /\ config.has_temporary_directory =>
            \/ r <= minimum_reservation[s]
            \/ r <= reservation[s]
            \/ r + OthersReservation(s) <= memory_limit
  BY <1>0, <1>1, UpdateStateProps
<1>t. /\ reservation[s] \in Nat /\ minimum_reservation[s] \in Nat
      /\ guaranteed[s] \in Nat
      /\ guaranteed = [guaranteed EXCEPT ![s] = guaranteed[s]]
  BY <1>0 DEF MemoryTypeOK
<1>3. GrantsWithinLimit'
  <2>1. CASE r > reservation[s] \/ r <= minimum_reservation[s]
    <3>1. guaranteed' = [guaranteed EXCEPT ![s] = minimum_reservation[s]]
      BY <1>1, <2>1
    <3>2. config.has_temporary_directory =>
             \/ r <= minimum_reservation[s]
             \/ r + OthersReservation(s) <= memory_limit
      BY <1>2, <1>t, <2>1
    <3> QED
      BY <1>0, <1>1, <1>2, <1>t, <3>1, <3>2, GrantStep
  <2>2. CASE ~(r > reservation[s] \/ r <= minimum_reservation[s])
    <3>1. guaranteed' = [guaranteed EXCEPT ![s] = guaranteed[s]]
      BY <1>1, <1>t, <2>2
    <3>2. r <= reservation[s]
      BY <1>2, <1>t, <2>2
    <3> QED
      BY <1>0, <1>1, <1>2, <1>t, <3>1, <3>2, GrantStep
  <2> QED
    BY <2>1, <2>2
<1>4. MemoryTypeOK'
  BY <1>0, <1>1, <1>2, <1>t DEF MemoryTypeOK
<1>5. Granted'
  BY <1>0, <1>1, <1>2 DEF MemoryTypeOK, Granted
<1> QED
  BY <1>3, <1>4, <1>5 DEF MemoryInv

\* Every operation of the manager keeps this, if the size is set alone only for
\* a state that has nothing.
LEMMA MemoryStep ==
    ASSUME MemoryInv, config' = config, NEW s \in States,
           \/ Register(s)
           \/ \E size \in Nat \ {0} : SetMinimumReservation(s, size)
           \/ reservation[s] = 0 /\ \E size \in Nat : SetRemainingSize(s, size)
           \/ UpdateReservation(s)
           \/ \E size \in Nat : SetRemainingSizeAndUpdateReservation(s, size)
           \/ SetZero(s)
           \/ Unregister(s)
    PROVE  MemoryInv'
<1>0. MemoryTypeOK /\ Granted /\ GrantsWithinLimit
  BY DEF MemoryInv
<1>1. CASE \E size \in Nat : SetRemainingSizeAndUpdateReservation(s, size)
  <2>1. PICK size \in Nat : SetRemainingSizeAndUpdateReservation(s, size)
    BY <1>1
  <2>2. /\ s \in active_states
        /\ remaining_size' = [remaining_size EXCEPT ![s] = size]
        /\ Update([remaining_size EXCEPT ![s] = size], s)
        /\ UNCHANGED <<active_states, minimum_reservation>>
    BY <2>1 DEF SetRemainingSizeAndUpdateReservation
  <2> QED
    BY <2>2, UpdateStep
<1>2. CASE UpdateReservation(s)
  <2>1. /\ remaining_size[s] \in Nat
        /\ remaining_size = [remaining_size EXCEPT ![s] = remaining_size[s]]
    BY <1>0 DEF MemoryTypeOK
  <2>2. /\ s \in active_states
        /\ remaining_size' = [remaining_size EXCEPT ![s] = remaining_size[s]]
        /\ Update([remaining_size EXCEPT ![s] = remaining_size[s]], s)
        /\ UNCHANGED <<active_states, minimum_reservation>>
    BY <1>2, <2>1 DEF UpdateReservation
  <2> QED
    BY <2>1, <2>2, UpdateStep
<1>3. CASE Register(s)
  <2>1. GrantsWithinLimit'
    <3> DEFINE d == DefaultMinimumReservation
    <3>1. /\ d \in Nat /\ d <= d
          /\ reservation' = [reservation EXCEPT ![s] = d]
          /\ guaranteed' = [guaranteed EXCEPT ![s] = d]
      BY <1>3, MemoryNumbers DEF Register
    <3> HIDE DEF d
    <3> QED
      BY <3>1, GrantStep
  <2>2. MemoryTypeOK' /\ Granted'
    BY <1>0, <1>3, MemoryNumbers DEF Register, MemoryTypeOK, Granted
  <2> QED
    BY <2>1, <2>2 DEF MemoryInv
<1>4. CASE SetZero(s) \/ Unregister(s)
  <2>1. PICK g \in Nat : guaranteed' = [guaranteed EXCEPT ![s] = g]
    <3>1. guaranteed[s] \in Nat
          /\ guaranteed = [guaranteed EXCEPT ![s] = guaranteed[s]]
      BY <1>0 DEF MemoryTypeOK
    <3> QED
      BY <1>4, <3>1 DEF SetZero, Unregister
  <2>2. 0 \in Nat /\ 0 <= g /\ reservation' = [reservation EXCEPT ![s] = 0]
    BY <1>4 DEF SetZero, Unregister
  <2>3. GrantsWithinLimit'
    BY <2>1, <2>2, GrantStep
  <2>4. MemoryTypeOK' /\ Granted'
    BY <1>0, <1>4 DEF SetZero, Unregister, MemoryTypeOK, Granted
  <2> QED
    BY <2>3, <2>4 DEF MemoryInv
<1>5. CASE \/ \E size \in Nat \ {0} : SetMinimumReservation(s, size)
           \/ reservation[s] = 0 /\ \E size \in Nat : SetRemainingSize(s, size)
  <2>1. GrantsWithinLimit'
    BY <1>0, <1>5
       DEF SetMinimumReservation, SetRemainingSize, GrantsWithinLimit, Extra
  <2>2. MemoryTypeOK' /\ Granted'
    BY <1>0, <1>5
       DEF SetMinimumReservation, SetRemainingSize, MemoryTypeOK, Granted
  <2> QED
    BY <2>1, <2>2 DEF MemoryInv
<1> QED
  BY <1>1, <1>2, <1>3, <1>4, <1>5

-----------------------------------------------------------------------------
(***************************************************************************)
(* The size that TryIncreaseReservation asks for.                          *)
(***************************************************************************)
\* d[n] is b, doubled n times.
IsDoubled(d, b, R) ==
    d = [n \in 0 .. R |-> IF n = 0 THEN b ELSE 2 * d[n - 1]]

\* There is such a function: it is built for ever more doublings.
LEMMA DoubledExists ==
    ASSUME NEW b, NEW R \in Nat
    PROVE  \E d : IsDoubled(d, b, R)
<1> DEFINE Body(d, n) == IF n = 0 THEN b ELSE 2 * d[n - 1]
           Good(d, m) == \A n \in 0 .. m : d[n] = Body(d, n)
           Bad == {m \in Nat : ~ \E d : Good(d, m)}
<1>1. 0 \notin Bad
  <2>1. Good([n \in {0} |-> b], 0)
    OBVIOUS
  <2> QED
    BY <2>1
<1>2. ASSUME NEW m \in Nat, NEW d, Good(d, m) PROVE \E e : Good(e, m + 1)
  <2> DEFINE e == [n \in 0 .. (m + 1) |-> IF n \in 0 .. m THEN d[n] ELSE Body(d, n)]
  <2>1. ASSUME NEW n \in 0 .. (m + 1) PROVE e[n] = Body(e, n)
    <3>1. e[n] = Body(d, n)
      BY <1>2
    <3>2. CASE n = 0
      BY <3>1, <3>2
    <3>3. CASE n # 0
      <4>1. n - 1 \in 0 .. m /\ n - 1 \in 0 .. (m + 1)
        BY <3>3
      <4>2. e[n - 1] = d[n - 1]
        BY <4>1
      <4> QED
        BY <3>1, <3>3, <4>2
    <3> QED
      BY <3>2, <3>3
  <2>2. Good(e, m + 1)
    BY <2>1
  <2> QED
    BY <2>2
<1>3. Bad = {}
  <2> SUFFICES ASSUME Bad # {} PROVE FALSE
    OBVIOUS
  <2>1. PICK m \in Bad : \A k \in Bad : m <= k
    <3>1. Bad \subseteq Nat
      OBVIOUS
    <3> HIDE DEF Bad
    <3> QED
      BY <3>1, SmallestNat
  <2>2. m \in Nat /\ m # 0 /\ m - 1 \in Nat /\ m - 1 \notin Bad /\ (m - 1) + 1 = m
    <3>1. m \in Nat /\ m # 0
      BY <1>1
    <3> HIDE DEF Bad
    <3> QED
      BY <2>1, <3>1
  <2>3. PICK d : Good(d, m - 1)
    BY <2>2
  <2>4. \E e : Good(e, (m - 1) + 1)
    <3> HIDE DEF Good
    <3> QED
      BY <1>2, <2>2, <2>3
  <2> QED
    BY <2>2, <2>4
<1>4. PICK d : Good(d, R)
  BY <1>3
<1> DEFINE e == [n \in 0 .. R |-> d[n]]
<1>5. ASSUME NEW n \in 0 .. R PROVE e[n] = Body(e, n)
  <2>1. d[n] = Body(d, n)
    BY <1>4
  <2>2. n # 0 => n - 1 \in 0 .. R
    OBVIOUS
  <2> QED
    BY <2>1, <2>2
<1>6. e = [n \in 0 .. R |-> Body(e, n)]
  BY <1>5
<1>7. IsDoubled(e, b, R)
  BY <1>6 DEF IsDoubled
<1> QED
  BY <1>7

\* Its values grow.
LEMMA DoubledGrows ==
    ASSUME NEW b \in Nat \ {0}, NEW R \in Nat, NEW d,
           IsDoubled(d, b, R)
    PROVE  \A n \in 0 .. R : d[n] \in Nat /\ d[n] > n
<1> DEFINE Bad == {n \in 0 .. R : ~(d[n] \in Nat /\ d[n] > n)}
<1>0. \A n \in 0 .. R : d[n] = IF n = 0 THEN b ELSE 2 * d[n - 1]
  BY DEF IsDoubled
<1>1. SUFFICES ASSUME Bad # {} PROVE FALSE
  OBVIOUS
<1>2. PICK n \in Bad : \A m \in Bad : n <= m
  <2>1. Bad \subseteq Nat
    OBVIOUS
  <2> HIDE DEF Bad
  <2> QED
    BY <1>1, <2>1, SmallestNat
<1>3. n \in 0 .. R /\ ~(d[n] \in Nat /\ d[n] > n)
  OBVIOUS
<1>4. CASE n = 0
  BY <1>0, <1>3, <1>4
<1>5. CASE n # 0
  <2>1. n - 1 \in 0 .. R /\ n - 1 \notin Bad
    <3>1. n - 1 \in 0 .. R /\ ~(n <= n - 1)
      BY <1>3, <1>5
    <3> HIDE DEF Bad
    <3> QED
      BY <1>2, <3>1
  <2>2. d[n - 1] \in Nat /\ d[n - 1] > n - 1
    BY <2>1
  <2>3. d[n] = 2 * d[n - 1]
    BY <1>0, <1>3, <1>5
  <2> QED
    BY <1>3, <1>5, <2>2, <2>3
<1> QED
  BY <1>4, <1>5

\* The request covers what is required.
LEMMA RequestType ==
    ASSUME NEW t, Required(t) \in Nat \ {0}, remaining_size[ThisSort] \in Nat \ {0}
    PROVE  Request(t) \in Nat \ {0}
<1> DEFINE R == Required(t)
           b == remaining_size[ThisSort]
           d == CHOOSE d : IsDoubled(d, b, R)
           Fits(k) == d[k] >= R /\ (k = 1 \/ d[k - 1] < R)
           n == CHOOSE k \in 1 .. R : Fits(k)
<1>1. Request(t) = d[n]
  BY Zenon DEF Request, IsDoubled
<1>2. R \in Nat \ {0} /\ b \in Nat \ {0}
  OBVIOUS
<1> HIDE DEF R, b
<1>3. IsDoubled(d, b, R)
  BY <1>2, DoubledExists
<1> HIDE DEF d
<1>4. \A m \in 0 .. R : d[m] \in Nat /\ d[m] > m
  BY <1>2, <1>3, DoubledGrows
<1>5. \E k \in 1 .. R : Fits(k)
  <2> DEFINE Large == {k \in 1 .. R : d[k] >= R}
  <2>1. Large \subseteq Nat /\ R \in Large
    BY <1>2, <1>4
  <2> HIDE DEF Large
  <2>2. PICK k \in Large : \A m \in Large : k <= m
    BY <2>1, SmallestNat
  <2>3. k \in 1 .. R /\ d[k] >= R
    BY DEF Large
  <2>4. k # 1 => k - 1 \in 1 .. R /\ k - 1 \in 0 .. R /\ k - 1 \notin Large
    BY <1>2, <2>2, <2>3
  <2>5. k # 1 => d[k - 1] < R
    BY <1>2, <1>4, <2>4 DEF Large
  <2> QED
    BY <2>3, <2>5
<1>6. n \in 1 .. R /\ d[n] >= R
  BY <1>5
<1> HIDE DEF n
<1>7. d[n] \in Nat
  BY <1>2, <1>4, <1>6
<1> QED
  BY <1>1, <1>2, <1>6, <1>7

-----------------------------------------------------------------------------
(***************************************************************************)
(* Types.                                                                  *)
(***************************************************************************)
\* The constants of the sort.
LEMMA SortNumbers ==
    /\ IsFiniteSet(Threads) /\ NoThread \notin Threads
    /\ num_threads \in Nat /\ num_threads >= 1
    /\ ThisSort \in States
    /\ ChunkSizes \subseteq Nat \ {0} /\ OtherSizes \subseteq Nat
    /\ OtherMinimums \subseteq Nat \ {0}
    /\ MaxChunks \in Nat /\ RowGroupSize \in Nat /\ VectorSize \in Nat
  BY SortAssumption

\* What has been appended to the runs of the sort is a number.
LEMMA RunCountType ==
    ASSUME NEW runs \in Seq([count : Nat \ {0}, external : BOOLEAN])
    PROVE  RunCount(runs) \in Nat
<1> DEFINE f == [i \in DOMAIN runs |-> runs[i].count]
<1>1. /\ IsFiniteSet(DOMAIN runs)
      /\ f \in [DOMAIN runs -> Int] /\ \A i \in DOMAIN runs : f[i] >= 0
  <2>1. DOMAIN runs = 1 .. Len(runs) /\ Len(runs) \in Nat
    OBVIOUS
  <2>2. IsFiniteSet(DOMAIN runs)
    BY <2>1, FS_Interval
  <2>3. \A i \in DOMAIN runs : runs[i].count \in Nat
    <3> DEFINE Added == [count : Nat \ {0}, external : BOOLEAN]
    <3>1. runs \in Seq(Added)
      OBVIOUS
    <3>2. \A x \in Added : x.count \in Nat
      OBVIOUS
    <3> HIDE DEF Added
    <3>3. \A i \in 1 .. Len(runs) : runs[i] \in Added
      BY <3>1
    <3> QED
      BY <2>1, <3>2, <3>3
  <2>4. \A i \in DOMAIN runs : f[i] \in Int /\ f[i] >= 0
    BY <2>3
  <2>5. f \in [DOMAIN runs -> Int]
    BY <2>4
  <2> QED
    BY <2>2, <2>4, <2>5
<1> HIDE DEF f
<1>2. SumFunction(f) \in Nat
  BY <1>1, SumFunctionType
<1> QED
  BY <1>2 DEF RunCount, f

\* A share of a reservation.
LEMMA ShareType == \A x \in Nat : x \div num_threads \in Nat
  BY SortNumbers

\* What an increase of the reservation needs and gets.
LEMMA IncreaseStep ==
    ASSUME TypeOK, MemoryInv, RunsHeld, Ended, NEW t \in Threads,
           TryIncreaseReservation(t)
    PROVE  /\ MemoryInv'
           /\ Required(t) \in Nat \ {0}
           /\ Required(t) >= num_threads * sorted_run[t].size
           /\ reservation'[ThisSort] \in Nat
           /\ remaining_size'[ThisSort] # 0
<1>1. pc[t] = "Increase" /\ config' = config
  BY DEF TryIncreaseReservation
<1>2. ~destroyed /\ remaining_size[ThisSort] \in Nat \ {0}
  BY <1>1, SortNumbers DEF Ended, TypeOK, MemoryTypeOK
<1>3. sorted_run[t].size \in Nat \ {0}
  BY <1>1 DEF RunsHeld, TypeOK, Run
<1>4. Required(t) \in Nat \ {0} /\ Required(t) >= num_threads * sorted_run[t].size
  <2> DEFINE factor == IF config.is_index_sort THEN 4 ELSE 1
             size == sorted_run[t].size
  <2>1. factor \in {1, 4}
    OBVIOUS
  <2>2. Required(t) = num_threads * size * factor
    BY DEF Required
  <2> HIDE DEF factor, size
  <2>3. size \in Nat \ {0}
    BY <1>3 DEF size
  <2>4. num_threads * size \in Nat \ {0}
    BY <2>3, SortNumbers
  <2>5. \A x \in Nat \ {0} : \A y \in {1, 4} : x * y \in Nat \ {0} /\ x * y >= x
    OBVIOUS
  <2> QED
    BY <2>1, <2>2, <2>4, <2>5 DEF size
<1>5. Request(t) \in Nat \ {0}
  BY <1>2, <1>4, RequestType
<1>6. \/ UNCHANGED memory_vars
      \/ SetRemainingSizeAndUpdateReservation(ThisSort, Request(t))
  BY DEF TryIncreaseReservation
<1>7. MemoryInv'
  <2>1. CASE UNCHANGED memory_vars
    BY <1>1, <2>1 DEF memory_vars, MemoryInv, MemoryTypeOK, Granted,
                      GrantsWithinLimit, Extra
  <2>2. CASE SetRemainingSizeAndUpdateReservation(ThisSort, Request(t))
    <3>1. Request(t) \in Nat /\ ThisSort \in States
      BY <1>5, SortNumbers
    <3> QED
      BY <1>1, <2>2, <3>1, MemoryStep
  <2> QED
    BY <1>6, <2>1, <2>2
<1>8. reservation'[ThisSort] \in Nat
  BY <1>7, SortNumbers DEF MemoryInv, MemoryTypeOK
<1>9. remaining_size'[ThisSort] # 0
  BY <1>2, <1>5, <1>6, SortNumbers
     DEF memory_vars, SetRemainingSizeAndUpdateReservation, TypeOK, MemoryTypeOK
<1> QED
  BY <1>4, <1>7, <1>8, <1>9

\* The memory manager keeps its invariant whatever the sort does.
LEMMA MemoryNext ==
    ASSUME TypeOK, MemoryInv, RunsHeld, Ended, [Next]_vars
    PROVE  MemoryInv'
<1> USE DEF memory_vars, sort_vars, local_vars, vars
<1>1. CASE UNCHANGED <<config, memory_vars>>
  BY <1>1 DEF MemoryInv, MemoryTypeOK, Granted, GrantsWithinLimit, Extra
<1>2. ASSUME NEW t \in Threads, TryIncreaseReservation(t) PROVE MemoryInv'
  BY <1>2, IncreaseStep
<1>3. CASE Destroy
  BY <1>3, MemoryStep, SortNumbers DEF Destroy
<1>4. ASSUME NEW s \in States, OtherOperator(s) PROVE MemoryInv'
  <2>1. /\ config' = config
        /\ \/ Register(s)
           \/ \E size \in Nat \ {0} : SetMinimumReservation(s, size)
           \/ reservation[s] = 0 /\ \E size \in Nat : SetRemainingSize(s, size)
           \/ UpdateReservation(s)
           \/ \E size \in Nat : SetRemainingSizeAndUpdateReservation(s, size)
           \/ SetZero(s)
           \/ Unregister(s)
    BY <1>4, SortNumbers DEF OtherOperator, PrepareFinalize, PrepareBuild
  <2> QED
    BY <2>1, MemoryStep
<1>5. ASSUME NEW t \in Threads, ThreadStep(t), ~TryIncreaseReservation(t)
      PROVE  UNCHANGED <<config, memory_vars>>
  BY <1>5 DEF ThreadStep, InitializeSortedRun, ReadExternal, SinkChunk,
              LockAndUpdate, FinalizeRun, AddSortedRun, CombineNothing, Combine,
              CombineFinalize
<1>6. CASE Finalize
  BY <1>1, <1>6 DEF Finalize
<1>7. CASE UNCHANGED vars
  BY <1>1, <1>7
<1> QED
  BY <1>1, <1>2, <1>3, <1>4, <1>5, <1>6, <1>7 DEF Next

\* Every step keeps the types.
LEMMA TypeNext ==
    ASSUME TypeOK, MemoryInv, RunsHeld, Ended, [Next]_vars
    PROVE  TypeOK'
<1>0. MemoryTypeOK'
  BY MemoryNext DEF MemoryInv
<1> USE DEF sort_vars, local_vars, vars, Goto, Locations
<1>r. reservation[ThisSort] \in Nat
  BY SortNumbers DEF TypeOK, MemoryTypeOK
<1>1. ASSUME NEW t \in Threads, InitializeSortedRun(t) PROVE TypeOK'
  <2>1. maximum_run_size' \in [Threads -> Nat]
    BY <1>1, <1>r, ShareType DEF InitializeSortedRun, TypeOK
  <2>2. sunk' \in 0 .. MaxChunks
    BY <1>1, SortNumbers DEF InitializeSortedRun, TypeOK
  <2> QED
    BY <1>0, <1>1, <2>1, <2>2 DEF InitializeSortedRun, TypeOK
<1>2. ASSUME NEW t \in Threads, ReadExternal(t) PROVE TypeOK'
  BY <1>0, <1>2 DEF ReadExternal, TypeOK
<1>3. ASSUME NEW t \in Threads, SinkChunk(t) PROVE TypeOK'
  <2>1. PICK size \in ChunkSizes :
          LET run == [count |-> sorted_run[t].count + 1,
                      size |-> sorted_run[t].size + size]
          IN  /\ sorted_run' = [sorted_run EXCEPT ![t] = run]
              /\ TryFinishSink(t, run, maximum_run_size[t], local_external[t],
                               "Lock")
    BY <1>3 DEF SinkChunk
  <2>2. sorted_run' \in [Threads -> Run]
    BY <2>1, SortNumbers DEF TypeOK, Run
  <2>3. pc' \in [Threads -> Locations]
    BY <2>1 DEF TryFinishSink, TypeOK
  <2>4. sunk' \in 0 .. MaxChunks
    BY <1>3, SortNumbers DEF SinkChunk, TypeOK
  <2> QED
    BY <1>0, <1>3, <2>2, <2>3, <2>4 DEF SinkChunk, TypeOK
<1>4. ASSUME NEW t \in Threads, LockAndUpdate(t) PROVE TypeOK'
  <2>1. maximum_run_size' \in [Threads -> Nat]
    BY <1>4, <1>r, ShareType DEF LockAndUpdate, UpdateLocalState, TypeOK
  <2>2. local_external' \in [Threads -> BOOLEAN]
    BY <1>4 DEF LockAndUpdate, UpdateLocalState, TypeOK
  <2>3. pc' \in [Threads -> Locations]
    BY <1>4 DEF LockAndUpdate, TryFinishSink, TypeOK
  <2>4. lock' \in Threads \cup {NoThread}
    BY <1>4 DEF LockAndUpdate, LockAfter
  <2> QED
    BY <1>0, <1>4, <2>1, <2>2, <2>3, <2>4 DEF LockAndUpdate, TypeOK
<1>5. ASSUME NEW t \in Threads, TryIncreaseReservation(t) PROVE TypeOK'
  <2>0. reservation'[ThisSort] \in Nat
    BY <1>5, IncreaseStep
  <2>1. maximum_run_size' \in [Threads -> Nat]
    BY <1>5, <2>0, ShareType
       DEF TryIncreaseReservation, UpdateLocalState, TypeOK
  <2>2. external' \in BOOLEAN
    BY <1>5 DEF TryIncreaseReservation, GoExternal, TypeOK
  <2>3. local_external' \in [Threads -> BOOLEAN]
    BY <1>5, <2>2 DEF TryIncreaseReservation, UpdateLocalState, TypeOK
  <2>4. pc' \in [Threads -> Locations]
    BY <1>5 DEF TryIncreaseReservation, TryFinishSink, TypeOK
  <2> QED
    BY <1>0, <1>5, <2>1, <2>2, <2>3, <2>4 DEF TryIncreaseReservation, TypeOK
<1>6. ASSUME NEW t \in Threads, FinalizeRun(t) PROVE TypeOK'
  BY <1>0, <1>6 DEF FinalizeRun, TypeOK
<1>7. ASSUME NEW t \in Threads, AddSortedRun(t) PROVE TypeOK'
  <2>1. sorted_run[t].count \in Nat \ {0} /\ finalize_external[t] \in BOOLEAN
    BY <1>7 DEF AddSortedRun, RunsHeld, TypeOK, Run
  <2>2. sorted_runs' \in Seq([count : Nat \ {0}, external : BOOLEAN])
    BY <1>7, <2>1 DEF AddSortedRun, TypeOK
  <2>3. sorted_run' \in [Threads -> Run]
    BY <1>7 DEF AddSortedRun, NullRun, Run, TypeOK
  <2>4. pc' \in [Threads -> Locations]
    BY <1>7 DEF AddSortedRun, TypeOK
  <2> QED
    BY <1>0, <1>7, <2>2, <2>3, <2>4 DEF AddSortedRun, TypeOK
<1>8. ASSUME NEW t \in Threads, CombineNothing(t) PROVE TypeOK'
  BY <1>0, <1>8 DEF CombineNothing, TypeOK
<1>9. ASSUME NEW t \in Threads, Combine(t) PROVE TypeOK'
  BY <1>0, <1>9 DEF Combine, TypeOK
<1>10. ASSUME NEW t \in Threads, CombineFinalize(t) PROVE TypeOK'
  BY <1>0, <1>10 DEF CombineFinalize, TypeOK
<1>11. CASE Finalize
  <2>1. total_count' \in Nat
    BY <1>11, RunCountType DEF Finalize, TypeOK
  <2>2. partition_size' \in Nat
    <3>1. total_count' \in Int /\ RowGroupSize \in Int
      BY <2>1, SortNumbers
    <3>2. \/ Min({total_count', RowGroupSize}) = total_count'
          \/ Min({total_count', RowGroupSize}) = RowGroupSize
      BY Zenon, <3>1, Min2
    <3> QED
      BY <1>11, <2>1, <3>2, SortNumbers DEF Finalize
  <2> QED
    BY <1>0, <1>11, <2>1, <2>2 DEF Finalize, TypeOK
<1>12. CASE Destroy
  BY <1>0, <1>12 DEF Destroy, TypeOK
<1>13. ASSUME NEW s \in States, OtherOperator(s) PROVE TypeOK'
  BY <1>0, <1>13 DEF OtherOperator, TypeOK
<1>14. CASE UNCHANGED vars
  BY <1>0, <1>14 DEF TypeOK
<1> QED
  BY <1>1, <1>2, <1>3, <1>4, <1>5, <1>6, <1>7, <1>8, <1>9, <1>10, <1>11,
     <1>12, <1>13, <1>14 DEF Next, ThreadStep

-----------------------------------------------------------------------------
(***************************************************************************)
(* Runs, and the end of the sort.                                          *)
(***************************************************************************)
\* Which threads have a run.
LEMMA RunsHeldNext ==
    ASSUME TypeOK, RunsHeld, [Next]_vars
    PROVE  RunsHeld'
<1> USE DEF sort_vars, local_vars, vars, Goto
<1>0. NullRun.count = 0
  BY DEF NullRun
<1>t. /\ sorted_run \in [Threads -> Run] /\ pc \in [Threads -> Locations]
      /\ \A u \in Threads : sorted_run[u] \in Run
  BY DEF TypeOK
\* A step that leaves the run of its thread alone.
<1>1. ASSUME NEW t \in Threads, NEW l, sorted_run' = sorted_run, Goto(t, l),
             l \in {"Lock", "Increase", "Finalize", "Add", "CombineFinalize",
                    "CombineAdd"} => sorted_run[t].count # 0,
             l = "Done" => sorted_run[t].count = 0
      PROVE  RunsHeld'
  BY <1>1, <1>t DEF RunsHeld
<1>2. ASSUME NEW t \in Threads, InitializeSortedRun(t) \/ ReadExternal(t)
      PROVE  RunsHeld'
  BY <1>1, <1>2 DEF InitializeSortedRun, ReadExternal
<1>3. ASSUME NEW t \in Threads, SinkChunk(t) PROVE RunsHeld'
  <2>1. PICK size \in ChunkSizes, l \in {"Sink", "Finalize", "Lock"} :
           /\ sorted_run' = [sorted_run EXCEPT ![t] =
                                [count |-> sorted_run[t].count + 1,
                                 size |-> sorted_run[t].size + size]]
           /\ Goto(t, l) /\ l \in {"Sink", "Finalize", "Lock"}
    BY <1>3 DEF SinkChunk, TryFinishSink
  <2>2. size \in Nat \ {0} /\ sorted_run[t].count \in Nat
        /\ sorted_run[t].size \in Nat
    BY <1>t, SortNumbers DEF Run
  <2> DEFINE run == [count |-> sorted_run[t].count + 1,
                     size |-> sorted_run[t].size + size]
  <2>3. run.count # 0 /\ run.size # 0 /\ run # NullRun
    BY <2>2 DEF NullRun
  <2> HIDE DEF run
  <2>4. sorted_run' = [sorted_run EXCEPT ![t] = run]
    BY <2>1 DEF run
  <2>5. pc' = [pc EXCEPT ![t] = l] /\ l # "Done"
    BY <2>1
  <2> QED
    BY <1>t, <2>3, <2>4, <2>5 DEF RunsHeld
<1>4. ASSUME NEW t \in Threads, LockAndUpdate(t) \/ TryIncreaseReservation(t)
      PROVE  RunsHeld'
  <2>1. sorted_run' = sorted_run /\ sorted_run[t].count # 0
    BY <1>4 DEF LockAndUpdate, TryIncreaseReservation, RunsHeld
  <2>2. \E l : Goto(t, l) /\ l # "Done"
    BY <1>4 DEF LockAndUpdate, TryIncreaseReservation, TryFinishSink
  <2> QED
    BY <1>1, <2>1, <2>2
<1>5. ASSUME NEW t \in Threads, FinalizeRun(t) \/ CombineFinalize(t)
      PROVE  RunsHeld'
  <2>1. sorted_run' = sorted_run /\ sorted_run[t].count # 0
    BY <1>5 DEF FinalizeRun, CombineFinalize, RunsHeld
  <2>2. \E l : Goto(t, l) /\ l # "Done"
    BY <1>5 DEF FinalizeRun, CombineFinalize
  <2> QED
    BY <1>1, <2>1, <2>2
<1>6. ASSUME NEW t \in Threads, AddSortedRun(t) PROVE RunsHeld'
  <2>1. PICK l : /\ sorted_run' = [sorted_run EXCEPT ![t] = NullRun]
                 /\ pc' = [pc EXCEPT ![t] = l] /\ l \in {"Sink", "Done"}
    BY <1>6 DEF AddSortedRun
  <2> QED
    BY <1>0, <1>t, <2>1 DEF RunsHeld
<1>7. ASSUME NEW t \in Threads, CombineNothing(t) \/ Combine(t) PROVE RunsHeld'
  <2>1. CASE CombineNothing(t)
    <3>1. sorted_run' = sorted_run /\ sorted_run[t].count = 0 /\ Goto(t, "Done")
      BY <1>0, <2>1 DEF CombineNothing, NothingToCombine
    <3> QED
      BY <1>1, <3>1
  <2>2. CASE Combine(t)
    <3>1. sorted_run' = sorted_run /\ sorted_run[t].count # 0
          /\ Goto(t, "CombineFinalize")
      BY <2>2 DEF Combine, NothingToCombine, RunsHeld
    <3> QED
      BY <1>1, <3>1
  <2> QED
    BY <1>7, <2>1, <2>2
<1>8. CASE UNCHANGED <<sorted_run, pc>>
  BY <1>8 DEF RunsHeld
<1>9. CASE Finalize \/ Destroy \/ UNCHANGED vars
  BY <1>8, <1>9 DEF Finalize, Destroy
<1>10. ASSUME NEW s \in States, OtherOperator(s) PROVE RunsHeld'
  BY <1>8, <1>10 DEF OtherOperator
<1> QED
  BY <1>2, <1>3, <1>4, <1>5, <1>6, <1>7, <1>9, <1>10 DEF Next, ThreadStep

\* Nothing happens to a sort that has ended, and one that has not keeps its
\* request for memory.
LEMMA EndedNext ==
    ASSUME TypeOK, MemoryInv, RunsHeld, Ended, [Next]_vars
    PROVE  Ended'
<1> USE DEF sort_vars, local_vars, vars, memory_vars
<1>1. ASSUME NEW t \in Threads, ThreadStep(t) PROVE Ended'
  <2>1. pc[t] # "Done"
    BY <1>1 DEF ThreadStep, InitializeSortedRun, ReadExternal, SinkChunk,
                LockAndUpdate, TryIncreaseReservation, FinalizeRun,
                AddSortedRun, CombineNothing, Combine, CombineFinalize
  <2>2. ~finalized /\ ~destroyed
    BY <2>1 DEF Ended
  <2>3. finalized' = finalized /\ destroyed' = destroyed
    BY <1>1 DEF ThreadStep, InitializeSortedRun, ReadExternal, SinkChunk,
                LockAndUpdate, TryIncreaseReservation, FinalizeRun,
                AddSortedRun, CombineNothing, Combine, CombineFinalize
  <2>4. remaining_size'[ThisSort] # 0
    <3>1. CASE TryIncreaseReservation(t)
      BY <3>1, IncreaseStep
    <3>2. CASE ~TryIncreaseReservation(t)
      <4>1. remaining_size' = remaining_size
        BY <1>1, <3>2 DEF ThreadStep, InitializeSortedRun, ReadExternal,
                SinkChunk, LockAndUpdate, FinalizeRun, AddSortedRun,
                CombineNothing, Combine, CombineFinalize
      <4> QED
        BY <2>2, <4>1 DEF Ended
    <3> QED
      BY <3>1, <3>2
  <2> QED
    BY <2>2, <2>3, <2>4 DEF Ended
<1>2. CASE Finalize
  BY <1>2 DEF Finalize, Ended
<1>3. CASE Destroy
  BY <1>3 DEF Destroy, Ended
<1>4. ASSUME NEW s \in States \ {ThisSort}, OtherOperator(s) PROVE Ended'
  <2>1. remaining_size'[ThisSort] = remaining_size[ThisSort]
    BY <1>4, SortNumbers DEF OtherOperator, PrepareFinalize, PrepareBuild,
          Register, SetZero, Unregister, SetMinimumReservation,
          SetRemainingSize, UpdateReservation,
          SetRemainingSizeAndUpdateReservation, TypeOK, MemoryTypeOK
  <2> QED
    BY <1>4, <2>1 DEF OtherOperator, Ended
<1>5. CASE UNCHANGED vars
  BY <1>5 DEF Ended
<1> QED
  BY <1>1, <1>2, <1>3, <1>4, <1>5 DEF Next

-----------------------------------------------------------------------------
(***************************************************************************)
(* All runs are finalized alike.                                           *)
(***************************************************************************)
\* The lock: who takes it gives it back in the same step, or goes on to
\* TryIncreaseReservation.
LEMMA LockHeldNext ==
    ASSUME TypeOK, LockHeld, [Next]_vars
    PROVE  LockHeld'
<1> USE DEF sort_vars, local_vars, vars, Goto
<1>t. pc \in [Threads -> Locations] /\ NoThread \notin Threads
  BY SortNumbers DEF TypeOK
\* A step from and to places without the lock.
<1>1. ASSUME NEW t \in Threads, NEW l, lock' = lock, Goto(t, l),
             pc[t] # "Increase", l # "Increase"
      PROVE  LockHeld'
  BY <1>1, <1>t DEF LockHeld
<1>2. ASSUME NEW t \in Threads, InitializeSortedRun(t) \/ ReadExternal(t)
                                  \/ FinalizeRun(t) \/ CombineNothing(t)
                                  \/ Combine(t) \/ CombineFinalize(t)
      PROVE  LockHeld'
  BY <1>1, <1>2 DEF InitializeSortedRun, ReadExternal, FinalizeRun,
                    CombineNothing, Combine, CombineFinalize
<1>3. ASSUME NEW t \in Threads, SinkChunk(t) PROVE LockHeld'
  <2>1. \E l : Goto(t, l) /\ l # "Increase"
    BY <1>3 DEF SinkChunk, TryFinishSink
  <2>2. lock' = lock /\ pc[t] # "Increase"
    BY <1>3 DEF SinkChunk
  <2> QED
    BY <1>1, <2>1, <2>2
<1>4. ASSUME NEW t \in Threads, LockAndUpdate(t) PROVE LockHeld'
  <2>1. \/ lock' = t /\ pc' = [pc EXCEPT ![t] = "Increase"]
        \/ lock' = NoThread /\ \E l : l # "Increase" /\ pc' = [pc EXCEPT ![t] = l]
    BY <1>4 DEF LockAndUpdate, TryFinishSink, LockAfter
  <2>2. lock = NoThread
    BY <1>4 DEF LockAndUpdate
  <2> QED
    BY <1>t, <2>1, <2>2 DEF LockHeld
<1>5. ASSUME NEW t \in Threads, TryIncreaseReservation(t) PROVE LockHeld'
  <2>1. pc[t] = "Increase" /\ lock' = NoThread
        /\ \E l : l # "Increase" /\ pc' = [pc EXCEPT ![t] = l]
    <3> DEFINE m == IF SinkDone(sorted_run[t],
                                reservation'[ThisSort] \div num_threads)
                    THEN "Sink" ELSE IF external' THEN "Finalize" ELSE "Sink"
    <3>m. m \in {"Sink", "Finalize"} /\ (m = "Finalize" => external')
      OBVIOUS
    <3>1. pc' = [pc EXCEPT ![t] = m]
      BY <1>5 DEF TryIncreaseReservation, TryFinishSink
    <3>2. pc[t] = "Increase" /\ lock' = NoThread
      BY <1>5 DEF TryIncreaseReservation
    <3> HIDE DEF m
    <3>3. m # "Increase"
      BY <3>m
    <3> QED
      BY <3>1, <3>2, <3>3
  <2> QED
    BY <1>t, <2>1 DEF LockHeld
<1>6. ASSUME NEW t \in Threads, AddSortedRun(t) PROVE LockHeld'
  <2>1. lock' = lock /\ pc[t] # "Increase" /\ \E l : Goto(t, l) /\ l # "Increase"
    BY <1>6 DEF AddSortedRun
  <2> QED
    BY <1>1, <2>1
<1>7. CASE UNCHANGED <<lock, pc>>
  BY <1>7 DEF LockHeld
<1>8. CASE Finalize \/ Destroy \/ UNCHANGED vars
  BY <1>7, <1>8 DEF Finalize, Destroy
<1>9. ASSUME NEW s \in States, OtherOperator(s) PROVE LockHeld'
  BY <1>7, <1>9 DEF OtherOperator
<1> QED
  BY <1>2, <1>3, <1>4, <1>5, <1>6, <1>8, <1>9 DEF Next, ThreadStep

\* A step that neither decides nor adds a run.
LEMMA DecidedStep ==
    ASSUME TypeOK, Decided, NEW t \in Threads, NEW l, Goto(t, l),
           external' = external, any_combined => any_combined',
           sorted_runs' = sorted_runs,
           \A u \in Threads : local_external'[u] => external,
           \A u \in Threads \ {t} : finalize_external'[u] = finalize_external[u],
           l = "Increase" => ~external,
           l \in {"Finalize", "Add"} => external,
           l = "Add" => finalize_external'[t],
           l \in {"CombineFinalize", "CombineAdd"} => any_combined',
           l = "CombineAdd" => finalize_external'[t] = external
    PROVE  Decided'
<1>1. pc' = [pc EXCEPT ![t] = l] /\ pc \in [Threads -> Locations]
  BY DEF Goto, TypeOK
<1>2. (sorted_runs # << >> => external \/ any_combined)'
  BY DEF Decided
<1>3. ASSUME NEW u \in Threads
      PROVE  (/\ pc[u] = "Increase" => ~external
              /\ local_external[u] => external
              /\ pc[u] \in {"Finalize", "Add"} => external
              /\ pc[u] = "Add" => finalize_external[u]
              /\ pc[u] \in {"CombineFinalize", "CombineAdd"} => any_combined
              /\ pc[u] = "CombineAdd" => finalize_external[u] = external)'
  <2>1. CASE u = t
    <3>1. pc'[u] = l
      BY <1>1, <2>1
    <3> QED
      BY <2>1, <3>1
  <2>2. CASE u # t
    <3>1. pc'[u] = pc[u] /\ finalize_external'[u] = finalize_external[u]
      BY <1>1, <2>2
    <3>2. /\ pc[u] = "Increase" => ~external
          /\ pc[u] \in {"Finalize", "Add"} => external
          /\ pc[u] = "Add" => finalize_external[u]
          /\ pc[u] \in {"CombineFinalize", "CombineAdd"} => any_combined
          /\ pc[u] = "CombineAdd" => finalize_external[u] = external
      BY DEF Decided
    <3> QED
      BY <3>1, <3>2
  <2> QED
    BY <2>1, <2>2
<1> QED
  BY Zenon, <1>2, <1>3 DEF Decided

\* The decision: it is taken by the thread that has the lock, and only while no
\* thread has combined and no run has been added.
LEMMA DecidedNext ==
    ASSUME TypeOK, LockHeld, Decided, RunsAgree, [Next]_vars
    PROVE  Decided' /\ RunsAgree'
<1> USE DEF sort_vars, local_vars, vars
<1>t. /\ pc \in [Threads -> Locations] /\ external \in BOOLEAN
      /\ any_combined \in BOOLEAN
      /\ local_external \in [Threads -> BOOLEAN]
      /\ finalize_external \in [Threads -> BOOLEAN]
      /\ \A u \in Threads : local_external[u] => external
      /\ NoThread \notin Threads
  BY SortNumbers DEF TypeOK, Decided
<1>r. ASSUME sorted_runs' = sorted_runs, external' = external PROVE RunsAgree'
  BY <1>r DEF RunsAgree
<1>1. ASSUME NEW t \in Threads, InitializeSortedRun(t) \/ CombineNothing(t)
      PROVE  Decided' /\ RunsAgree'
  <2>1. /\ external' = external /\ any_combined' = any_combined
        /\ sorted_runs' = sorted_runs /\ local_external' = local_external
        /\ finalize_external' = finalize_external
        /\ Goto(t, "External") \/ Goto(t, "Done")
    BY <1>1 DEF InitializeSortedRun, CombineNothing
  <2>2. Decided'
    <3>1. CASE Goto(t, "External")
      BY <1>t, <2>1, <3>1, DecidedStep
    <3>2. CASE Goto(t, "Done")
      BY <1>t, <2>1, <3>2, DecidedStep
    <3> QED
      BY <2>1, <3>1, <3>2
  <2> QED
    BY <1>r, <2>1, <2>2
<1>2. ASSUME NEW t \in Threads, ReadExternal(t) PROVE Decided' /\ RunsAgree'
  <2>1. /\ external' = external /\ any_combined' = any_combined
        /\ sorted_runs' = sorted_runs
        /\ local_external' = [local_external EXCEPT ![t] = external]
        /\ finalize_external' = finalize_external /\ Goto(t, "Append")
    BY <1>2 DEF ReadExternal
  <2>2. \A u \in Threads : local_external'[u] => external
    BY <1>t, <2>1
  <2>3. Decided'
    BY <2>1, <2>2, DecidedStep
  <2> QED
    BY <1>r, <2>1, <2>3
<1>3. ASSUME NEW t \in Threads, SinkChunk(t) PROVE Decided' /\ RunsAgree'
  <2>1. PICK l : /\ Goto(t, l) /\ l \in {"Sink", "Finalize", "Lock"}
                 /\ l = "Finalize" => local_external[t]
    BY <1>3 DEF SinkChunk, TryFinishSink
  <2>2. /\ external' = external /\ any_combined' = any_combined
        /\ sorted_runs' = sorted_runs /\ local_external' = local_external
        /\ finalize_external' = finalize_external
    BY <1>3 DEF SinkChunk
  <2>3. Decided'
    BY <1>t, <2>1, <2>2, DecidedStep
  <2> QED
    BY <1>r, <2>2, <2>3
<1>4. ASSUME NEW t \in Threads, LockAndUpdate(t) PROVE Decided' /\ RunsAgree'
  <2>1. PICK l : /\ Goto(t, l) /\ l \in {"Sink", "Finalize", "Increase"}
                 /\ l = "Finalize" => external
                 /\ l = "Increase" => ~external
    BY <1>4 DEF LockAndUpdate, TryFinishSink
  <2>2. /\ external' = external /\ any_combined' = any_combined
        /\ sorted_runs' = sorted_runs
        /\ local_external' = [local_external EXCEPT ![t] = external]
        /\ finalize_external' = finalize_external
    BY <1>4 DEF LockAndUpdate, UpdateLocalState
  <2>3. \A u \in Threads : local_external'[u] => external
    BY <1>t, <2>2
  <2>4. Decided'
    BY <2>1, <2>2, <2>3, DecidedStep
  <2> QED
    BY <1>r, <2>2, <2>4
<1>5. ASSUME NEW t \in Threads, TryIncreaseReservation(t)
      PROVE  Decided' /\ RunsAgree'
  <2>1. PICK l : /\ pc' = [pc EXCEPT ![t] = l] /\ l \in {"Sink", "Finalize"}
                 /\ l = "Finalize" => external'
    <3> DEFINE m == IF SinkDone(sorted_run[t],
                                reservation'[ThisSort] \div num_threads)
                    THEN "Sink" ELSE IF external' THEN "Finalize" ELSE "Sink"
    <3>m. m \in {"Sink", "Finalize"} /\ (m = "Finalize" => external')
      OBVIOUS
    <3>1. pc' = [pc EXCEPT ![t] = m]
      BY <1>5 DEF TryIncreaseReservation, TryFinishSink, Goto
    <3> HIDE DEF m
    <3> QED
      BY <3>1, <3>m
  <2>2. /\ pc[t] = "Increase" /\ ~external
        /\ external' = external \/ external' = ~any_combined
        /\ any_combined' = any_combined
        /\ sorted_runs' = sorted_runs
        /\ local_external' = [local_external EXCEPT ![t] = external']
        /\ finalize_external' = finalize_external
    BY <1>5 DEF TryIncreaseReservation, UpdateLocalState, GoExternal, Decided
  <2>3. external' = external \/ (external' /\ ~any_combined /\ sorted_runs = << >>)
    BY <1>t, <2>2 DEF Decided
  <2>4. RunsAgree'
    BY <2>2, <2>3 DEF RunsAgree
  <2>5. (sorted_runs # << >> => external \/ any_combined)'
    BY <2>2, <2>3 DEF Decided
  <2>6. ASSUME NEW u \in Threads
        PROVE  (/\ pc[u] = "Increase" => ~external
                /\ local_external[u] => external
                /\ pc[u] \in {"Finalize", "Add"} => external
                /\ pc[u] = "Add" => finalize_external[u]
                /\ pc[u] \in {"CombineFinalize", "CombineAdd"} => any_combined
                /\ pc[u] = "CombineAdd" => finalize_external[u] = external)'
    <3>1. CASE u = t
      <4>1. pc'[u] = l /\ local_external'[u] = external'
        BY <1>t, <2>1, <2>2, <3>1
      <4> QED
        BY <2>1, <4>1
    <3>2. CASE u # t
      <4>1. pc'[u] = pc[u] /\ local_external'[u] = local_external[u]
        BY <1>t, <2>1, <2>2, <3>2
      <4>2. pc[u] # "Increase"
        BY <2>2, <3>2 DEF LockHeld
      <4>3. ~local_external[u] /\ pc[u] \notin {"Finalize", "Add"}
        BY <1>t, <2>2 DEF Decided
      <4>4. pc[u] \in {"CombineFinalize", "CombineAdd"} => any_combined
        BY DEF Decided
      <4>5. pc[u] = "CombineAdd" => finalize_external[u] = external /\ external' = external
        BY <2>3, <4>4 DEF Decided
      <4> QED
        BY <2>2, <4>1, <4>2, <4>3, <4>4, <4>5
    <3> QED
      BY <3>1, <3>2
  <2>7. Decided'
    BY Zenon, <2>5, <2>6 DEF Decided
  <2> QED
    BY <2>4, <2>7
<1>6. ASSUME NEW t \in Threads, FinalizeRun(t) PROVE Decided' /\ RunsAgree'
  <2>1. /\ external' = external /\ any_combined' = any_combined
        /\ sorted_runs' = sorted_runs /\ local_external' = local_external
        /\ finalize_external' = [finalize_external EXCEPT ![t] = TRUE]
        /\ Goto(t, "Add") /\ external
    BY <1>6 DEF FinalizeRun, Decided
  <2>2. finalize_external'[t]
        /\ \A u \in Threads \ {t} : finalize_external'[u] = finalize_external[u]
    BY <1>t, <2>1
  <2>3. Decided'
    BY <1>t, <2>1, <2>2, DecidedStep
  <2> QED
    BY <1>r, <2>1, <2>3
<1>7. ASSUME NEW t \in Threads, AddSortedRun(t) PROVE Decided' /\ RunsAgree'
  <2>1. /\ external' = external /\ any_combined' = any_combined
        /\ local_external' = local_external
        /\ finalize_external' = finalize_external
        /\ pc[t] \in {"Add", "CombineAdd"}
        /\ sorted_runs' = Append(sorted_runs,
              [count |-> sorted_run[t].count, external |-> finalize_external[t]])
    BY <1>7 DEF AddSortedRun
  <2>2. PICK l \in {"Sink", "Done"} : pc' = [pc EXCEPT ![t] = l]
    BY <1>7 DEF AddSortedRun, Goto
  <2>3. finalize_external[t] = external /\ (external \/ any_combined)
    BY <1>t, <2>1 DEF Decided
  <2>4. RunsAgree'
    <3> DEFINE new == [count |-> sorted_run[t].count,
                       external |-> finalize_external[t]]
    <3>1. new.external = external
      BY <2>3
    <3> HIDE DEF new
    <3>2. sorted_runs' = Append(sorted_runs, new)
      BY <2>1 DEF new
    <3>3. sorted_runs \in Seq([count : Nat \ {0}, external : BOOLEAN])
      BY DEF TypeOK
    <3>4. \A i \in DOMAIN sorted_runs' :
             \/ sorted_runs'[i] = new
             \/ i \in DOMAIN sorted_runs /\ sorted_runs'[i] = sorted_runs[i]
      BY <3>2, <3>3
    <3> QED
      BY <2>1, <3>1, <3>4 DEF RunsAgree
  <2>5. ASSUME NEW u \in Threads
        PROVE  (/\ pc[u] = "Increase" => ~external
                /\ local_external[u] => external
                /\ pc[u] \in {"Finalize", "Add"} => external
                /\ pc[u] = "Add" => finalize_external[u]
                /\ pc[u] \in {"CombineFinalize", "CombineAdd"} => any_combined
                /\ pc[u] = "CombineAdd" => finalize_external[u] = external)'
    BY <1>t, <2>1, <2>2 DEF Decided
  <2>6. (sorted_runs # << >> => external \/ any_combined)'
    BY <2>1, <2>3
  <2>7. Decided'
    BY Zenon, <2>5, <2>6 DEF Decided
  <2> QED
    BY <2>4, <2>7
<1>8. ASSUME NEW t \in Threads, Combine(t) PROVE Decided' /\ RunsAgree'
  <2>1. /\ external' = external /\ any_combined'
        /\ sorted_runs' = sorted_runs /\ local_external' = local_external
        /\ finalize_external' = finalize_external
        /\ Goto(t, "CombineFinalize")
    BY <1>8 DEF Combine
  <2>2. Decided'
    BY <1>t, <2>1, DecidedStep
  <2> QED
    BY <1>r, <2>1, <2>2
<1>9. ASSUME NEW t \in Threads, CombineFinalize(t) PROVE Decided' /\ RunsAgree'
  <2>1. /\ external' = external /\ any_combined' = any_combined /\ any_combined
        /\ sorted_runs' = sorted_runs /\ local_external' = local_external
        /\ finalize_external' = [finalize_external EXCEPT ![t] = external]
        /\ Goto(t, "CombineAdd")
    BY <1>9 DEF CombineFinalize, Decided
  <2>2. finalize_external'[t] = external
        /\ \A u \in Threads \ {t} : finalize_external'[u] = finalize_external[u]
    BY <1>t, <2>1
  <2>3. Decided'
    BY <1>t, <2>1, <2>2, DecidedStep
  <2> QED
    BY <1>r, <2>1, <2>3
<1>10. CASE UNCHANGED <<external, any_combined, sorted_runs, local_external,
                        finalize_external, pc>>
  BY <1>10 DEF Decided, RunsAgree
<1>11. CASE Finalize \/ UNCHANGED vars
  BY <1>10, <1>11 DEF Finalize
<1>12. CASE Destroy
  BY <1>12 DEF Destroy, Decided, RunsAgree
<1>13. ASSUME NEW s \in States, OtherOperator(s) PROVE Decided' /\ RunsAgree'
  BY <1>10, <1>13 DEF OtherOperator
<1> QED
  BY <1>1, <1>2, <1>3, <1>4, <1>5, <1>6, <1>7, <1>8, <1>9, <1>11, <1>12, <1>13
     DEF Next, ThreadStep

-----------------------------------------------------------------------------
(***************************************************************************)
(* Runs stay within the limits of their threads.                           *)
(***************************************************************************)
\* A limit that covers what is required covers the run.
LEMMA ShareCovers ==
    ASSUME NEW size \in Nat, NEW reserved \in Nat,
           reserved >= num_threads * size
    PROVE  size <= reserved \div num_threads
<1> DEFINE n == num_threads
<1>1. n \in Nat /\ n >= 1
  BY SortNumbers
<1> HIDE DEF n
<1>2. /\ reserved \div n \in Nat
      /\ reserved < n * (reserved \div n) + n
  BY <1>1
<1>3. \A q \in Nat : q + 1 <= size => n * q + n <= n * size
  BY <1>1
<1>4. reserved >= n * size
  BY DEF n
<1>5. n * size \in Nat /\ n * (reserved \div n) \in Nat
  BY <1>1, <1>2
<1>6. ~(reserved \div n + 1 <= size)
  BY <1>1, <1>2, <1>3, <1>4, <1>5
<1>7. size <= reserved \div n
  BY <1>2, <1>6
<1> QED
  BY <1>7 DEF n

\* A thread that goes on to its next chunk has a run below its limit, a limit
\* that covers the run, or comes too late.
LEMMA RunsWithinLimitNext ==
    ASSUME TypeOK, MemoryInv, RunsHeld, Ended, Decided, RunsWithinLimit,
           [Next]_vars
    PROVE  RunsWithinLimit'
<1> USE DEF sort_vars, local_vars, vars
<1>t. /\ pc \in [Threads -> Locations] /\ sorted_run \in [Threads -> Run]
      /\ maximum_run_size \in [Threads -> Nat]
      /\ \A u \in Threads : sorted_run[u].size \in Nat
  BY DEF TypeOK, Run
\* A step of one thread, after which it has no run, is not between two chunks,
\* or has a run within its limit.
<1>1. ASSUME NEW t \in Threads, any_combined => any_combined',
             \A u \in Threads \ {t} :
                /\ pc'[u] = pc[u] /\ sorted_run'[u] = sorted_run[u]
                /\ maximum_run_size'[u] = maximum_run_size[u],
             \/ pc'[t] # "Sink" \/ sorted_run'[t] = NullRun \/ any_combined'
             \/ sorted_run'[t].size <= maximum_run_size'[t]
      PROVE  RunsWithinLimit'
  BY <1>1 DEF RunsWithinLimit
<1>2. ASSUME NEW t \in Threads, InitializeSortedRun(t) \/ ReadExternal(t)
                                  \/ FinalizeRun(t) \/ CombineNothing(t)
                                  \/ Combine(t) \/ CombineFinalize(t)
      PROVE  RunsWithinLimit'
  <2>1. /\ any_combined => any_combined'
        /\ \A u \in Threads \ {t} :
                /\ pc'[u] = pc[u] /\ sorted_run'[u] = sorted_run[u]
                /\ maximum_run_size'[u] = maximum_run_size[u]
        /\ pc'[t] # "Sink"
    BY <1>2, <1>t DEF InitializeSortedRun, ReadExternal, FinalizeRun, Goto,
                      CombineNothing, Combine, CombineFinalize
  <2> QED
    BY <1>1, <2>1
<1>3. ASSUME NEW t \in Threads, SinkChunk(t) PROVE RunsWithinLimit'
  <2>1. PICK size \in ChunkSizes :
          LET run == [count |-> sorted_run[t].count + 1,
                      size |-> sorted_run[t].size + size]
          IN  /\ sorted_run' = [sorted_run EXCEPT ![t] = run]
              /\ TryFinishSink(t, run, maximum_run_size[t], local_external[t],
                               "Lock")
    BY <1>3 DEF SinkChunk
  <2> DEFINE run == [count |-> sorted_run[t].count + 1,
                     size |-> sorted_run[t].size + size]
  <2>2. run.size \in Nat /\ maximum_run_size[t] \in Nat
    BY <1>t, SortNumbers
  <2> HIDE DEF run
  <2>3. sorted_run' = [sorted_run EXCEPT ![t] = run]
        /\ pc' = [pc EXCEPT ![t] =
                     IF run.size < maximum_run_size[t] THEN "Sink"
                     ELSE IF local_external[t] THEN "Finalize" ELSE "Lock"]
    BY <2>1 DEF TryFinishSink, SinkDone, Goto, run
  <2>4. maximum_run_size' = maximum_run_size /\ any_combined' = any_combined
    BY <1>3 DEF SinkChunk
  <2>5. pc'[t] # "Sink" \/ sorted_run'[t].size <= maximum_run_size'[t]
    BY <1>t, <2>2, <2>3, <2>4
  <2>6. \A u \in Threads \ {t} : pc'[u] = pc[u] /\ sorted_run'[u] = sorted_run[u]
    BY <1>t, <2>3
  <2> QED
    BY <1>1, <2>4, <2>5, <2>6
<1>4. ASSUME NEW t \in Threads, LockAndUpdate(t) PROVE RunsWithinLimit'
  <2> DEFINE limit == reservation[ThisSort] \div num_threads
  <2>1. limit \in Nat
    BY ShareType, SortNumbers DEF TypeOK, MemoryTypeOK
  <2> HIDE DEF limit
  <2>2. /\ maximum_run_size' = [maximum_run_size EXCEPT ![t] = limit]
        /\ pc' = [pc EXCEPT ![t] =
                     IF sorted_run[t].size < limit THEN "Sink"
                     ELSE IF external THEN "Finalize" ELSE "Increase"]
        /\ sorted_run' = sorted_run /\ any_combined' = any_combined
    BY <1>4 DEF LockAndUpdate, UpdateLocalState, TryFinishSink, SinkDone, Goto,
                limit
  <2>3. pc'[t] # "Sink" \/ sorted_run'[t].size <= maximum_run_size'[t]
    BY <1>t, <2>1, <2>2
  <2>4. \A u \in Threads \ {t} : /\ pc'[u] = pc[u]
                                 /\ maximum_run_size'[u] = maximum_run_size[u]
    BY <1>t, <2>2
  <2> QED
    BY <1>1, <2>2, <2>3, <2>4
<1>5. ASSUME NEW t \in Threads, TryIncreaseReservation(t) PROVE RunsWithinLimit'
  <2> DEFINE reserved == reservation'[ThisSort]
             limit == reserved \div num_threads
  <2>0. /\ reserved \in Nat /\ Required(t) \in Nat
        /\ Required(t) >= num_threads * sorted_run[t].size
    BY <1>5, IncreaseStep
  <2>1. limit \in Nat
    BY <2>0, ShareType
  <2>2. /\ sorted_run' = sorted_run /\ any_combined' = any_combined
        /\ maximum_run_size' = [maximum_run_size EXCEPT ![t] = limit]
        /\ pc[t] = "Increase"
    BY <1>5 DEF TryIncreaseReservation, UpdateLocalState
  <2>3. pc' = [pc EXCEPT ![t] =
                     IF sorted_run[t].size < limit THEN "Sink"
                     ELSE IF external' THEN "Finalize" ELSE "Sink"]
    BY <1>5 DEF TryIncreaseReservation, TryFinishSink, SinkDone, Goto
  <2>4. external' \/ any_combined \/ ~(reserved < Required(t))
    BY <1>5 DEF TryIncreaseReservation, GoExternal
  <2>5. ~(reserved < Required(t)) => sorted_run[t].size <= limit
    <3>1. SUFFICES ASSUME ~(reserved < Required(t))
                   PROVE  sorted_run[t].size <= limit
      OBVIOUS
    <3>2. num_threads * sorted_run[t].size \in Nat
      BY <1>t, SortNumbers
    <3> HIDE DEF reserved
    <3>3. reserved >= num_threads * sorted_run[t].size
      BY <2>0, <3>1, <3>2
    <3> QED
      BY <1>t, <2>0, <3>3, ShareCovers
  <2> HIDE DEF limit, reserved
  <2>6. pc'[t] # "Sink" \/ any_combined' \/ sorted_run'[t].size <= maximum_run_size'[t]
    <3>1. sorted_run[t].size \in Nat /\ maximum_run_size'[t] = limit
      BY <1>t, <2>2
    <3>2. pc'[t] = IF sorted_run[t].size < limit THEN "Sink"
                   ELSE IF external' THEN "Finalize" ELSE "Sink"
      BY <1>t, <2>3
    <3> QED
      BY <2>1, <2>2, <2>4, <2>5, <3>1, <3>2
  <2>7. \A u \in Threads \ {t} : /\ pc'[u] = pc[u]
                                 /\ maximum_run_size'[u] = maximum_run_size[u]
    BY <1>t, <2>2, <2>3
  <2> QED
    BY <1>1, <2>2, <2>6, <2>7
<1>6. ASSUME NEW t \in Threads, AddSortedRun(t) PROVE RunsWithinLimit'
  <2>1. /\ any_combined' = any_combined
        /\ \A u \in Threads \ {t} :
                /\ pc'[u] = pc[u] /\ sorted_run'[u] = sorted_run[u]
                /\ maximum_run_size'[u] = maximum_run_size[u]
        /\ sorted_run'[t] = NullRun
    BY <1>6, <1>t DEF AddSortedRun, Goto
  <2> QED
    BY <1>1, <2>1
<1>7. CASE UNCHANGED <<any_combined, pc, sorted_run, maximum_run_size>>
  BY <1>7 DEF RunsWithinLimit
<1>8. CASE Finalize \/ Destroy \/ UNCHANGED vars
  BY <1>7, <1>8 DEF Finalize, Destroy
<1>9. ASSUME NEW s \in States, OtherOperator(s) PROVE RunsWithinLimit'
  BY <1>7, <1>9 DEF OtherOperator
<1> QED
  BY <1>2, <1>3, <1>4, <1>5, <1>6, <1>8, <1>9 DEF Next, ThreadStep

-----------------------------------------------------------------------------
(***************************************************************************)
(* No row gets lost.                                                       *)
(***************************************************************************)
\* A run that is added adds its rows.
LEMMA RunCountAppend ==
    ASSUME NEW runs \in Seq([count : Nat \ {0}, external : BOOLEAN]),
           NEW run, run.count \in Nat
    PROVE  RunCount(Append(runs, run)) = RunCount(runs) + run.count
<1> DEFINE f == [i \in DOMAIN runs |-> runs[i].count]
           new == Append(runs, run)
           g == [i \in DOMAIN new |-> new[i].count]
<1>1. f \in Seq(Int) /\ Len(f) = Len(runs)
  <2> DEFINE Added == [count : Nat \ {0}, external : BOOLEAN]
  <2>1. runs \in Seq(Added)
    OBVIOUS
  <2>2. \A x \in Added : x.count \in Int
    OBVIOUS
  <2> HIDE DEF Added
  <2>3. /\ DOMAIN runs = 1 .. Len(runs) /\ Len(runs) \in Nat
        /\ \A i \in 1 .. Len(runs) : runs[i] \in Added
    BY <2>1
  <2>4. f \in [1 .. Len(runs) -> Int]
    BY <2>2, <2>3
  <2> HIDE DEF f
  <2> QED
    BY <2>3, <2>4
<1>2. g = Append(f, run.count)
  <2>1. /\ DOMAIN new = 1 .. (Len(runs) + 1) /\ DOMAIN runs = 1 .. Len(runs)
        /\ new[Len(runs) + 1] = run /\ Len(runs) \in Nat
        /\ \A i \in 1 .. Len(runs) : new[i] = runs[i]
    OBVIOUS
  <2>2. \A i \in 1 .. Len(runs) : f[i] = runs[i].count
    BY <2>1
  <2> HIDE DEF f, new
  <2>3. \A i \in 1 .. (Len(runs) + 1) : g[i] = Append(f, run.count)[i]
    <3> SUFFICES ASSUME NEW i \in 1 .. (Len(runs) + 1)
                 PROVE  g[i] = Append(f, run.count)[i]
      OBVIOUS
    <3>1. g[i] = new[i].count
      BY <2>1
    <3>2. CASE i = Len(runs) + 1
      BY <1>1, <2>1, <3>1, <3>2
    <3>3. CASE i \in 1 .. Len(runs)
      <4>1. Append(f, run.count)[i] = f[i]
        BY <1>1, <3>3
      <4> QED
        BY <2>1, <2>2, <3>1, <3>3, <4>1
    <3>4. i = Len(runs) + 1 \/ i \in 1 .. Len(runs)
      <4> HIDE DEF g
      <4>1. Len(runs) \in Nat
        BY <2>1
      <4> QED
        BY <4>1
    <3> QED
      BY <3>2, <3>3, <3>4
  <2>4. g = [i \in 1 .. (Len(runs) + 1) |-> g[i]]
    BY <2>1
  <2>5. Append(f, run.count)
           = [i \in 1 .. (Len(runs) + 1) |-> Append(f, run.count)[i]]
    BY <1>1
  <2> HIDE DEF g
  <2> QED
    BY <2>3, <2>4, <2>5
<1> HIDE DEF f, g
<1>3. SumFunction(Append(f, run.count)) = SumFunction(f) + run.count
  BY <1>1, SumFunctionAppend
<1> QED
  BY <1>2, <1>3 DEF RunCount, f, g

\* What the threads hold is a number.
LEMMA HeldType ==
    ASSUME TypeOK
    PROVE  /\ \A t \in Threads : Held(t) \in Nat
           /\ [t \in Threads |-> Held(t)] \in [Threads -> Int]
           /\ SumFunction([t \in Threads |-> Held(t)]) \in Int
<1> DEFINE H == [t \in Threads |-> Held(t)]
<1>1. \A t \in Threads : Held(t) \in Nat /\ Held(t) \in Int
  BY DEF TypeOK, Run, Held
<1>2. H \in [Threads -> Int]
  BY <1>1
<1> HIDE DEF H
<1>3. SumFunction(H) \in Int
  BY <1>2, SortNumbers, SumFunctionType
<1> QED
  BY <1>1, <1>2, <1>3 DEF H

\* A step of one thread changes what the threads hold by what it changes there.
LEMMA HeldStep ==
    ASSUME TypeOK, NEW t \in Threads, NEW h \in Int, Held(t)' = h,
           \A u \in Threads \ {t} : pc'[u] = pc[u] /\ sorted_run'[u] = sorted_run[u]
    PROVE  SumFunction([u \in Threads |-> Held(u)'])
              = SumFunction([u \in Threads |-> Held(u)]) + (h - Held(t))
<1> DEFINE H == [u \in Threads |-> Held(u)]
<1>1. \A u \in Threads \ {t} : Held(u)' = Held(u)
  BY DEF Held
<1>2. [u \in Threads |-> Held(u)'] = [H EXCEPT ![t] = h]
  BY <1>1
<1>3. H \in [Threads -> Int] /\ H[t] = Held(t)
  BY HeldType
<1> HIDE DEF H
<1>4. SumFunction([H EXCEPT ![t] = h]) = SumFunction(H) + (h - H[t])
  BY <1>3, SortNumbers, SumFunctionUpdate
<1> QED
  BY <1>2, <1>3, <1>4 DEF H

\* Every step keeps the balance of the chunks.
LEMMA CountedNext ==
    ASSUME TypeOK, RunsHeld, Ended, Counted, [Next]_vars
    PROVE  Counted'
<1> USE DEF sort_vars, local_vars, vars, Goto
<1>t. /\ pc \in [Threads -> Locations] /\ sorted_run \in [Threads -> Run]
      /\ \A u \in Threads : sorted_run[u].count \in Nat
      /\ sunk \in Nat /\ NullRun.count = 0
      /\ sorted_runs \in Seq([count : Nat \ {0}, external : BOOLEAN])
  BY SortNumbers DEF TypeOK, Run, NullRun
<1> DEFINE H == SumFunction([u \in Threads |-> Held(u)])
<1>h. H \in Int /\ \A u \in Threads : Held(u) \in Int
  BY HeldType
<1>c. RunCount(sorted_runs) \in Int
  BY <1>t, RunCountType
\* A step that moves as many chunks as it takes.
<1>1. ASSUME NEW t \in Threads, NEW k \in Int, NEW a \in Int, pc[t] # "Done",
             destroyed' = destroyed,
             \A u \in Threads \ {t} : pc'[u] = pc[u] /\ sorted_run'[u] = sorted_run[u],
             Held(t)' = Held(t) + k,
             sunk' = sunk + (k + a),
             RunCount(sorted_runs)' = RunCount(sorted_runs) + a
      PROVE  Counted'
  <2>1. ~destroyed
    BY <1>1 DEF Ended
  <2>2. RunCount(sorted_runs) + H = sunk
    BY <2>1 DEF Counted
  <2>3. Held(t) + k \in Int /\ (Held(t) + k) - Held(t) = k
    BY <1>1, <1>h
  <2>4. SumFunction([u \in Threads |-> Held(u)'])
           = H + ((Held(t) + k) - Held(t))
    BY <1>1, <2>3, HeldStep
  <2> HIDE DEF H
  <2>5. (RunCount(sorted_runs) + a) + (H + k) = sunk + (k + a)
    BY <1>1, <1>h, <1>c, <2>2
  <2>6. RunCount(sorted_runs)' + SumFunction([u \in Threads |-> Held(u)']) = sunk'
    BY Zenon, <1>1, <2>3, <2>4, <2>5
  <2> QED
    BY <2>6 DEF Counted
<1>2. ASSUME NEW t \in Threads, InitializeSortedRun(t) PROVE Counted'
  <2>1. /\ destroyed' = destroyed /\ sorted_runs' = sorted_runs
        /\ sorted_run' = sorted_run /\ pc' = [pc EXCEPT ![t] = "External"]
        /\ sunk' = sunk + 1 /\ pc[t] = "Sink"
    BY <1>2 DEF InitializeSortedRun
  <2>2. Held(t)' = Held(t) + 1
    BY <1>t, <2>1 DEF Held
  <2>3. sunk' = sunk + (1 + 0) /\ RunCount(sorted_runs)' = RunCount(sorted_runs) + 0
    BY <1>t, <1>c, <2>1
  <2>4. \A u \in Threads \ {t} : pc'[u] = pc[u] /\ sorted_run'[u] = sorted_run[u]
    BY <1>t, <2>1
  <2>5. pc[t] # "Done" /\ 1 \in Int /\ 0 \in Int
    BY <2>1
  <2> QED
    BY <1>1, <2>1, <2>2, <2>3, <2>4, <2>5
\* A step that takes and moves nothing.
<1>3. ASSUME NEW t \in Threads, NEW l, pc[t] # "Done", destroyed' = destroyed,
             sorted_runs' = sorted_runs, sorted_run' = sorted_run,
             pc' = [pc EXCEPT ![t] = l], sunk' = sunk,
             pc[t] \in {"External", "Append"} <=> l \in {"External", "Append"}
      PROVE  Counted'
  <2>1. Held(t)' = Held(t) + 0
    BY <1>t, <1>3 DEF Held
  <2>2. sunk' = sunk + (0 + 0) /\ RunCount(sorted_runs)' = RunCount(sorted_runs) + 0
    BY <1>t, <1>c, <1>3
  <2>3. \A u \in Threads \ {t} : pc'[u] = pc[u] /\ sorted_run'[u] = sorted_run[u]
    BY <1>t, <1>3
  <2>4. 0 \in Int
    OBVIOUS
  <2> QED
    BY <1>1, <1>3, <2>1, <2>2, <2>3, <2>4
<1>4. ASSUME NEW t \in Threads, ReadExternal(t) \/ FinalizeRun(t)
                                  \/ CombineNothing(t) \/ Combine(t)
                                  \/ CombineFinalize(t)
      PROVE  Counted'
  <2>1. CASE ReadExternal(t)
    BY <1>3, <2>1 DEF ReadExternal
  <2>2. CASE FinalizeRun(t)
    BY <1>3, <2>2 DEF FinalizeRun
  <2>3. CASE CombineNothing(t)
    BY <1>3, <2>3 DEF CombineNothing
  <2>4. CASE Combine(t)
    BY <1>3, <2>4 DEF Combine
  <2>5. CASE CombineFinalize(t)
    BY <1>3, <2>5 DEF CombineFinalize
  <2> QED
    BY <1>4, <2>1, <2>2, <2>3, <2>4, <2>5
<1>5. ASSUME NEW t \in Threads, SinkChunk(t) PROVE Counted'
  <2>1. PICK size \in ChunkSizes, l \in {"Sink", "Finalize", "Lock"} :
           /\ sorted_run' = [sorted_run EXCEPT ![t] =
                                [count |-> sorted_run[t].count + 1,
                                 size |-> sorted_run[t].size + size]]
           /\ pc' = [pc EXCEPT ![t] = l] /\ l \in {"Sink", "Finalize", "Lock"}
    BY <1>5 DEF SinkChunk, TryFinishSink
  <2>2. /\ destroyed' = destroyed /\ sorted_runs' = sorted_runs
        /\ \/ pc[t] = "Append" /\ sunk' = sunk
           \/ pc[t] = "Sink" /\ sunk' = sunk + 1
    BY <1>5 DEF SinkChunk
  <2>3. Held(t)' = sorted_run[t].count + 1
    BY <1>t, <2>1 DEF Held
  <2>4. \A u \in Threads \ {t} : pc'[u] = pc[u] /\ sorted_run'[u] = sorted_run[u]
    BY <1>t, <2>1
  <2>5. RunCount(sorted_runs)' = RunCount(sorted_runs) + 0 /\ pc[t] # "Done"
        /\ 0 \in Int /\ 1 \in Int
    BY <1>c, <2>2
  <2>6. CASE pc[t] = "Append" /\ sunk' = sunk
    <3>1. Held(t)' = Held(t) + 0 /\ sunk' = sunk + (0 + 0)
      BY <1>t, <2>3, <2>6 DEF Held
    <3> QED
      BY <1>1, <2>2, <2>4, <2>5, <3>1
  <2>7. CASE pc[t] = "Sink" /\ sunk' = sunk + 1
    <3>1. Held(t)' = Held(t) + 1 /\ sunk' = sunk + (1 + 0)
      BY <1>t, <2>3, <2>7 DEF Held
    <3> QED
      BY <1>1, <2>2, <2>4, <2>5, <3>1
  <2> QED
    BY <2>2, <2>6, <2>7
<1>6. ASSUME NEW t \in Threads, LockAndUpdate(t) \/ TryIncreaseReservation(t)
      PROVE  Counted'
  <2>1. /\ pc[t] \in {"Lock", "Increase"} /\ destroyed' = destroyed
        /\ sorted_runs' = sorted_runs /\ sorted_run' = sorted_run /\ sunk' = sunk
    BY <1>6 DEF LockAndUpdate, TryIncreaseReservation
  <2>2. \E l : pc' = [pc EXCEPT ![t] = l] /\ l \notin {"External", "Append"}
    BY <1>6 DEF LockAndUpdate, TryIncreaseReservation, TryFinishSink
  <2> QED
    BY <1>3, <2>1, <2>2
<1>7. ASSUME NEW t \in Threads, AddSortedRun(t) PROVE Counted'
  <2> DEFINE n == sorted_run[t].count
             run == [count |-> n, external |-> finalize_external[t]]
  <2>1. /\ destroyed' = destroyed /\ sunk' = sunk
        /\ pc[t] \in {"Add", "CombineAdd"}
        /\ sorted_runs' = Append(sorted_runs, run)
        /\ sorted_run' = [sorted_run EXCEPT ![t] = NullRun]
    BY <1>7 DEF AddSortedRun
  <2>2. \E l \in {"Sink", "Done"} : pc' = [pc EXCEPT ![t] = l]
    BY <1>7 DEF AddSortedRun
  <2>3. n \in Nat /\ run.count = n
    BY <1>t
  <2>4. Held(t)' = 0 /\ Held(t) = n
    BY <1>t, <2>1, <2>2 DEF Held
  <2>5. \A u \in Threads \ {t} : pc'[u] = pc[u] /\ sorted_run'[u] = sorted_run[u]
    BY <1>t, <2>1, <2>2
  <2> HIDE DEF run, n
  <2>6. RunCount(sorted_runs') = RunCount(sorted_runs) + n
    BY <1>t, <2>1, <2>3, RunCountAppend
  <2>7. RunCount(sorted_runs)' = RunCount(sorted_runs) + n
    BY <2>6 DEF RunCount
  <2>8. Held(t)' = Held(t) + (0 - n) /\ sunk' = sunk + ((0 - n) + n)
        /\ 0 - n \in Int /\ n \in Int /\ pc[t] # "Done"
    BY <1>t, <2>1, <2>3, <2>4
  <2> QED
    BY <1>1, <2>1, <2>5, <2>7, <2>8
<1>8. CASE UNCHANGED <<destroyed, sorted_runs, sorted_run, pc, sunk>>
  BY <1>8 DEF Counted, Held, RunCount
<1>9. CASE Finalize \/ UNCHANGED vars
  BY <1>8, <1>9 DEF Finalize
<1>10. CASE Destroy
  BY <1>10 DEF Destroy, Counted
<1>11. ASSUME NEW s \in States, OtherOperator(s) PROVE Counted'
  BY <1>8, <1>11 DEF OtherOperator
<1> QED
  BY <1>2, <1>4, <1>5, <1>6, <1>7, <1>9, <1>10, <1>11 DEF Next, ThreadStep

\* The threads of a sort that ends have handed over everything.
LEMMA TotalNext ==
    ASSUME TypeOK, RunsHeld, Ended, Counted, TotalIsComplete, [Next]_vars
    PROVE  TotalIsComplete'
<1> USE DEF sort_vars, local_vars, vars
<1>1. CASE Finalize
  <2>1. \A t \in Threads : Held(t) = 0
    BY <1>1 DEF Finalize, RunsHeld, Held, TypeOK, Run
  <2> DEFINE H == [t \in Threads |-> Held(t)]
  <2>2. DOMAIN H = Threads /\ \A t \in Threads : H[t] = 0
    BY <2>1
  <2> HIDE DEF H
  <2>3. SumFunction(H) = 0
    BY <2>2, SortNumbers, SumFunctionZero
  <2>4. RunCount(sorted_runs) \in Nat
    BY RunCountType DEF TypeOK
  <2>5. total_count' = RunCount(sorted_runs) /\ sunk' = sunk /\ ~destroyed
    BY <1>1 DEF Finalize, Ended
  <2>6. RunCount(sorted_runs) + SumFunction(H) = sunk
    BY <2>5 DEF Counted, H
  <2> QED
    BY <2>3, <2>4, <2>5, <2>6 DEF TotalIsComplete
<1>2. ASSUME NEW t \in Threads, ThreadStep(t) PROVE TotalIsComplete'
  <2>1. pc[t] # "Done" /\ finalized' = finalized
    BY <1>2 DEF ThreadStep, InitializeSortedRun, ReadExternal, SinkChunk,
                LockAndUpdate, TryIncreaseReservation, FinalizeRun,
                AddSortedRun, CombineNothing, Combine, CombineFinalize
  <2> QED
    BY <2>1 DEF Ended, TotalIsComplete
<1>3. CASE UNCHANGED <<finalized, total_count, sunk>>
  BY <1>3 DEF TotalIsComplete
<1>4. CASE Destroy \/ UNCHANGED vars
  BY <1>3, <1>4 DEF Destroy
<1>5. ASSUME NEW s \in States, OtherOperator(s) PROVE TotalIsComplete'
  BY <1>3, <1>5 DEF OtherOperator
<1> QED
  BY <1>1, <1>2, <1>4, <1>5 DEF Next

-----------------------------------------------------------------------------
(***************************************************************************)
(* The theorems.                                                           *)
(***************************************************************************)
SortInv ==
    /\ TypeOK /\ MemoryInv /\ LockHeld /\ Decided /\ RunsHeld /\ Ended
    /\ Counted /\ RunsAgree /\ RunsWithinLimit /\ TotalIsComplete

\* The initial state.
LEMMA SortInit == Init => SortInv
<1> SUFFICES ASSUME Init PROVE SortInv
  OBVIOUS
<1>1. MemoryTypeOK
  BY MemoryNumbers, SortNumbers DEF Init, MemoryTypeOK
<1>2. Granted
  BY MemoryNumbers, SortNumbers DEF Init, Granted
<1>3. GrantsWithinLimit
  <2> DEFINE E == [s \in States |-> Extra(s)]
  <2>1. ASSUME NEW s \in States PROVE Extra(s) = 0
    <3> DEFINE d == reservation[s] - guaranteed[s]
    <3>1. d \in Int /\ d <= 0 /\ 0 \in Int
      BY MemoryNumbers DEF Init
    <3> HIDE DEF d
    <3>2. /\ Max({0, d}) \in Int /\ (Max({0, d}) = 0 \/ Max({0, d}) = d)
          /\ Max({0, d}) >= 0
      BY Zenon, <3>1, Max2
    <3>3. Extra(s) = Max({0, d})
      BY DEF Extra, d
    <3> QED
      BY <3>1, <3>2, <3>3
  <2>2. DOMAIN E = States /\ \A s \in States : E[s] = 0
    BY <2>1
  <2> HIDE DEF E
  <2>3. SumFunction(E) = 0
    BY <2>2, MemoryNumbers, SumFunctionZero
  <2> QED
    BY <2>3, MemoryNumbers DEF GrantsWithinLimit, E
<1>4. TypeOK
  <2>1. external \in BOOLEAN
    BY MemoryAssumption DEF Init
  <2>2. sorted_run \in [Threads -> Run]
    BY DEF Init, NullRun, Run
  <2>3. sunk \in 0 .. MaxChunks
    BY SortNumbers DEF Init
  <2>4. sorted_runs \in Seq([count : Nat \ {0}, external : BOOLEAN])
    BY DEF Init
  <2>5. /\ maximum_run_size \in [Threads -> Nat]
        /\ local_external \in [Threads -> BOOLEAN]
        /\ finalize_external \in [Threads -> BOOLEAN]
        /\ pc \in [Threads -> Locations]
    BY DEF Init, Locations
  <2>6. /\ lock \in Threads \cup {NoThread} /\ any_combined \in BOOLEAN
        /\ total_count \in Nat /\ partition_size \in Nat
        /\ finalized \in BOOLEAN /\ destroyed \in BOOLEAN
    BY DEF Init
  <2> QED
    BY <1>1, <2>1, <2>2, <2>3, <2>4, <2>5, <2>6 DEF TypeOK
<1>5. LockHeld /\ Decided /\ RunsHeld /\ RunsAgree
  BY SortNumbers DEF Init, LockHeld, Decided, RunsHeld, RunsAgree, NullRun
<1>6. Ended /\ RunsWithinLimit /\ TotalIsComplete
  BY MemoryNumbers, SortNumbers DEF Init, Ended, RunsWithinLimit, TotalIsComplete
<1>7. Counted
  <2> DEFINE H == [t \in Threads |-> Held(t)]
             f == [i \in DOMAIN sorted_runs |-> sorted_runs[i].count]
  <2>1. DOMAIN H = Threads /\ \A t \in Threads : H[t] = 0
    BY DEF Init, Held, NullRun
  <2>2. IsFiniteSet({}) /\ DOMAIN f = {} /\ \A x \in {} : f[x] = 0
    BY FS_EmptySet DEF Init
  <2> HIDE DEF H, f
  <2>3. SumFunction(H) = 0
    BY <2>1, SortNumbers, SumFunctionZero
  <2>4. SumFunction(f) = 0
    BY <2>2, SumFunctionZero
  <2>5. RunCount(sorted_runs) = 0 /\ sunk = 0
    BY <2>4 DEF RunCount, f, Init
  <2> QED
    BY <2>3, <2>5 DEF Counted, H
<1> QED
  BY <1>1, <1>2, <1>3, <1>4, <1>5, <1>6, <1>7 DEF SortInv, MemoryInv

\* The invariant is inductive.
LEMMA SortNext == SortInv /\ [Next]_vars => SortInv'
  BY TypeNext, MemoryNext, LockHeldNext, DecidedNext, RunsHeldNext, EndedNext,
     CountedNext, RunsWithinLimitNext, TotalNext DEF SortInv

\* Every state of a sort satisfies the invariant.
LEMMA SortAlways == Spec => []SortInv
  BY SortInit, SortNext, PTL DEF Spec

\* The sink of a sort never leaves its types: the sizes that it computes with
\* sums, doublings and divisions are natural numbers.
THEOREM SortTypeCorrect == Spec => []TypeOK
<1>1. SortInv => TypeOK
  BY DEF SortInv
<1> QED
  BY <1>1, SortAlways, PTL

\* However the threads decide, read the flag with or without the lock, and
\* combine, all runs of a sort are finalized for the kind of sort that the
\* merger will do.
THEOREM RunsAgreeAlways == Spec => []RunsAgree
<1>1. SortInv => RunsAgree
  BY DEF SortInv
<1> QED
  BY <1>1, SortAlways, PTL

\* A run that grows on is within the limit of its thread, unless memory got
\* short after a thread had combined.
THEOREM RunsWithinLimitAlways == Spec => []RunsWithinLimit
<1>1. SortInv => RunsWithinLimit
  BY DEF SortInv
<1> QED
  BY <1>1, SortAlways, PTL

\* The sort counts every row that the threads got.
THEOREM TotalIsCompleteAlways == Spec => []TotalIsComplete
<1>1. SortInv => TotalIsComplete
  BY DEF SortInv
<1> QED
  BY <1>1, SortAlways, PTL

\* All that the states are granted beyond their own minimums, which they may
\* change at any time, stays within the memory limit.
THEOREM GrantsWithinLimitAlways == Spec => []GrantsWithinLimit
<1>1. SortInv => GrantsWithinLimit
  BY DEF SortInv, MemoryInv
<1> QED
  BY <1>1, SortAlways, PTL
=============================================================================
