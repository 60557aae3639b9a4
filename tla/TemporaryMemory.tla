-------------------------- MODULE TemporaryMemory --------------------------
(***************************************************************************)
(* TemporaryMemoryManager: the memory that the operators of all queries    *)
(* share.  Every operator has a state with the size it asks for            *)
(* (remaining_size), the size it cannot do without (minimum_reservation)   *)
(* and the size it is granted (reservation).  An operator that is granted  *)
(* less than it asks for has to write to disk.                             *)
(*                                                                         *)
(* Every operation runs under the manager's lock, or stores one atomic     *)
(* value, and is one step.  What a state is granted changes only when the  *)
(* state itself asks.                                                      *)
(*                                                                         *)
(* How ComputeReservation divides memory that is short, by descending a    *)
(* cost function in floating point, is left open: the state gets any size  *)
(* between the bounds that the function ends with.                         *)
(***************************************************************************)
EXTENDS Integers, FiniteSets, FiniteSetsExt, Functions

CONSTANTS
    States,                 \* the TemporaryMemoryStates
    memory_limit,           \* of the buffer pool, in units of memory
    query_max_memory,
    DefaultMinimumReservation,
    Configs                 \* the settings of a query

ASSUME MemoryAssumption ==
    /\ IsFiniteSet(States)
    /\ memory_limit \in Nat /\ query_max_memory \in Nat
    /\ DefaultMinimumReservation \in Nat \ {0}
    /\ \A c \in Configs : /\ c.force_external \in BOOLEAN
                          /\ c.has_temporary_directory \in BOOLEAN

VARIABLES
    config,         \* the settings
    active_states,
    \* Of a state s, 0 if it is not active:
    remaining_size,
    minimum_reservation,
    reservation,
    guaranteed      \* history: the minimum that the reservation was granted for

memory_vars == <<active_states, remaining_size, minimum_reservation,
                 reservation, guaranteed>>

\* What the other states have reserved.
OthersReservation(s) == SumFunction([reservation EXCEPT ![s] = 0])

LowerBound(remaining, s) == Min({minimum_reservation[s], remaining[s]})

FreeMemory(s) == memory_limit - OthersReservation(s)

\* MAXIMUM_FREE_MEMORY_RATIO of a size.
FreeRatio(size) == (9 * size) \div 10

UpperBound(remaining, s) ==
    Min({remaining[s], query_max_memory, FreeRatio(FreeMemory(s)),
         FreeMemory(s)})

\* Mutant: what a state has reserved already is left out.
MinimumOnly(remaining, s) == Min({minimum_reservation[s], remaining[s]})

ComputeInitialReservation(remaining, s) ==
    Max({1, Min({Max({minimum_reservation[s], reservation[s]}), remaining[s]})})

ComputeReservation(remaining, s) ==
    LET init(u) == IF u \in active_states
                   THEN ComputeInitialReservation(remaining, u) ELSE 0
        free == memory_limit - SumFunction([u \in States |-> init(u)])
    IN  init(s) .. IF free <= 0 THEN init(s)
                   ELSE Max({init(s), Min({remaining[s], init(s) + free,
                                           FreeRatio(init(s) + free)})})

\* UpdateState: the reservations that s may have after it.
UpdateState(remaining, s) ==
    LET lower == LowerBound(remaining, s) IN
    CASE remaining[s] = 0 -> {0}
      [] remaining[s] # 0 /\ config.force_external -> {lower}
      [] remaining[s] # 0 /\ ~config.force_external
         /\ ~config.has_temporary_directory -> {remaining[s]}
      [] OTHER ->
            IF \/ OthersReservation(s) + lower >= memory_limit
               \/ lower >= UpperBound(remaining, s)
            THEN {lower}
            ELSE IF SumFunction(remaining) > memory_limit
            THEN ComputeReservation(remaining, s)
            ELSE {UpperBound(remaining, s)}

\* SetReservation at the end of UpdateState.  What the state has is for its
\* minimum of now, unless it only keeps a part of what it had.
Update(remaining, s) ==
    \E r \in UpdateState(remaining, s) :
       /\ reservation' = [reservation EXCEPT ![s] = r]
       /\ guaranteed' =
             IF r > reservation[s] \/ r <= minimum_reservation[s]
             THEN [guaranteed EXCEPT ![s] = minimum_reservation[s]]
             ELSE guaranteed

Register(s) ==
    /\ s \notin active_states
    /\ active_states' = active_states \cup {s}
    /\ remaining_size' = [remaining_size EXCEPT ![s] = DefaultMinimumReservation]
    /\ minimum_reservation' =
          [minimum_reservation EXCEPT ![s] = DefaultMinimumReservation]
    /\ reservation' = [reservation EXCEPT ![s] = DefaultMinimumReservation]
    /\ guaranteed' = [guaranteed EXCEPT ![s] = DefaultMinimumReservation]

\* Without the lock: minimum_reservation is atomic.
SetMinimumReservation(s, size) ==
    /\ s \in active_states
    /\ minimum_reservation' = [minimum_reservation EXCEPT ![s] = size]
    /\ UNCHANGED <<active_states, remaining_size, reservation, guaranteed>>

\* The reservation is not updated.
SetRemainingSize(s, size) ==
    /\ s \in active_states
    /\ remaining_size' = [remaining_size EXCEPT ![s] = size]
    /\ UNCHANGED <<active_states, minimum_reservation, reservation, guaranteed>>

UpdateReservation(s) ==
    /\ s \in active_states
    /\ Update(remaining_size, s)
    /\ UNCHANGED <<active_states, remaining_size, minimum_reservation>>

SetRemainingSizeAndUpdateReservation(s, size) ==
    /\ s \in active_states
    /\ remaining_size' = [remaining_size EXCEPT ![s] = size]
    /\ Update(remaining_size', s)
    /\ UNCHANGED <<active_states, minimum_reservation>>

\* SetZero, at the end of a state that is not destroyed yet.
SetZero(s) ==
    /\ s \in active_states
    /\ remaining_size' = [remaining_size EXCEPT ![s] = 0]
    /\ reservation' = [reservation EXCEPT ![s] = 0]
    /\ UNCHANGED <<active_states, minimum_reservation, guaranteed>>

Unregister(s) ==
    /\ s \in active_states
    /\ active_states' = active_states \ {s}
    /\ remaining_size' = [remaining_size EXCEPT ![s] = 0]
    /\ minimum_reservation' = [minimum_reservation EXCEPT ![s] = 0]
    /\ reservation' = [reservation EXCEPT ![s] = 0]
    /\ guaranteed' = [guaranteed EXCEPT ![s] = 0]

-----------------------------------------------------------------------------
MemoryTypeOK ==
    /\ config \in Configs
    /\ active_states \in SUBSET States
    /\ remaining_size \in [States -> Nat]
    /\ minimum_reservation \in [States -> Nat]
    /\ reservation \in [States -> Nat]
    /\ guaranteed \in [States -> Nat]

\* What a state has beyond its own minimum, as it was when the state last got
\* more or fell back to it.
Extra(s) == Max({0, reservation[s] - guaranteed[s]})

\* A state always gets its minimum, however large that is.  However states come,
\* change their minimum, ask again and go, all that they are granted beyond
\* their minimums never adds up to more than the memory limit, if there is a
\* directory to write to.
GrantsWithinLimit ==
    config.has_temporary_directory =>
       SumFunction([s \in States |-> Extra(s)]) <= memory_limit
=============================================================================
