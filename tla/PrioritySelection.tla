------------------------- MODULE PrioritySelection -------------------------
(***************************************************************************)
(* The priority iterator of ZenHub's worklists                             *)
(* (Products/ZenHub/server/priority.py): which priority a worklist serves  *)
(* next.  A fixed cycle, in which a priority occurs the more often the     *)
(* higher it is, is read over and over; the priorities that an 'exclude'   *)
(* function names at the moment of the call are skipped.                   *)
(*                                                                         *)
(* The module keeps no variable.  The worklist (ZenHubWorklist) and the    *)
(* iterator on its own (MCPrioritySelection) hold the position in the      *)
(* cycle and use the operators defined here.                               *)
(***************************************************************************)
EXTENDS Integers, FiniteSets, Sequences

(***************************************************************************)
(* The priorities are the members of an IntEnum: 1 is the highest.         *)
(* _build_weighted_list gives priority n of N the weight 2^(N-n+1) - 1 and *)
(* places its k-th copy at k / 2^(N-n+1) of the unit interval.  Over the   *)
(* common denominator 2^N that is k * 2^(n-1); copies at the same place    *)
(* are ordered by priority.  (The source adds floats, and these are exact: *)
(* every place is a multiple of a power of two.)                           *)
(***************************************************************************)
Weight(N, n) == 2^(N - n + 1) - 1

Copies(N) == {copy \in (1..N) \X (1..Weight(N, 1)) : copy[2] <= Weight(N, copy[1])}

Place(copy) == copy[2] * 2^(copy[1] - 1)

Before(a, b) == \/ Place(a) < Place(b)
                \/ Place(a) = Place(b) /\ a[1] < b[1]

Rank(N, copy) == 1 + Cardinality({c \in Copies(N) : Before(c, copy)})

BuildWeightedList(N) ==
    [i \in 1..Cardinality(Copies(N)) |->
        (CHOOSE copy \in Copies(N) : Rank(N, copy) = i)[1]]

(***************************************************************************)
(* The cycle is read from position `turn', the number of elements already  *)
(* read; Slot(turn, k) is what the k-th next element will be.  A `next'    *)
(* that must return a member of `wanted' reads up to the first such        *)
(* element: Turns(turn, wanted, k) says it is the k-th.                    *)
(***************************************************************************)
Slot(cycle, turn, k) == cycle[((turn + k - 1) % Len(cycle)) + 1]

\* Mutant of Turns: elements that are wanted may be skipped.
TurnsSkipping(cycle, turn, wanted, k) == Slot(cycle, turn, k) \in wanted

Turns(cycle, turn, wanted, k) ==
    /\ Slot(cycle, turn, k) \in wanted
    /\ \A j \in 1..(k - 1) : Slot(cycle, turn, j) \notin wanted

\* Mutants of Advance: the cycle does not begin again; the elements that were
\* skipped are not counted as read.
AdvanceForEver(cycle, turn, k) == turn + k

AdvanceByOne(cycle, turn, k) == (turn + 1) % Len(cycle)

Advance(cycle, turn, k) == (turn + k) % Len(cycle)
=============================================================================
