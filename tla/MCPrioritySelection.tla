------------------------ MODULE MCPrioritySelection ------------------------
(***************************************************************************)
(* The iterator on its own: any number of `next' calls over N priorities,  *)
(* the 'exclude' function changing its value between calls.                *)
(***************************************************************************)
EXTENDS PrioritySelection

CONSTANTS N,        \* number of priorities
          Window    \* how many of the latest choices are remembered

ASSUME SelectionAssumption == N \in Nat \ {0} /\ Window \in Nat

VARIABLES turn,      \* elements of the cycle read so far (modulo its length)
          excluded,  \* what the exclude function returns now
          recent     \* the latest priorities returned since excluded changed

vars == <<turn, excluded, recent>>

Cycle == BuildWeightedList(N)

Init == /\ turn = 0
        /\ excluded = {}
        /\ recent = <<>>

\* The exclude function changes its mind; it never excludes everything (in the
\* code it names at most the modeling priority).
Exclude(X) == /\ X # excluded
              /\ X # 1..N
              /\ excluded' = X
              /\ recent' = <<>>
              /\ UNCHANGED turn

LastOf(s, n) == SubSeq(s, Len(s) - n + 1, Len(s))

\* PrioritySelection.next
NextPriority == \E k \in 1..Len(Cycle) :
                  /\ Turns(Cycle, turn, (1..N) \ excluded, k)
                  /\ turn' = Advance(Cycle, turn, k)
                  /\ LET longer == Append(recent, Slot(Cycle, turn, k))
                     IN  recent' = IF Len(longer) > Window
                                   THEN LastOf(longer, Window) ELSE longer
                  /\ UNCHANGED excluded

Next == NextPriority \/ \E X \in SUBSET (1..N) : Exclude(X)

Spec == Init /\ [][Next]_vars

CountIn(s, p) == Cardinality({i \in DOMAIN s : s[i] = p})

\* How many elements of one cycle are not excluded
Round == Cardinality({i \in DOMAIN Cycle : Cycle[i] \notin excluded})

\* While nothing changes the exclusion, each priority that is not excluded has
\* its full weight among the latest choices, as many as one round has: no priority
\* is ever starved, and none gets more than its share ("It is never the case that
\* all higher priority items are popped before lower priority items", worklist.py).
Fair == Len(recent) >= Round
        => \A p \in (1..N) \ excluded : CountIn(LastOf(recent, Round), p) = Weight(N, p)

\* A priority that is not excluded is returned between any two visits of a
\* lower one: lower priorities never run ahead of higher ones.
HigherFirst == \A i, j \in DOMAIN recent :
                 (i < j /\ recent[i] = recent[j])
                 => \A p \in (1..(recent[i] - 1)) \ excluded :
                      \E m \in i..j : recent[m] = p

\* The docstring of _build_weighted_list (priority.py:137-139), with a = 1,
\* b = 2 and c = 3.
ASSUME DocExample ==
    BuildWeightedList(3) = <<1, 1, 2, 1, 1, 2, 3, 1, 1, 2, 1>>
=============================================================================
