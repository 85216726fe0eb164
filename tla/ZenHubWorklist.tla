--------------------------- MODULE ZenHubWorklist ---------------------------
(***************************************************************************)
(* The worklist of a ZenHub executor (Products/ZenHub/server/worklist.py): *)
(* one FIFO per priority, served in the order of PrioritySelection, and a  *)
(* request that waits while nothing can be popped.  Modeling may be paused *)
(* at any time by another process (priority.py, ModelingPaused): the       *)
(* modeling priority is then excluded.                                     *)
(*                                                                         *)
(* The only caller of `pop' is the dispatch loop of the executor, which    *)
(* makes one request at a time, so the list of waiting requests is a       *)
(* flag.  The operators below are the steps of the worklist; they run      *)
(* inside the handlers of WorkerPoolExecutor.                              *)
(***************************************************************************)
EXTENDS PrioritySelection

CONSTANTS Priorities,  \* the priorities, positive integers, 1 the highest
          Cycle,       \* the weighted list over them
          Modeling     \* the priority that is excluded while paused

ASSUME PrioritiesAssumption == /\ Priorities \subseteq Nat
                               /\ Modeling \in Priorities
                               /\ Cycle \in Seq(Priorities)
                               /\ Len(Cycle) > 0

VARIABLES queues,   \* the items of each priority, first one next
          turn,     \* the position in the cycle
          paused,   \* modeling is paused
          waiting   \* the request of the dispatch loop waits for an item

worklistVars == <<queues, turn, paused, waiting>>

WorklistInit == /\ queues = [p \in Priorities |-> <<>>]
                /\ turn = 0
                /\ paused \in BOOLEAN
                /\ waiting = FALSE

\* PrioritySelection.available: what may be selected now
Available == IF paused THEN Priorities \ {Modeling} ELSE Priorities

NonEmpty(q) == {p \in Available : q[p] # <<>>}

\* __pop finds an item in the queues q
HasItem(q) == NonEmpty(q) # {}

\* __pop takes `item' from the queues q: `next' is called until it returns a
\* priority with an item, and each call reads the cycle up to a priority that is
\* not excluded.
PopFrom(q, item) ==
    \E k \in 1..Len(Cycle) :
        LET p == Slot(Cycle, turn, k)
        IN  /\ Turns(Cycle, turn, NonEmpty(q), k)
            /\ item = Head(q[p])
            /\ queues' = [q EXCEPT ![p] = Tail(@)]
            /\ turn' = Advance(Cycle, turn, k)

\* What push and pushfront make of the queues, before they notify
Pushed(p, item) == [queues EXCEPT ![p] = Append(@, item)]

\* Mutants of PushedFront: the item goes to the end; it is put back by the error
\* handler and again at the end of execute.
PushedLast(p, item) == [queues EXCEPT ![p] = Append(@, item)]

PushedTwice(p, item) == [queues EXCEPT ![p] = <<item, item>> \o @]

PushedFront(p, item) == [queues EXCEPT ![p] = <<item>> \o @]

\* Another process starts a pause of modeling, or the pause ends.  Nothing in
\* ZenHub runs at this moment.
TogglePause == /\ paused' = ~paused
               /\ UNCHANGED <<queues, turn, waiting>>
=============================================================================
