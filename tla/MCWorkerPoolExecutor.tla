------------------------ MODULE MCWorkerPoolExecutor ------------------------
(***************************************************************************)
(* Small instances of WorkerPoolExecutor: two priorities, of which the     *)
(* lower one is modeling.                                                  *)
(***************************************************************************)
EXTENDS WorkerPoolExecutor

CONSTANTS m1, m2, o1, o2,  \* modeling calls and other calls
          s1, s2, s3

MCPriorities == 1..2
MCCycle == <<1, 1, 2, 1>>

ASSUME CycleAssumption == MCCycle = BuildWeightedList(2)
MCPriorityOf == [c \in Calls |-> IF c \in {m1, m2} THEN 2 ELSE 1]
=============================================================================
