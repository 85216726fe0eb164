------------------------ MODULE MCEventQueueManager ------------------------
(***************************************************************************)
(* Small instances of EventQueueManager: a problem p, its clear c and an   *)
(* unrelated problem x.                                                    *)
(***************************************************************************)
EXTENDS EventQueueManager

CONSTANTS p, c, x

MCClearFingerprint == [kind \in Kinds |-> IF kind = x THEN "x" ELSE "p"]
=============================================================================
