---------------------------- MODULE MCPushEvents ----------------------------
(***************************************************************************)
(* Small instances of PushEvents: events x and the stop event z, none of   *)
(* them merged.                                                            *)
(***************************************************************************)
EXTENDS PushEvents

CONSTANTS x, z

MCClearFingerprint == [kind \in Kinds |-> kind]
=============================================================================
