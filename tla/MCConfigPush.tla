---------------------------- MODULE MCConfigPush ----------------------------
(***************************************************************************)
(* One device class with two devices: a batch of the notifier is the       *)
(* class, and the next one finds that there are no more.                   *)
(***************************************************************************)
EXTENDS ConfigPush

CONSTANTS c1, d1, d2

MCMembers == [c \in Classes |-> Devices]
=============================================================================
