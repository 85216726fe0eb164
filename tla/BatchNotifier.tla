---------------------------- MODULE BatchNotifier ----------------------------
(***************************************************************************)
(* BatchNotifier (Products/ZenHub/notify.py): when a device class has      *)
(* changed, its devices are gone through in batches, with pauses between   *)
(* them, one class after the other.                                        *)
(*                                                                         *)
(* An item of the queue is a class.  A notification joins the item of its  *)
(* class in the queue, but not the item that is being gone through.  Each  *)
(* batch is run by a timer, and nothing in the code keeps the number of    *)
(* timers at one: it follows from when they are set.                       *)
(*                                                                         *)
(* Left out: filters and several services (a service adds its function to  *)
(* the item), stop and whenEmpty, which the hub calls nowhere.             *)
(***************************************************************************)
EXTENDS Naturals, Sequences, FiniteSets

CONSTANTS Classes,    \* device classes
          Members,    \* the devices of each class and of the classes in it
          BatchSize   \* _BATCH_SIZE (10)

ASSUME NotifierAssumption == BatchSize \in Nat \ {0}

VARIABLES items,    \* _queue, the next one first
          current,  \* _current_item: the class, and the devices still to come
          calls     \* timers that run: _call_later

notifierVars == <<items, current, calls>>

NoItem == [class |-> "none", todo |-> {}]

NotifierInit == /\ items = <<>>
                /\ current = NoItem
                /\ calls = 0

\* Nobody else will get to an item that is put in the queue now
WakesUp == items = <<>> /\ current = NoItem

\* Mutant of NotifySubdevices: a notification joins the item that is being gone through.
NotifySubdevicesJoins(c) ==
    /\ IF current.class = c \/ \E i \in DOMAIN items : items[i] = c
       THEN UNCHANGED <<items, calls>>
       ELSE /\ items' = Append(items, c)
            /\ calls' = IF WakesUp THEN calls + 1 ELSE calls
    /\ UNCHANGED current

\* notify_subdevices, _find_or_create_item
NotifySubdevices(c) ==
    /\ IF \E i \in DOMAIN items : items[i] = c
       THEN UNCHANGED <<items, calls>>
       ELSE /\ items' = Append(items, c)
            /\ calls' = IF WakesUp THEN calls + 1 ELSE calls
    /\ UNCHANGED current

\* What _callback goes on with: its item, or the next one in the queue
Working == IF current # NoItem THEN current
           ELSE [class |-> Head(items), todo |-> Members[Head(items)]]

Queued == IF current # NoItem THEN items ELSE Tail(items)

\* The devices of one batch
Batches == {ds \in SUBSET Working.todo :
               \/ Cardinality(ds) = BatchSize
               \/ ds = Working.todo /\ Cardinality(ds) < BatchSize}

\* _switch_to_next_item, and a timer for what there is to do
SwitchToNextItem == IF Queued = <<>>
                    THEN /\ current' = NoItem
                         /\ items' = <<>>
                         /\ calls' = calls - 1
                    ELSE /\ current' = [class |-> Head(Queued), todo |-> Members[Head(Queued)]]
                         /\ items' = Tail(Queued)
                         /\ UNCHANGED calls

\* _callback goes through the batch ds, and looks for more devices later if it was
\* a full one
Batch(ds) ==
    /\ calls > 0
    /\ current # NoItem \/ items # <<>>
    /\ ds \in Batches
    /\ IF Cardinality(ds) = BatchSize
       THEN /\ current' = [Working EXCEPT !.todo = @ \ ds]
            /\ items' = Queued
            /\ UNCHANGED calls
       ELSE SwitchToNextItem

\* The devices cannot be read on after ds: the item is given up
BatchFails(ds) ==
    /\ calls > 0
    /\ current # NoItem \/ items # <<>>
    /\ \E batch \in Batches : ds \subseteq batch
    /\ Working.todo # {}
    /\ ds # Working.todo
    /\ SwitchToNextItem

NotifierTypeOK == /\ items \in Seq(Classes)
                  /\ current \in [class : Classes \cup {"none"}, todo : SUBSET UNION {Members[c] : c \in Classes}]
                  /\ calls \in Nat

\* There is a timer exactly while there is something to do, and never a second one:
\* the deferred of an item must not be called twice.
OneTimer == calls = IF items = <<>> /\ current = NoItem THEN 0 ELSE 1
=============================================================================
