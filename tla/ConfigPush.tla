------------------------------ MODULE ConfigPush ------------------------------
(***************************************************************************)
(* From a change in the object database to the configuration that a        *)
(* collector has: invalidations in the hub (InvalidationManager,           *)
(* InvalidationProcessor and the filters, in Products/ZenHub), the batch   *)
(* notifier, and a configuration service with its procrastinator           *)
(* (Products/ZenCollector/services/config.py).                             *)
(*                                                                         *)
(* The hub sees the database as of its last sync.  It asks the storage     *)
(* what has changed since it last asked, drops the classes whose checksum  *)
(* is the same as before, and notifies the services of the rest.  A class  *)
(* goes to the notifier, a device to the procrastinator, and the push of   *)
(* a device, seconds later, reads its configuration as the hub sees it     *)
(* then.  None of these steps is undone when a later one fails.            *)
(*                                                                         *)
(* The database holds one of two values for every object, and a device is  *)
(* configured by its own value and those of its classes: that the service  *)
(* excludes a device, whose collector is then told to delete it, is a      *)
(* configuration like any other.  Left out: other kinds of objects         *)
(* (components become their device), templates, moves of devices, and      *)
(* more than one service, and collector, for a device.                     *)
(***************************************************************************)
EXTENDS Procrastinator, BatchNotifier

CONSTANTS MaxChanges,  \* bound: changes of the database
          MaxFaults    \* bound: steps that fail, and unknown monitors

ASSUME ConfigPushAssumption == /\ {MaxChanges, MaxFaults} \subseteq Nat
                               /\ Members \in [Classes -> SUBSET Devices]
                               /\ Classes \cap Devices = {}
                               /\ "none" \notin Classes

Objects == Classes \cup Devices

\* "gone": deleted, and no longer in the database at all
Values == {"A", "B", "gone"}

VARIABLES db,        \* the value of each object
          dbPaused,  \* pauseHubNotifications, in the database
          invalid,   \* objects that have changed since the storage was last polled
          view,      \* the database as the hub sees it
          paused,    \* pauseHubNotifications as the hub sees it
          checksum,  \* checksum_map of the filter
          phase,     \* where process_invalidations is
          queue,     \* InvalidationManager._queue
          todo,      \* what processQueue has still to go through
          pushed,    \* the configuration of each device that its collector has
          changes,   \* changes so far
          faults,    \* faults so far
          slipped,   \* history: objects whose last change was polled while the hub saw
                     \* an old value, was filtered out although the hub had used
                     \* another one, or was dropped by an exception
          glimpsed,  \* history: classes of which the hub saw a new value that it did
                     \* not poll in the same turn, and has not polled since
          missed     \* history: devices whose last push, or notification, went wrong

storageVars == <<db, dbPaused, invalid, changes>>
viewVars == <<view, paused>>
managerVars == <<checksum, phase, queue, todo>>
historyVars == <<slipped, glimpsed, missed>>
vars == <<storageVars, viewVars, managerVars, historyVars, pushed, faults,
          procrastinatorVars, notifierVars>>

\* What decides the configuration of a device
Sources(d) == {d} \cup {c \in Classes : d \in Members[c]}
Config(values, d) == [o \in Sources(d) |-> values[o]]

\* The collector has been told to delete the device
NoConfig(d) == [o \in Sources(d) |-> "none"]

Init == /\ db = [o \in Objects |-> "A"]
        /\ dbPaused = FALSE
        /\ invalid = {}
        /\ view = db
        /\ paused = FALSE
        /\ checksum = [c \in Classes |-> "A"]
        /\ phase = "idle"
        /\ queue = {}
        /\ todo = {}
        /\ pushed = [d \in Devices |-> Config(db, d)]
        /\ changes = 0
        /\ faults = 0
        /\ slipped = {}
        /\ glimpsed = {}
        /\ missed = {}
        /\ ProcrastinatorInit
        /\ NotifierInit

----------------------------------------------------------------------------
(***************************************************************************)
(* The database, which others change.                                      *)
(***************************************************************************)
Elsewhere == UNCHANGED <<viewVars, managerVars, historyVars, pushed, faults,
                         procrastinatorVars, notifierVars>>

Commit(o, value) == /\ changes < MaxChanges
                    /\ changes' = changes + 1
                    /\ db' = [db EXCEPT ![o] = value]
                    /\ invalid' = invalid \cup {o}
                    /\ UNCHANGED dbPaused
                    /\ Elsewhere

Edit(o) == /\ db[o] # "gone"
           /\ Commit(o, IF db[o] = "A" THEN "B" ELSE "A")

\* A device is deleted and the database packed
Vanish(d) == /\ db[d] # "gone"
             /\ Commit(d, "gone")

\* An operator pauses notifications, or resumes them.  (Bound: only as long as there
\* may be changes are they paused.)
SetPaused == /\ dbPaused \/ changes < MaxChanges
             /\ dbPaused' = ~dbPaused
             /\ UNCHANGED <<db, invalid, changes>>
             /\ Elsewhere

----------------------------------------------------------------------------
(***************************************************************************)
(* process_invalidations: sync, poll, filter; then processQueue.           *)
(***************************************************************************)
Fault == /\ faults < MaxFaults
         /\ faults' = faults + 1

\* The hub polls in the same turn of its reactor as it has synced: other processes may
\* come between, but none of its own timers and calls
Turn == phase # "synced"

Sync == /\ phase = "idle"
        /\ phase' = "synced"
        /\ view' = db
        /\ paused' = dbPaused
        /\ UNCHANGED <<storageVars, checksum, queue, todo, historyVars, pushed, faults,
                       procrastinatorVars, notifierVars>>

\* The sync fails for ten minutes, and is given up: "will try again"
SyncFails == /\ phase = "idle"
             /\ phase' = "synced"
             /\ Fault
             /\ UNCHANGED <<storageVars, viewVars, checksum, queue, todo, historyVars, pushed,
                            procrastinatorVars, notifierVars>>

\* Mutant of Includes: the filter lets only deleted objects and devices pass.
IncludesNot(o) == view[o] = "gone" \/ o \in Devices

\* oid_to_obj and filter_obj: a class only with a new checksum
Includes(o) == \/ view[o] = "gone"
               \/ o \in Devices
               \/ o \in Classes /\ checksum[o] # view[o]

\* The classes of which the hub sees a new value before it polls them
Glimpses(seen) == glimpsed \cup {c \in Classes : checksum[c] # seen[c]}

\* While notifications are paused, or nothing has changed, the round ends.
PollNothing == /\ phase = "synced"
               /\ paused \/ invalid = {}
               /\ phase' = "idle"
               /\ glimpsed' = Glimpses(view)
               /\ UNCHANGED <<storageVars, viewVars, checksum, queue, todo, slipped, missed,
                              pushed, faults, procrastinatorVars, notifierVars>>

\* So it does if the storage raises: it is polled again in the next round.
PollFails == /\ phase = "synced"
             /\ ~paused
             /\ Fault
             /\ phase' = "idle"
             /\ glimpsed' = Glimpses(view)
             /\ UNCHANGED <<storageVars, viewVars, checksum, queue, todo, slipped, missed,
                            pushed, procrastinatorVars, notifierVars>>

\* The storage is polled, and what it tells goes through the pipeline into the queue.
\* The pipeline drops what raises in it, before or after the checksum is stored.
\* (processQueue asks again whether notifications are paused, of the same view.)
PollBut(raised, stored) ==
    LET sent == {o \in invalid \ raised : Includes(o)} IN
        /\ phase = "synced"
        /\ ~paused
        /\ invalid # {}
        /\ phase' = "processing"
        /\ invalid' = {}
        /\ queue' = queue \cup sent
        /\ todo' = queue'
        /\ checksum' = [c \in Classes |-> IF c \in (invalid \ raised) \cup stored
                                          THEN view[c] ELSE checksum[c]]
        /\ slipped' = (slipped \ sent) \cup raised \cup {o \in invalid : view[o] # db[o]}
                                       \cup ((invalid \cap glimpsed) \ sent)
        /\ glimpsed' = glimpsed \ invalid
        /\ UNCHANGED <<db, dbPaused, changes, viewVars, missed, pushed,
                       procrastinatorVars, notifierVars>>

Poll == PollBut({}, {}) /\ UNCHANGED faults

PollRaises == \E raised \in SUBSET invalid : \E stored \in SUBSET raised :
                  raised # {} /\ Fault /\ PollBut(raised, stored)

\* The round ends, with or without what is in the queue
EndRound(left) == /\ phase' = "idle"
                  /\ queue' = left
                  /\ todo' = {}

\* The service is told of an object (deviceUpdated, notifyAffectedDevices)
Tell(o) == IF o \in Classes
           THEN NotifySubdevices(o) /\ UNCHANGED procrastinatorVars
           ELSE DoLater({o}) /\ UNCHANGED notifierVars

\* processQueue, handle_oid
Dispatch(o) ==
    /\ phase = "processing"
    /\ o \in todo
    /\ view[o] # "gone"
    /\ todo' = todo \ {o}
    /\ Tell(o)
    /\ UNCHANGED <<storageVars, viewVars, checksum, phase, queue, historyVars, pushed, faults>>

\* An object that is not in the database raises, and the queue is kept
DispatchMissing(o) ==
    /\ phase = "processing"
    /\ o \in todo
    /\ view[o] = "gone"
    /\ EndRound(queue)
    /\ UNCHANGED <<storageVars, viewVars, checksum, historyVars, pushed, faults,
                   procrastinatorVars, notifierVars>>

\* So does a service that raises: this one, or another, before or after this one is told
DispatchFails(o) ==
    /\ phase = "processing"
    /\ o \in todo
    /\ view[o] # "gone"
    /\ Tell(o) \/ UNCHANGED <<procrastinatorVars, notifierVars>>
    /\ Fault
    /\ EndRound(queue)
    /\ UNCHANGED <<storageVars, viewVars, checksum, historyVars, pushed>>

\* All went well
Processed == /\ phase = "processing"
             /\ todo = {}
             /\ EndRound({})
             /\ UNCHANGED <<storageVars, viewVars, checksum, historyVars, pushed, faults,
                            procrastinatorVars, notifierVars>>

\* A collector asks for a service of a monitor that the hub does not know: the hub
\* syncs to look again (_monitor_exists)
LookUpMonitor == /\ Turn
                 /\ Fault
                 /\ view' = db
                 /\ paused' = dbPaused
                 /\ glimpsed' = Glimpses(db)
                 /\ UNCHANGED <<storageVars, managerVars, slipped, missed, pushed,
                                procrastinatorVars, notifierVars>>

----------------------------------------------------------------------------
(***************************************************************************)
(* Timers: those of the notifier, and those of the procrastinator.         *)
(***************************************************************************)
Present(ds) == {d \in ds : view[d] # "gone"}

\* A batch of the notifier: notify_function is _notifyAll
NotifyBatch(ds) ==
    /\ Turn
    /\ Batch(ds)
    /\ DoLater(Present(ds))
    /\ UNCHANGED <<storageVars, viewVars, managerVars, historyVars, pushed, faults>>

\* It raises for some of them, which are skipped (_call_notify_functions)
NotifySkips(ds) ==
    /\ Turn
    /\ Batch(ds)
    /\ \E skipped \in SUBSET ds : /\ skipped # {}
                                  /\ DoLater(Present(ds) \ skipped)
                                  /\ missed' = missed \cup skipped
    /\ Fault
    /\ UNCHANGED <<storageVars, viewVars, managerVars, slipped, glimpsed, pushed>>

\* The devices of the class cannot be read on after ds
NotifyFails(ds) ==
    /\ Turn
    /\ BatchFails(ds)
    /\ DoLater(Present(ds))
    /\ missed' = missed \cup (Working.todo \ ds)
    /\ Fault
    /\ UNCHANGED <<storageVars, viewVars, managerVars, slipped, glimpsed, pushed>>

\* _pushConfig, called by the procrastinator
PushConfig(long, d) ==
    /\ Turn
    /\ DoNow(long, d)
    /\ pushed' = [pushed EXCEPT ![d] = Config(view, d)]
    /\ missed' = missed \ {d}
    /\ UNCHANGED <<storageVars, viewVars, managerVars, slipped, glimpsed, faults, notifierVars>>

\* The call to the collector fails, and nobody looks at it; or the configuration raises
\* (_wrapFunction), and as there is none the collector is told to delete the device.
PushGoesWrong(long, d) ==
    /\ Turn
    /\ DoNow(long, d)
    /\ \/ UNCHANGED pushed
       \/ pushed' = [pushed EXCEPT ![d] = NoConfig(d)]
    /\ missed' = missed \cup {d}
    /\ Fault
    /\ UNCHANGED <<storageVars, viewVars, managerVars, slipped, glimpsed, notifierVars>>

\* _pushConfig raises, as it may for a device that is not in the database any more: the
\* devices that wait are left to themselves.
PushFails(long, d) ==
    /\ Turn
    /\ DoNowFails(long, d)
    /\ missed' = missed \cup devices
    /\ Fault \/ (view[d] = "gone" /\ UNCHANGED faults)
    /\ UNCHANGED <<storageVars, viewVars, managerVars, slipped, glimpsed, pushed, notifierVars>>

PushNothing(long) ==
    /\ Turn
    /\ DoNowIdle(long)
    /\ UNCHANGED <<storageVars, viewVars, managerVars, historyVars, pushed, faults, notifierVars>>

----------------------------------------------------------------------------
Process == \/ Sync \/ PollNothing \/ Poll \/ Processed
           \/ \E o \in todo : Dispatch(o) \/ DispatchMissing(o)

Notify == \E ds \in SUBSET Devices : NotifyBatch(ds)

Push == \E long \in BOOLEAN : PushNothing(long) \/ \E d \in devices : PushConfig(long, d)

\* What may go wrong
Mishap == \/ SyncFails \/ PollFails \/ PollRaises
          \/ \E o \in todo : DispatchFails(o)
          \/ LookUpMonitor
          \/ \E ds \in SUBSET Devices : NotifySkips(ds) \/ NotifyFails(ds)
          \/ \E long \in BOOLEAN, d \in devices : PushGoesWrong(long, d) \/ PushFails(long, d)

Next == \/ \E o \in Objects : Edit(o)
        \/ \E d \in Devices : Vanish(d)
        \/ SetPaused
        \/ Process
        \/ Notify
        \/ Push
        \/ Mishap

\* The looping call of the hub goes on, every 30 seconds, and its timers fire between
\* the rounds (SF: while it polls they cannot)
Fairness == WF_vars(Process) /\ SF_vars(Notify) /\ SF_vars(Push)

Spec == Init /\ [][Next]_vars /\ Fairness

----------------------------------------------------------------------------
TypeOK == /\ db \in [Objects -> Values]
          /\ dbPaused \in BOOLEAN
          /\ invalid \subseteq Objects
          /\ view \in [Objects -> Values]
          /\ paused \in BOOLEAN
          /\ checksum \in [Classes -> Values]
          /\ phase \in {"idle", "synced", "processing"}
          /\ queue \subseteq Objects
          /\ todo \subseteq queue
          /\ \A d \in Devices : pushed[d] \in [Sources(d) -> Values \cup {"none"}]
          /\ changes \in 0..MaxChanges
          /\ faults \in 0..MaxFaults
          /\ slipped \subseteq Objects
          /\ glimpsed \subseteq Classes
          /\ missed \subseteq Devices
          /\ ProcrastinatorTypeOK
          /\ NotifierTypeOK

\* The devices that wait for a push are never forgotten: there is a timer for them,
\* whichever timers overlap, unless a push that raised has left just these behind; and
\* the notifier, through whose batches devices come to wait, goes on while it has
\* something to do, with one timer only.
NotifierInStep == OneTimer

NeverStranded == (Awake \/ devices \subseteq missed) /\ NotifierInStep

\* What has been done for a change of d so far: the collector has it, or it is on its
\* way, or it was lost in one of the ways named.  (d itself may be gone.)
Underway(d) == \/ Sources(d) \cap (invalid \cup queue) # {}
               \/ d \in devices
               \/ d \in current.todo
               \/ \E i \in DOMAIN items : d \in Members[items[i]]

Excused(d) == \/ db[d] = "gone"
              \/ Sources(d) \cap slipped # {}
              \/ d \in missed

\* No change gets lost between the database, the queue of the hub, the notifier and
\* the procrastinator: a device whose configuration the collector does not have is on
\* its way, unless something has happened to the last change of an object that it is
\* configured by (it was polled before the hub could see it, a class was changed back
\* after the hub had seen and used it, or it raised in the pipeline), or to the last
\* push or notification of this very device.  What goes well later ends an excuse.
NoChangeForgotten == \A d \in Devices :
    pushed[d] # Config(db, d) => Underway(d) \/ Excused(d)

\* In the end the collector has the configuration of every device, but for those
\* excuses, once notifications are paused no more, and unless an object that it is
\* configured by was left in the queue by a round that was broken off.
ConfigArrives ==
    <>[]~dbPaused =>
        <>[]\A d \in Devices : \/ pushed[d] = Config(db, d)
                               \/ Excused(d)
                               \/ Sources(d) \cap queue # {}
=============================================================================
