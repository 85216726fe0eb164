-------------------------- MODULE ConfigPush_proofs --------------------------
(***************************************************************************)
(* No change of a configuration is forgotten between the database and the  *)
(* collectors, for every set of classes and devices, every size of a       *)
(* batch, and however often the database changes and steps fail.           *)
(*                                                                         *)
(* NoChangeForgotten compares what a collector has with the database; no   *)
(* step of the hub does.  The invariant goes by way of what the hub sees   *)
(* (view) and of the checksums of its filter, which is consulted instead   *)
(* of the view:                                                            *)
(*   Known, Checked  the view and the checksums are those of the database, *)
(*                   but for what is still to be polled, or has slipped;   *)
(*   Seen            between rounds the checksums are those of the view,   *)
(*                   but for what was seen, and not polled;                *)
(*   PushedView, PushedChecked                                             *)
(*                   what a collector has is what the hub sees, and what   *)
(*                   the checksums stand for, or there is something under  *)
(*                   way for it.                                           *)
(* The second of the last two is what lets the filter drop an object.      *)
(***************************************************************************)
EXTENDS ConfigPush, TLAPS

\* The notifier has d before it
Queueing(d) == d \in current.todo \/ \E i \in DOMAIN items : d \in Members[items[i]]

OnItsWay(d) == d \in devices \/ Queueing(d)

Lost(d) == db[d] = "gone" \/ d \in missed

\* What a round has still to dispatch, or the next one
Pending == IF phase = "processing" THEN todo ELSE queue

Typed == TypeOK /\ pushed = [d \in Devices |-> pushed[d]]

\* The item that is gone through is that of a class
CurrentTyped == current = NoItem \/ current.class \in Classes

Known == \A o \in Objects : view[o] # db[o] => o \in invalid \cup slipped

Gone == \A o \in Objects : view[o] = "gone" => db[o] = "gone"

Checked == \A c \in Classes : checksum[c] # db[c] => c \in invalid \cup slipped

Glimpse == glimpsed \subseteq invalid \cup slipped

Seen == phase # "synced" =>
            \A c \in Classes : view[c] # checksum[c] => c \in glimpsed \cup slipped

PushedView == \A d \in Devices : \A o \in Sources(d) :
    pushed[d][o] # view[o] => o \in invalid \cup Pending \cup slipped \/ OnItsWay(d) \/ Lost(d)

PushedChecked == \A d \in Devices : \A c \in Sources(d) \cap Classes :
    pushed[d][c] # checksum[c] => c \in glimpsed \cup Pending \cup slipped \/ OnItsWay(d) \/ Lost(d)

\* The part of NeverStranded that is about the procrastinator
Attended == Awake \/ devices \subseteq missed

Timers == Attended /\ NotifierInStep /\ CurrentTyped

Tracked == Known /\ Gone /\ Checked /\ Glimpse /\ Seen

Delivered == PushedView /\ PushedChecked

IInv == Typed /\ Timers /\ Tracked /\ Delivered
----------------------------------------------------------------------------
(***************************************************************************)
(* The notifier: it stays in step, and no device drops out of it that was  *)
(* not gone through.                                                       *)
(***************************************************************************)
Notifying == NotifierTypeOK /\ NotifierInStep /\ CurrentTyped

USE ConfigPushAssumption

\* There is an item to work on while there is a timer
LEMMA WorkingTyped ==
  ASSUME Notifying, current # NoItem \/ items # <<>>
  PROVE  /\ Working.class \in Classes /\ Working # NoItem
         /\ Working = [class |-> Working.class, todo |-> Working.todo]
         /\ Working.todo \in SUBSET UNION {Members[c] : c \in Classes}
         /\ Queued \in Seq(Classes)
         /\ \A d : Queueing(d) => d \in Working.todo \/ \E i \in DOMAIN Queued : d \in Members[Queued[i]]
<1> USE DEF Notifying, NotifierTypeOK, CurrentTyped
<1>1. CASE current # NoItem
  BY <1>1 DEF Working, Queued, Queueing, NoItem
<1>2. CASE current = NoItem
  <2>1. items # <<>> /\ Head(items) \in Classes /\ Tail(items) \in Seq(Classes)
    BY <1>2
  <2>2. Working = [class |-> Head(items), todo |-> Members[Head(items)]] /\ Queued = Tail(items)
    BY <1>2 DEF Working, Queued
  <2>3. ASSUME NEW d, NEW i \in DOMAIN items, d \in Members[items[i]]
        PROVE  d \in Working.todo \/ \E k \in DOMAIN Queued : d \in Members[Queued[k]]
    <3>1. CASE i = 1
      BY <2>1, <2>2, <2>3, <3>1
    <3>2. CASE i # 1
      <4>1. i - 1 \in DOMAIN Tail(items) /\ Tail(items)[i - 1] = items[i]
        BY <2>1, <2>3, <3>2
      <4>2. QED
        BY <4>1, <2>2, <2>3
    <3>3. QED
      BY <3>1, <3>2
  <2>4. ~ \E d : d \in current.todo
    BY <1>2 DEF NoItem
  <2>5. QED
    BY <2>1, <2>2, <2>3, <2>4 DEF Queueing, NoItem
<1>3. QED
  BY <1>1, <1>2

\* The next item takes the place of the one that is done
LEMMA SwitchKeeps ==
  ASSUME Notifying, current # NoItem \/ items # <<>>, calls > 0, SwitchToNextItem
  PROVE  /\ Notifying'
         /\ \A d : Queueing(d) => Queueing(d)' \/ d \in Working.todo
<1>1. Queued \in Seq(Classes)
  BY WorkingTyped
<1>2. calls = 1
  BY DEF Notifying, NotifierInStep, OneTimer
<1>3. CASE Queued = <<>>
  <2>1. current' = NoItem /\ items' = <<>> /\ calls' = 0
    BY <1>2, <1>3 DEF SwitchToNextItem
  <2>2. Notifying'
    BY <2>1 DEF Notifying, NotifierTypeOK, NotifierInStep, OneTimer, CurrentTyped, NoItem
  <2>3. QED
    BY <1>3, <2>2, WorkingTyped
<1>4. CASE Queued # <<>>
  <2>1. /\ current' = [class |-> Head(Queued), todo |-> Members[Head(Queued)]]
        /\ items' = Tail(Queued) /\ calls' = 1
    BY <1>2, <1>4 DEF SwitchToNextItem
  <2>2. Head(Queued) \in Classes /\ Tail(Queued) \in Seq(Classes)
    BY <1>1, <1>4
  <2>3. current' # NoItem
    BY <2>1, <2>2 DEF NoItem
  <2>4. Notifying'
    BY <2>1, <2>2, <2>3 DEF Notifying, NotifierTypeOK, NotifierInStep, OneTimer, CurrentTyped
  <2>5. ASSUME NEW d, NEW i \in DOMAIN Queued, d \in Members[Queued[i]]
        PROVE  Queueing(d)'
    <3>1. CASE i = 1
      BY <1>1, <1>4, <2>1, <2>5, <3>1 DEF Queueing
    <3>2. CASE i # 1
      <4>1. i - 1 \in DOMAIN Tail(Queued) /\ Tail(Queued)[i - 1] = Queued[i]
        BY <1>1, <1>4, <2>5, <3>2
      <4>2. QED
        BY <4>1, <2>1, <2>5 DEF Queueing
    <3>3. QED
      BY <3>1, <3>2
  <2>6. QED
    BY <2>4, <2>5, WorkingTyped
<1>5. QED
  BY <1>3, <1>4

\* A batch
LEMMA BatchKeeps ==
  ASSUME Notifying, NEW ds, Batch(ds)
  PROVE  /\ Notifying'
         /\ ds \subseteq Devices
         /\ \A d : Queueing(d) => Queueing(d)' \/ d \in ds
<1>1. calls > 0 /\ (current # NoItem \/ items # <<>>) /\ ds \in Batches
  BY DEF Batch
<1>2. ds \subseteq Working.todo /\ (Cardinality(ds) = BatchSize \/ ds = Working.todo)
  BY <1>1 DEF Batches
<1>3. ds \subseteq Devices
  BY <1>1, <1>2, WorkingTyped
<1>4. CASE Cardinality(ds) = BatchSize
  <2>1. /\ current' = [class |-> Working.class, todo |-> Working.todo \ ds]
        /\ items' = Queued /\ calls' = calls
    BY <1>1, <1>4, WorkingTyped DEF Batch
  <2>2. current' # NoItem
    BY <1>1, <2>1, WorkingTyped DEF NoItem
  <2>3. calls = 1
    BY <1>1 DEF Notifying, NotifierInStep, OneTimer
  <2>4. NotifierTypeOK'
    BY <1>1, <2>1, <2>3, WorkingTyped DEF NotifierTypeOK
  <2>5. NotifierInStep' /\ CurrentTyped'
    BY <1>1, <2>1, <2>2, <2>3, WorkingTyped DEF NotifierInStep, OneTimer, CurrentTyped
  <2>6. \A d : Queueing(d) => Queueing(d)' \/ d \in ds
    BY <1>1, <2>1, WorkingTyped DEF Queueing
  <2>7. QED
    BY <1>3, <2>4, <2>5, <2>6 DEF Notifying
<1>5. CASE Cardinality(ds) # BatchSize
  <2>1. SwitchToNextItem /\ ds = Working.todo
    BY <1>2, <1>5 DEF Batch
  <2>2. QED
    BY <1>1, <1>3, <2>1, SwitchKeeps
<1>6. QED
  BY <1>4, <1>5

\* A batch that is broken off
LEMMA BatchFailsKeeps ==
  ASSUME Notifying, NEW ds, BatchFails(ds)
  PROVE  /\ Notifying'
         /\ ds \subseteq Devices /\ Working.todo \subseteq Devices
         /\ \A d : Queueing(d) => Queueing(d)' \/ d \in Working.todo
<1>1. calls > 0 /\ (current # NoItem \/ items # <<>>) /\ SwitchToNextItem /\ ds \subseteq Working.todo
  BY DEF BatchFails, Batches
<1>2. Working.todo \subseteq Devices
  BY <1>1, WorkingTyped
<1>3. QED
  BY <1>1, <1>2, SwitchKeeps

\* A class that has changed
LEMMA NotifyKeeps ==
  ASSUME Notifying, NEW c \in Classes, NotifySubdevices(c)
  PROVE  /\ Notifying'
         /\ \A d : Queueing(d) \/ d \in Members[c] => Queueing(d)'
<1>1. CASE \E i \in DOMAIN items : items[i] = c
  BY <1>1 DEF NotifySubdevices, Notifying, NotifierTypeOK, NotifierInStep, OneTimer, CurrentTyped, Queueing
<1>2. CASE ~ \E i \in DOMAIN items : items[i] = c
  <2>1. /\ items' = Append(items, c) /\ current' = current
        /\ calls' = IF items = <<>> /\ current = NoItem THEN calls + 1 ELSE calls
    BY <1>2 DEF NotifySubdevices, WakesUp
  <2>2. items \in Seq(Classes) /\ items' \in Seq(Classes) /\ items' # <<>>
    BY <2>1 DEF Notifying, NotifierTypeOK
  <2>3. \A i \in DOMAIN items : i \in DOMAIN items' /\ items'[i] = items[i]
    BY <2>1, <2>2
  <2>4. Len(items) + 1 \in DOMAIN items' /\ items'[Len(items) + 1] = c
    BY <2>1, <2>2
  <2>5. Notifying'
    BY <2>1, <2>2 DEF Notifying, NotifierTypeOK, NotifierInStep, OneTimer, CurrentTyped
  <2>6. QED
    BY <2>1, <2>3, <2>4, <2>5 DEF Queueing
<1>3. QED
  BY <1>1, <1>2
----------------------------------------------------------------------------
(***************************************************************************)
(* The steps.  Frame says what a step leaves as it is, or moves one way    *)
(* only, when it has nothing to do with what the hub sees or polls.        *)
(***************************************************************************)
SourcesTyped == \A d \in Devices : d \in Sources(d) /\ Sources(d) \subseteq Objects

LEMMA SourcesAreObjects == SourcesTyped
BY DEF SourcesTyped, Sources, Objects

LEMMA InitIInv == Init => IInv
<1> SUFFICES ASSUME Init PROVE IInv
  OBVIOUS
<1>1. pushed = [d \in Devices |-> [o \in Sources(d) |-> "A"]]
  BY SourcesAreObjects DEF Init, Config, SourcesTyped
<1>2. NotifierTypeOK /\ ProcrastinatorTypeOK
  <2>1. NoItem \in [class : Classes \cup {"none"}, todo : SUBSET UNION {Members[c] : c \in Classes}]
    BY DEF NoItem
  <2>2. items = <<>> /\ current = NoItem /\ calls = 0 /\ devices = {} /\ timer = FALSE /\ chains = 0
    BY DEF Init, NotifierInit, ProcrastinatorInit
  <2>3. NotifierTypeOK
    <3>1. items \in Seq(Classes)
      BY <2>2
    <3>2. QED
      BY <2>1, <2>2, <3>1 DEF NotifierTypeOK
  <2>4. QED
    BY <2>2, <2>3 DEF ProcrastinatorTypeOK
<1>3. Typed
  <2>1. 0 \in 0..MaxChanges /\ 0 \in 0..MaxFaults
    OBVIOUS
  <2>2. db \in [Objects -> Values] /\ view \in [Objects -> Values] /\ checksum \in [Classes -> Values]
    BY DEF Init, Values
  <2>3. \A d \in Devices : pushed[d] \in [Sources(d) -> Values]
    BY <1>1 DEF Values
  <2>4. QED
    BY <1>1, <1>2, <2>1, <2>2, <2>3 DEF Init, Typed, TypeOK
<1>4. Timers
  BY DEF Init, Timers, Attended, Awake, NotifierInStep, OneTimer, CurrentTyped,
         ProcrastinatorInit, NotifierInit
<1>5. Tracked
  BY DEF Init, Tracked, Known, Gone, Checked, Glimpse, Seen, Objects
<1>6. Delivered
  BY <1>1, SourcesAreObjects DEF Init, Delivered, PushedView, PushedChecked, SourcesTyped, Objects
<1>7. QED
  BY <1>3, <1>4, <1>5, <1>6 DEF IInv

\* What the notifier and the procrastinator do, seen from the rest
Frame == /\ UNCHANGED <<db, invalid, view, checksum, glimpsed, slipped>>
         /\ missed \subseteq missed'

LEMMA FrameKeepsTracked ==
  ASSUME IInv, Frame, phase' # "synced" => phase # "synced"
  PROVE  Tracked'
BY DEF IInv, Tracked, Known, Gone, Checked, Glimpse, Seen, Frame, Objects

\* As long as a round goes on to have what it had, or has passed it on
LEMMA FrameKeepsDelivered ==
  ASSUME IInv, Frame, pushed' = pushed,
         \A d \in Devices : OnItsWay(d) => OnItsWay(d)' \/ Lost(d)',
         \A o \in Pending : o \in Pending' \/ \A d \in Devices : o \in Sources(d) => OnItsWay(d)' \/ Lost(d)'
  PROVE  Delivered'
<1>1. \A d \in Devices : Lost(d) => Lost(d)'
  BY DEF Lost, Frame
<1>2. PushedView'
  BY <1>1 DEF IInv, Delivered, PushedView, Frame
<1>3. PushedChecked'
  BY <1>1 DEF IInv, Delivered, PushedChecked, Frame
<1>4. QED
  BY <1>2, <1>3 DEF Delivered

\* Steps that touch neither the procrastinator nor the notifier
Idle == UNCHANGED <<procrastinatorVars, notifierVars>> /\ missed \subseteq missed'

LEMMA IdleKeeps ==
  ASSUME IInv, Idle
  PROVE  /\ Timers' /\ ProcrastinatorTypeOK' /\ NotifierTypeOK'
         /\ \A d : OnItsWay(d) => OnItsWay(d)'
<1>1. Timers'
  BY DEF IInv, Idle, Timers, Attended, Awake, NotifierInStep, OneTimer, CurrentTyped,
         procrastinatorVars, notifierVars
<1>2. ProcrastinatorTypeOK' /\ NotifierTypeOK'
  BY DEF IInv, Typed, TypeOK, Idle, ProcrastinatorTypeOK, NotifierTypeOK, procrastinatorVars, notifierVars
<1>3. \A d : OnItsWay(d) => OnItsWay(d)'
  BY DEF Idle, OnItsWay, Queueing, procrastinatorVars, notifierVars
<1>4. QED
  BY <1>1, <1>2, <1>3

\* The database changes, and the storage tells of it.
LEMMA CommitKeeps ==
  ASSUME IInv, NEW o \in Objects, NEW value \in Values, Commit(o, value), db[o] # "gone"
  PROVE  IInv'
<1> USE DEF Commit, Elsewhere, viewVars, managerVars, historyVars
<1>1. Idle
  BY DEF Idle
<1>2. Typed'
  BY <1>1, IdleKeeps DEF IInv, Typed, TypeOK
<1>3. Tracked'
  BY DEF IInv, Typed, TypeOK, Tracked, Known, Gone, Checked, Glimpse, Seen, Objects
<1>4. Delivered'
  <2>1. \A d \in Devices : Lost(d) => Lost(d)'
    BY DEF IInv, Typed, TypeOK, Lost, Objects
  <2>2. \A d \in Devices : OnItsWay(d) => OnItsWay(d)'
    BY <1>1, IdleKeeps
  <2>3. Pending' = Pending
    BY DEF Pending
  <2>4. PushedView'
    BY <2>1, <2>2, <2>3 DEF IInv, Delivered, PushedView
  <2>5. PushedChecked'
    BY <2>1, <2>2, <2>3 DEF IInv, Delivered, PushedChecked
  <2>6. QED
    BY <2>4, <2>5 DEF Delivered
<1>5. QED
  BY <1>1, <1>2, <1>3, <1>4, IdleKeeps DEF IInv

LEMMA SetPausedKeeps ==
  ASSUME IInv, SetPaused
  PROVE  IInv'
<1> USE DEF SetPaused, Elsewhere, viewVars, managerVars, historyVars
<1>1. Idle /\ Frame
  BY DEF Idle, Frame
<1>2. Typed'
  BY <1>1, IdleKeeps DEF IInv, Typed, TypeOK
<1>3. Tracked'
  BY <1>1, FrameKeepsTracked
<1>4. Delivered'
  BY <1>1, IdleKeeps, FrameKeepsDelivered DEF Pending
<1>5. QED
  BY <1>1, <1>2, <1>3, <1>4, IdleKeeps DEF IInv

\* The hub sees the database as it is: what was different is still to be polled.
LEMMA SyncKeeps ==
  ASSUME IInv, Sync
  PROVE  IInv'
<1> USE DEF Sync, storageVars, historyVars
<1>1. Idle
  BY DEF Idle
<1>2. Typed'
  BY <1>1, IdleKeeps DEF IInv, Typed, TypeOK
<1>3. Tracked'
  BY DEF IInv, Tracked, Known, Gone, Checked, Glimpse, Seen
<1>4. Delivered'
  <2>1. \A d \in Devices : Lost(d) => Lost(d)'
    BY DEF Lost
  <2>2. \A d \in Devices : OnItsWay(d) => OnItsWay(d)'
    BY <1>1, IdleKeeps
  <2>3. Pending' = Pending
    BY DEF Pending
  <2>4. PushedView'
    BY <2>1, <2>2, <2>3, SourcesAreObjects DEF IInv, Tracked, Known, Delivered, PushedView, SourcesTyped
  <2>5. PushedChecked'
    BY <2>1, <2>2, <2>3 DEF IInv, Delivered, PushedChecked
  <2>6. QED
    BY <2>4, <2>5 DEF Delivered
<1>5. QED
  BY <1>1, <1>2, <1>3, <1>4, IdleKeeps DEF IInv

LEMMA SyncFailsKeeps ==
  ASSUME IInv, SyncFails
  PROVE  IInv'
<1> USE DEF SyncFails, Fault, storageVars, viewVars, historyVars
<1>1. Idle /\ Frame
  BY DEF Idle, Frame
<1>2. Typed'
  BY <1>1, IdleKeeps DEF IInv, Typed, TypeOK
<1>3. Tracked'
  BY <1>1, FrameKeepsTracked
<1>4. Delivered'
  BY <1>1, IdleKeeps, FrameKeepsDelivered DEF Pending
<1>5. QED
  BY <1>1, <1>2, <1>3, <1>4, IdleKeeps DEF IInv

\* What the hub sees of a class before it polls is what has still to be polled, or slipped.
LEMMA GlimpsesAreKnown ==
  ASSUME IInv
  PROVE  /\ \A c \in Classes : checksum[c] # view[c] => c \in invalid \cup slipped
         /\ \A c \in Classes : checksum[c] # db[c] => c \in invalid \cup slipped
BY DEF IInv, Tracked, Known, Checked, Objects

\* The hub syncs outside of a round.
LEMMA LookUpMonitorKeeps ==
  ASSUME IInv, LookUpMonitor
  PROVE  IInv'
<1> USE DEF LookUpMonitor, Fault, Glimpses, storageVars, managerVars
<1>1. Idle
  BY DEF Idle
<1>2. Typed'
  BY <1>1, IdleKeeps DEF IInv, Typed, TypeOK
<1>3. Tracked'
  <2>1. Known' /\ Gone' /\ Checked'
    BY DEF IInv, Tracked, Known, Gone, Checked
  <2>2. Glimpse'
    BY GlimpsesAreKnown DEF IInv, Tracked, Glimpse
  <2>3. Seen'
    BY DEF Seen
  <2>4. QED
    BY <2>1, <2>2, <2>3 DEF Tracked
<1>4. Delivered'
  <2>1. \A d \in Devices : Lost(d) => Lost(d)'
    BY DEF Lost
  <2>2. \A d \in Devices : OnItsWay(d) => OnItsWay(d)'
    BY <1>1, IdleKeeps
  <2>3. Pending' = Pending
    BY DEF Pending
  <2>4. PushedView'
    BY <2>1, <2>2, <2>3, SourcesAreObjects DEF IInv, Tracked, Known, Delivered, PushedView, SourcesTyped
  <2>5. PushedChecked'
    BY <2>1, <2>2, <2>3 DEF IInv, Delivered, PushedChecked
  <2>6. QED
    BY <2>4, <2>5 DEF Delivered
<1>5. QED
  BY <1>1, <1>2, <1>3, <1>4, IdleKeeps DEF IInv

\* A round that ends at once.  What a class is seen as is remembered.
LEMMA PollNothingKeeps ==
  ASSUME IInv, PollNothing \/ PollFails
  PROVE  IInv'
<1>1. /\ glimpsed' = glimpsed \cup {c \in Classes : checksum[c] # view[c]}
      /\ phase' = "idle" /\ phase = "synced" /\ faults' \in 0..MaxFaults
      /\ UNCHANGED <<storageVars, viewVars, checksum, queue, todo, slipped, missed,
                     pushed, procrastinatorVars, notifierVars>>
  BY DEF PollNothing, PollFails, Fault, Glimpses, IInv, Typed, TypeOK
<1>2. UNCHANGED <<db, dbPaused, invalid, changes, view, paused>> /\ Idle
  BY <1>1 DEF Idle, storageVars, viewVars
<1>3. Typed'
  BY <1>1, <1>2, IdleKeeps DEF IInv, Typed, TypeOK
<1>4. Tracked'
  <2>1. Known' /\ Gone' /\ Checked'
    BY <1>1, <1>2 DEF IInv, Tracked, Known, Gone, Checked
  <2>2. Glimpse'
    BY <1>1, <1>2, GlimpsesAreKnown DEF IInv, Tracked, Glimpse
  <2>3. Seen'
    BY <1>1, <1>2 DEF Seen
  <2>4. QED
    BY <2>1, <2>2, <2>3 DEF Tracked
<1>5. Delivered'
  <2>1. \A d \in Devices : Lost(d) => Lost(d)'
    BY <1>1, <1>2 DEF Lost
  <2>2. \A d \in Devices : OnItsWay(d) => OnItsWay(d)'
    BY <1>2, IdleKeeps
  <2>3. Pending' = Pending
    BY <1>1 DEF Pending
  <2>4. PushedView'
    BY <1>1, <1>2, <2>1, <2>2, <2>3 DEF IInv, Delivered, PushedView
  <2>5. PushedChecked'
    BY <1>1, <1>2, <2>1, <2>2, <2>3 DEF IInv, Delivered, PushedChecked
  <2>6. QED
    BY <2>4, <2>5 DEF Delivered
<1>6. QED
  BY <1>2, <1>3, <1>4, <1>5, IdleKeeps DEF IInv

\* A round.  What the filter drops is what its checksum stands for already; what raises
\* in the pipeline has slipped.
LEMMA PollButKeeps ==
  ASSUME IInv, NEW raised, NEW stored, raised \subseteq invalid, stored \subseteq raised,
         PollBut(raised, stored), faults' \in 0..MaxFaults
  PROVE  IInv'
<1> DEFINE sent == {o \in invalid \ raised : Includes(o)}
<1>1. /\ phase = "synced" /\ phase' = "processing"
      /\ invalid' = {} /\ todo' = queue' /\ queue' = queue \cup sent
      /\ checksum' = [c \in Classes |-> IF c \in (invalid \ raised) \cup stored
                                        THEN view[c] ELSE checksum[c]]
      /\ slipped' = (slipped \ sent) \cup raised \cup {o \in invalid : view[o] # db[o]}
                                     \cup ((invalid \cap glimpsed) \ sent)
      /\ glimpsed' = glimpsed \ invalid
      /\ UNCHANGED <<db, dbPaused, changes, view, paused, missed, pushed>>
  BY DEF PollBut, viewVars
<1>2. Idle
  BY DEF PollBut, Idle
<1>3. sent \subseteq invalid /\ raised \cap sent = {}
  OBVIOUS
<1>4. \A c \in Classes : /\ c \in (invalid \ raised) \cup stored => checksum'[c] = view[c]
                         /\ c \notin (invalid \ raised) \cup stored => checksum'[c] = checksum[c]
  BY <1>1
<1>5. Typed'
  BY <1>1, <1>2, <1>3, IdleKeeps DEF IInv, Typed, TypeOK, Objects
<1> HIDE DEF sent
<1>6. Tracked'
  <2>1. Known' /\ Gone'
    BY <1>1, <1>3 DEF IInv, Tracked, Known, Gone
  <2>2. Checked'
    BY <1>1, <1>3, <1>4 DEF IInv, Tracked, Checked, Objects
  <2>3. Glimpse'
    BY <1>1, <1>3 DEF IInv, Tracked, Glimpse
  <2>4. Seen'
    BY <1>1, <1>3, <1>4, GlimpsesAreKnown DEF Seen
  <2>5. QED
    BY <2>1, <2>2, <2>3, <2>4 DEF Tracked
<1>7. Delivered'
  <2>1. \A d \in Devices : Lost(d) => Lost(d)'
    BY <1>1 DEF Lost
  <2>2. \A d \in Devices : OnItsWay(d) => OnItsWay(d)'
    BY <1>2, IdleKeeps
  <2>3. Pending = queue /\ Pending' = queue'
    BY <1>1 DEF Pending
  <2>4. ASSUME NEW d \in Devices, NEW o \in Sources(d), o \in invalid, o \notin sent, pushed[d][o] # view[o]
        PROVE  o \in queue \cup slipped' \/ OnItsWay(d) \/ Lost(d)
    <3>1. CASE o \in raised
      BY <1>1, <3>1
    <3>2. CASE o \notin raised
      <4>1. o \in Classes /\ checksum[o] = view[o]
        BY <2>4, <3>2, SourcesAreObjects DEF sent, Includes, SourcesTyped, Objects
      <4>2. o \in glimpsed \cup queue \cup slipped \/ OnItsWay(d) \/ Lost(d)
        BY <2>3, <2>4, <4>1 DEF IInv, Delivered, PushedChecked
      <4>3. QED
        BY <1>1, <2>4, <4>2
    <3>3. QED
      BY <3>1, <3>2
  <2>5. ASSUME NEW d \in Devices, NEW o \in Sources(d), pushed[d][o] # view[o]
        PROVE  o \in Pending' \cup slipped' \/ OnItsWay(d) \/ Lost(d)
    <3>1. o \in invalid \cup queue \cup slipped \/ OnItsWay(d) \/ Lost(d)
      BY <2>3, <2>5 DEF IInv, Delivered, PushedView
    <3>2. CASE o \in sent
      BY <1>1, <2>3, <3>2
    <3>3. CASE o \notin sent
      BY <1>1, <2>3, <2>4, <2>5, <3>1, <3>3
    <3>4. QED
      BY <3>2, <3>3
  <2>6. PushedView'
    BY <1>1, <2>1, <2>2, <2>5 DEF PushedView, Sources
  <2>7. ASSUME NEW d \in Devices, NEW c \in Sources(d) \cap Classes, pushed[d][c] # checksum'[c]
        PROVE  c \in glimpsed' \cup Pending' \cup slipped' \/ OnItsWay(d) \/ Lost(d)
    <3>1. CASE c \in raised
      BY <1>1, <3>1
    <3>2. CASE c \in invalid \ raised
      BY <1>4, <2>5, <2>7, <3>2
    <3>3. CASE c \notin invalid
      <4>1. c \in glimpsed \cup queue \cup slipped \/ OnItsWay(d) \/ Lost(d)
        BY <1>4, <2>3, <2>7, <3>3 DEF IInv, Delivered, PushedChecked
      <4>2. QED
        BY <1>1, <1>3, <2>3, <3>3, <4>1
    <3>4. QED
      BY <3>1, <3>2, <3>3
  <2>8. PushedChecked'
    BY <1>1, <2>1, <2>2, <2>7 DEF PushedChecked, Sources
  <2>9. QED
    BY <2>6, <2>8 DEF Delivered
<1>8. QED
  BY <1>2, <1>5, <1>6, <1>7, IdleKeeps DEF IInv

LEMMA PollKeeps ==
  ASSUME IInv, Poll \/ PollRaises
  PROVE  IInv'
<1>1. CASE Poll
  <2>1. PollBut({}, {}) /\ faults' \in 0..MaxFaults
    BY <1>1 DEF Poll, IInv, Typed, TypeOK
  <2>2. QED
    BY <2>1, PollButKeeps
<1>2. CASE PollRaises
  <2>1. PICK raised \in SUBSET invalid : \E stored \in SUBSET raised :
            Fault /\ PollBut(raised, stored)
    BY <1>2 DEF PollRaises
  <2>2. PICK stored \in SUBSET raised : Fault /\ PollBut(raised, stored)
    BY <2>1
  <2>3. faults' \in 0..MaxFaults
    BY <2>2 DEF Fault, IInv, Typed, TypeOK
  <2>4. QED
    BY <2>2, <2>3, PollButKeeps
<1>3. QED
  BY <1>1, <1>2

\* The devices of an object that the service is told of are on their way.
LEMMA TellKeeps ==
  ASSUME IInv, NEW o \in Objects, Tell(o), missed \subseteq missed'
  PROVE  /\ Timers' /\ ProcrastinatorTypeOK' /\ NotifierTypeOK'
         /\ \A d : OnItsWay(d) => OnItsWay(d)'
         /\ \A d \in Devices : o \in Sources(d) => OnItsWay(d)'
<1>1. CASE o \in Classes
  <2>1. NotifySubdevices(o) /\ UNCHANGED procrastinatorVars
    BY <1>1 DEF Tell
  <2>2. Notifying' /\ \A d : Queueing(d) \/ d \in Members[o] => Queueing(d)'
    BY <1>1, <2>1, NotifyKeeps DEF IInv, Typed, TypeOK, Timers, Notifying
  <2>3. ProcrastinatorTypeOK' /\ Timers'
    BY <2>1, <2>2 DEF IInv, Typed, TypeOK, Timers, Notifying, Attended, Awake,
                      ProcrastinatorTypeOK, procrastinatorVars
  <2>4. \A d : OnItsWay(d) => OnItsWay(d)'
    BY <2>1, <2>2 DEF OnItsWay, procrastinatorVars
  <2>5. \A d \in Devices : o \in Sources(d) => OnItsWay(d)'
    BY <1>1, <2>2 DEF Sources, OnItsWay
  <2>6. QED
    BY <2>2, <2>3, <2>4, <2>5 DEF Notifying
<1>2. CASE o \notin Classes
  <2>1. DoLater({o}) /\ UNCHANGED notifierVars /\ o \in Devices
    BY <1>2 DEF Tell, Objects
  <2>2. devices' = devices \cup {o} /\ timer' = TRUE /\ chains' = chains
    BY <2>1 DEF DoLater, IInv, Typed, TypeOK, ProcrastinatorTypeOK
  <2>3. ProcrastinatorTypeOK' /\ NotifierTypeOK'
    BY <2>1, <2>2 DEF IInv, Typed, TypeOK, ProcrastinatorTypeOK, NotifierTypeOK, notifierVars
  <2>4. Timers'
    BY <2>1, <2>2 DEF IInv, Timers, Attended, Awake, NotifierInStep, OneTimer, CurrentTyped, notifierVars
  <2>5. \A d : OnItsWay(d) => OnItsWay(d)'
    BY <2>1, <2>2 DEF OnItsWay, Queueing, notifierVars
  <2>6. \A d \in Devices : o \in Sources(d) => OnItsWay(d)'
    BY <1>2, <2>2 DEF Sources, OnItsWay
  <2>7. QED
    BY <2>3, <2>4, <2>5, <2>6
<1>3. QED
  BY <1>1, <1>2

LEMMA DispatchKeeps ==
  ASSUME IInv, NEW o \in todo, Dispatch(o)
  PROVE  IInv'
<1> USE DEF Dispatch, storageVars, viewVars, historyVars
<1>1. Frame /\ o \in Objects
  BY DEF Frame, IInv, Typed, TypeOK
<1>2. Pending = todo /\ Pending' = todo \ {o}
  BY DEF Pending
<1>3. /\ Timers' /\ ProcrastinatorTypeOK' /\ NotifierTypeOK'
      /\ \A d : OnItsWay(d) => OnItsWay(d)'
      /\ \A d \in Devices : o \in Sources(d) => OnItsWay(d)'
  BY <1>1, TellKeeps
<1>4. Typed'
  BY <1>3 DEF IInv, Typed, TypeOK
<1>5. Tracked' /\ Delivered'
  BY <1>1, <1>2, <1>3, FrameKeepsTracked, FrameKeepsDelivered
<1>6. QED
  BY <1>3, <1>4, <1>5 DEF IInv

\* A round ends.  One that is broken off keeps its queue.
LEMMA EndRoundKeeps ==
  ASSUME IInv, phase = "processing", Frame,
         UNCHANGED <<pushed, dbPaused, paused, changes, slipped, glimpsed, missed>>,
         faults' \in 0..MaxFaults,
         EndRound(queue) \/ (todo = {} /\ EndRound({})),
         Timers', ProcrastinatorTypeOK', NotifierTypeOK',
         \A d : OnItsWay(d) => OnItsWay(d)'
  PROVE  IInv'
<1> USE DEF EndRound
<1>1. Typed'
  BY DEF IInv, Typed, TypeOK, Frame
<1>2. Tracked'
  BY FrameKeepsTracked
<1>3. Pending \subseteq Pending'
  BY DEF Pending, IInv, Typed, TypeOK
<1>4. Delivered'
  BY <1>3, FrameKeepsDelivered
<1>5. QED
  BY <1>1, <1>2, <1>4 DEF IInv

LEMMA RoundEndsKeep ==
  ASSUME IInv, Processed \/ \E o \in todo : DispatchMissing(o) \/ DispatchFails(o)
  PROVE  IInv'
<1>1. /\ phase = "processing" /\ Frame
      /\ UNCHANGED <<pushed, dbPaused, paused, changes, slipped, glimpsed, missed>>
      /\ EndRound(queue) \/ (todo = {} /\ EndRound({}))
  BY DEF Processed, DispatchMissing, DispatchFails, Frame, storageVars, viewVars, historyVars
<1>2. faults' \in 0..MaxFaults
  BY DEF Processed, DispatchMissing, DispatchFails, Fault, IInv, Typed, TypeOK
<1>3. Idle \/ \E o \in Objects : Tell(o)
  BY <1>1 DEF Processed, DispatchMissing, DispatchFails, Idle, IInv, Typed, TypeOK
<1>4. Timers' /\ ProcrastinatorTypeOK' /\ NotifierTypeOK' /\ \A d : OnItsWay(d) => OnItsWay(d)'
  BY <1>1, <1>3, IdleKeeps, TellKeeps
<1>5. QED
  BY <1>1, <1>2, <1>4, EndRoundKeeps

----------------------------------------------------------------------------
\* Devices that are gone are not notified, and need not be.
LEMMA PresentOrGone ==
  ASSUME IInv, NEW ds, ds \subseteq Devices
  PROVE  Present(ds) \subseteq ds /\ \A d \in ds : d \in Present(ds) \/ db[d] = "gone"
BY DEF Present, IInv, Tracked, Gone, Objects

\* The procrastinator is given devices.
LEMMA DoLaterKeeps ==
  ASSUME IInv, NEW ds, ds \subseteq Devices, DoLater(ds), missed \subseteq missed'
  PROVE  ProcrastinatorTypeOK' /\ Attended' /\ devices' = devices \cup ds
BY DEF DoLater, IInv, Typed, TypeOK, ProcrastinatorTypeOK, Timers, Attended, Awake

\* A batch, and one that is broken off: its devices go to the procrastinator.
LEMMA NotifyBatchKeeps ==
  ASSUME IInv, NEW ds, NotifyBatch(ds)
  PROVE  IInv'
<1> USE DEF NotifyBatch, storageVars, viewVars, managerVars, historyVars
<1>1. Notifying' /\ ds \subseteq Devices /\ \A d : Queueing(d) => Queueing(d)' \/ d \in ds
  BY BatchKeeps DEF IInv, Typed, TypeOK, Timers, Notifying
<1>2. Present(ds) \subseteq Devices /\ \A d \in ds : d \in Present(ds) \/ db[d] = "gone"
  BY <1>1, PresentOrGone
<1>3. ProcrastinatorTypeOK' /\ Attended' /\ devices' = devices \cup Present(ds)
  BY <1>2, DoLaterKeeps
<1>4. Typed' /\ Timers'
  BY <1>1, <1>3 DEF IInv, Typed, TypeOK, Timers, Notifying
<1>5. Frame
  BY DEF Frame
<1>6. \A d \in Devices : OnItsWay(d) => OnItsWay(d)' \/ Lost(d)'
  BY <1>1, <1>2, <1>3 DEF OnItsWay, Lost
<1>7. Pending' = Pending
  BY DEF Pending
<1>8. Tracked' /\ Delivered'
  BY <1>5, <1>6, <1>7, FrameKeepsTracked, FrameKeepsDelivered
<1>9. QED
  BY <1>4, <1>8 DEF IInv

\* The devices that are skipped are excused.
LEMMA NotifySkipsKeeps ==
  ASSUME IInv, NEW ds, NotifySkips(ds)
  PROVE  IInv'
<1> USE DEF NotifySkips, Fault, storageVars, viewVars, managerVars
<1>1. Notifying' /\ ds \subseteq Devices /\ \A d : Queueing(d) => Queueing(d)' \/ d \in ds
  BY BatchKeeps DEF IInv, Typed, TypeOK, Timers, Notifying
<1>2. Present(ds) \subseteq Devices /\ \A d \in ds : d \in Present(ds) \/ db[d] = "gone"
  BY <1>1, PresentOrGone
<1>3. PICK skipped \in SUBSET ds : DoLater(Present(ds) \ skipped) /\ missed' = missed \cup skipped
  OBVIOUS
<1>4. ProcrastinatorTypeOK' /\ Attended' /\ devices' = devices \cup (Present(ds) \ skipped)
  BY <1>2, <1>3, DoLaterKeeps
<1>5. Typed' /\ Timers'
  BY <1>1, <1>3, <1>4 DEF IInv, Typed, TypeOK, Timers, Notifying
<1>6. Frame
  BY <1>3 DEF Frame
<1>7. \A d \in Devices : OnItsWay(d) => OnItsWay(d)' \/ Lost(d)'
  BY <1>1, <1>2, <1>3, <1>4 DEF OnItsWay, Lost
<1>8. Pending' = Pending
  BY DEF Pending
<1>9. Tracked' /\ Delivered'
  BY <1>6, <1>7, <1>8, FrameKeepsTracked, FrameKeepsDelivered
<1>10. QED
  BY <1>5, <1>9 DEF IInv

LEMMA NotifyFailsKeeps ==
  ASSUME IInv, NEW ds, NotifyFails(ds)
  PROVE  IInv'
<1> USE DEF NotifyFails, Fault, storageVars, viewVars, managerVars
<1>1. /\ Notifying' /\ ds \subseteq Devices /\ Working.todo \subseteq Devices
      /\ \A d : Queueing(d) => Queueing(d)' \/ d \in Working.todo
  BY BatchFailsKeeps DEF IInv, Typed, TypeOK, Timers, Notifying
<1>2. Present(ds) \subseteq Devices /\ \A d \in ds : d \in Present(ds) \/ db[d] = "gone"
  BY <1>1, PresentOrGone
<1>3. ProcrastinatorTypeOK' /\ Attended' /\ devices' = devices \cup Present(ds)
  BY <1>2, DoLaterKeeps
<1>4. Typed' /\ Timers'
  BY <1>1, <1>3 DEF IInv, Typed, TypeOK, Timers, Notifying
<1>5. Frame
  BY DEF Frame
<1>6. \A d \in Devices : OnItsWay(d) => OnItsWay(d)' \/ Lost(d)'
  BY <1>1, <1>2, <1>3 DEF OnItsWay, Lost
<1>7. Pending' = Pending
  BY DEF Pending
<1>8. Tracked' /\ Delivered'
  BY <1>5, <1>6, <1>7, FrameKeepsTracked, FrameKeepsDelivered
<1>9. QED
  BY <1>4, <1>8 DEF IInv

----------------------------------------------------------------------------
\* Timers run on while devices are left.
LEMMA ChainsGoOn ==
  ASSUME IInv, NEW long \in BOOLEAN, Running(long)
  PROVE  ChainsLeft(long) \in Nat /\ timer \in BOOLEAN
BY DEF IInv, Typed, TypeOK, ProcrastinatorTypeOK, Running, ChainsLeft

\* A device is taken, and the timers that are left attend to the others.
LEMMA DoNowKeeps ==
  ASSUME IInv, NEW long \in BOOLEAN, NEW d \in devices, DoNow(long, d), UNCHANGED notifierVars,
         missed \ {d} \subseteq missed'
  PROVE  /\ Timers' /\ ProcrastinatorTypeOK' /\ NotifierTypeOK'
         /\ \A e \in Devices : OnItsWay(e) => OnItsWay(e)' \/ e = d
<1> USE DEF DoNow, notifierVars
<1>1. /\ d \in Devices /\ devices' = devices \ {d} /\ timer' = (timer /\ ~long)
      /\ chains' = IF devices \ {d} # {} THEN ChainsLeft(long) + 1 ELSE ChainsLeft(long)
  BY DEF Continues, IInv, Typed, TypeOK, ProcrastinatorTypeOK
<1>2. ProcrastinatorTypeOK' /\ Attended'
  BY <1>1, ChainsGoOn DEF IInv, Typed, TypeOK, ProcrastinatorTypeOK, Attended, Awake
<1>3. Timers' /\ NotifierTypeOK'
  BY <1>2 DEF IInv, Typed, TypeOK, Timers, NotifierInStep, OneTimer, CurrentTyped, NotifierTypeOK
<1>4. \A e \in Devices : OnItsWay(e) => OnItsWay(e)' \/ e = d
  BY <1>1 DEF OnItsWay, Queueing
<1>5. QED
  BY <1>2, <1>3, <1>4

\* The collector gets what the hub sees, which between rounds is what the checksums
\* stand for.
LEMMA PushConfigKeeps ==
  ASSUME IInv, NEW long \in BOOLEAN, NEW d \in devices, PushConfig(long, d)
  PROVE  IInv'
<1> USE DEF PushConfig, storageVars, viewVars, managerVars
<1>1. /\ Timers' /\ ProcrastinatorTypeOK' /\ NotifierTypeOK' /\ d \in Devices
      /\ \A e \in Devices : OnItsWay(e) => OnItsWay(e)' \/ e = d
  BY DoNowKeeps DEF IInv, Typed, TypeOK, ProcrastinatorTypeOK
<1>2. /\ pushed' = [e \in Devices |-> IF e = d THEN Config(view, d) ELSE pushed[e]]
      /\ Config(view, d) \in [Sources(d) -> Values]
      /\ \A o \in Sources(d) : pushed'[d][o] = view[o]
  BY <1>1, SourcesAreObjects DEF IInv, Typed, TypeOK, Config, SourcesTyped
<1>3. Typed'
  BY <1>1, <1>2 DEF IInv, Typed, TypeOK
<1>4. Tracked'
  BY DEF IInv, Tracked, Known, Gone, Checked, Glimpse, Seen
<1>5. \A e \in Devices : Lost(e) => Lost(e)' \/ e = d
  BY DEF Lost
<1>6. Pending' = Pending
  BY DEF Pending
<1>7. PushedView'
  BY <1>1, <1>2, <1>5, <1>6 DEF IInv, Delivered, PushedView
<1>8. PushedChecked'
  <2>1. \A c \in Sources(d) \cap Classes : pushed'[d][c] # checksum[c] => c \in glimpsed \cup slipped
    BY <1>2 DEF IInv, Tracked, Seen, Turn
  <2>2. QED
    BY <1>1, <1>2, <1>5, <1>6, <2>1 DEF IInv, Delivered, PushedChecked
<1>9. QED
  BY <1>1, <1>3, <1>4, <1>7, <1>8 DEF IInv, Delivered

\* A push that goes wrong is excused, whatever the collector has then.
LEMMA PushGoesWrongKeeps ==
  ASSUME IInv, NEW long \in BOOLEAN, NEW d \in devices, PushGoesWrong(long, d)
  PROVE  IInv'
<1> USE DEF PushGoesWrong, Fault, storageVars, viewVars, managerVars
<1>1. /\ Timers' /\ ProcrastinatorTypeOK' /\ NotifierTypeOK' /\ d \in Devices
      /\ \A e \in Devices : OnItsWay(e) => OnItsWay(e)' \/ e = d
  BY DoNowKeeps DEF IInv, Typed, TypeOK, ProcrastinatorTypeOK
<1>2. /\ pushed' = [e \in Devices |-> pushed'[e]]
      /\ pushed'[d] \in [Sources(d) -> Values \cup {"none"}]
      /\ \A e \in Devices \ {d} : pushed'[e] = pushed[e]
  BY <1>1 DEF IInv, Typed, TypeOK, NoConfig
<1>3. Typed'
  BY <1>1, <1>2 DEF IInv, Typed, TypeOK
<1>4. Tracked'
  BY DEF IInv, Tracked, Known, Gone, Checked, Glimpse, Seen
<1>5. Lost(d)' /\ \A e \in Devices : Lost(e) => Lost(e)'
  BY DEF Lost
<1>6. Pending' = Pending
  BY DEF Pending
<1>7. PushedView'
  BY <1>1, <1>2, <1>5, <1>6 DEF IInv, Delivered, PushedView
<1>8. PushedChecked'
  BY <1>1, <1>2, <1>5, <1>6 DEF IInv, Delivered, PushedChecked
<1>9. QED
  BY <1>1, <1>3, <1>4, <1>7, <1>8 DEF IInv, Delivered

\* A push that raises leaves the devices that wait behind, and is excused.
LEMMA PushFailsKeeps ==
  ASSUME IInv, NEW long \in BOOLEAN, NEW d \in devices, PushFails(long, d)
  PROVE  IInv'
<1> USE DEF PushFails, DoNowFails, Fault, storageVars, viewVars, managerVars, notifierVars
<1>1. ProcrastinatorTypeOK' /\ Attended'
  BY ChainsGoOn DEF IInv, Typed, TypeOK, ProcrastinatorTypeOK, Attended
<1>2. Typed'
  BY <1>1 DEF IInv, Typed, TypeOK, NotifierTypeOK, ProcrastinatorTypeOK
<1>3. Timers'
  BY <1>1 DEF IInv, Timers, NotifierInStep, OneTimer, CurrentTyped
<1>4. Frame
  BY DEF Frame
<1>5. \A e \in Devices : OnItsWay(e) => OnItsWay(e)' \/ Lost(e)'
  BY DEF OnItsWay, Queueing, Lost
<1>6. Pending' = Pending
  BY DEF Pending
<1>7. Tracked' /\ Delivered'
  BY <1>4, <1>5, <1>6, FrameKeepsTracked, FrameKeepsDelivered
<1>8. QED
  BY <1>2, <1>3, <1>7 DEF IInv

LEMMA PushNothingKeeps ==
  ASSUME IInv, NEW long \in BOOLEAN, PushNothing(long)
  PROVE  IInv'
<1> USE DEF PushNothing, DoNowIdle, storageVars, viewVars, managerVars, historyVars, notifierVars
<1>1. ProcrastinatorTypeOK' /\ Attended'
  BY ChainsGoOn DEF IInv, Typed, TypeOK, ProcrastinatorTypeOK, Attended, Awake
<1>2. Typed'
  BY <1>1 DEF IInv, Typed, TypeOK, NotifierTypeOK
<1>3. Timers'
  BY <1>1 DEF IInv, Timers, NotifierInStep, OneTimer, CurrentTyped
<1>4. Frame
  BY DEF Frame
<1>5. \A e \in Devices : OnItsWay(e) => OnItsWay(e)'
  BY DEF OnItsWay, Queueing
<1>6. Pending' = Pending
  BY DEF Pending
<1>7. Tracked' /\ Delivered'
  BY <1>4, <1>5, <1>6, FrameKeepsTracked, FrameKeepsDelivered
<1>8. QED
  BY <1>2, <1>3, <1>7 DEF IInv

LEMMA StutterKeeps ==
  ASSUME IInv, UNCHANGED vars
  PROVE  IInv'
<1> USE DEF vars, storageVars, viewVars, managerVars, historyVars
<1>1. Idle /\ Frame
  BY DEF Idle, Frame
<1>2. Typed'
  BY <1>1, IdleKeeps DEF IInv, Typed, TypeOK
<1>3. Tracked' /\ Delivered'
  BY <1>1, IdleKeeps, FrameKeepsTracked, FrameKeepsDelivered DEF Pending
<1>4. QED
  BY <1>1, <1>2, <1>3, IdleKeeps DEF IInv

LEMMA NextKeeps == IInv /\ [Next]_vars => IInv'
<1> SUFFICES ASSUME IInv, [Next]_vars PROVE IInv'
  OBVIOUS
<1>1. ASSUME NEW o \in Objects, Edit(o) PROVE IInv'
  BY <1>1, CommitKeeps DEF Edit, Values
<1>2. ASSUME NEW d \in Devices, Vanish(d) PROVE IInv'
  BY <1>2, CommitKeeps DEF Vanish, Values, Objects
<1>3. CASE Process
  BY <1>3, SyncKeeps, PollNothingKeeps, PollKeeps, DispatchKeeps, RoundEndsKeep DEF Process
<1>4. CASE Notify
  BY <1>4, NotifyBatchKeeps DEF Notify
<1>5. CASE Push
  BY <1>5, PushConfigKeeps, PushNothingKeeps DEF Push
<1>6. CASE SetPaused
  BY <1>6, SetPausedKeeps
<1>7. CASE Mishap
  <2>1. CASE SyncFails \/ PollFails \/ PollRaises \/ LookUpMonitor
    BY <2>1, SyncFailsKeeps, PollNothingKeeps, PollKeeps, LookUpMonitorKeeps
  <2>2. CASE \E o \in todo : DispatchFails(o)
    BY <2>2, RoundEndsKeep
  <2>3. CASE \E ds \in SUBSET Devices : NotifySkips(ds) \/ NotifyFails(ds)
    BY <2>3, NotifySkipsKeeps, NotifyFailsKeeps
  <2>4. CASE \E long \in BOOLEAN, d \in devices : PushGoesWrong(long, d) \/ PushFails(long, d)
    BY <2>4, PushGoesWrongKeeps, PushFailsKeeps
  <2>5. QED
    BY <1>7, <2>1, <2>2, <2>3, <2>4 DEF Mishap
<1>8. QED
  BY <1>1, <1>2, <1>3, <1>4, <1>5, <1>6, <1>7, StutterKeeps DEF Next

LEMMA Invariance == Spec => []IInv
BY InitIInv, NextKeeps, PTL DEF Spec

----------------------------------------------------------------------------
\* Hub, notifier and procrastinator keep their types.
THEOREM TypeCorrect == Spec => []TypeOK
<1>1. IInv => TypeOK
  BY DEF IInv, Typed
<1>2. QED
  BY <1>1, Invariance, PTL

\* Devices that wait for a push have a timer that will take them, but for those that a
\* push that raised has left behind, and the notifier has one timer while it has
\* something to do, and none otherwise (Procrastinate._doNow, BatchNotifier).
THEOREM DevicesAreNotStranded == Spec => []NeverStranded
<1>1. IInv => NeverStranded
  BY DEF IInv, Timers, Attended, NeverStranded
<1>2. QED
  BY <1>1, Invariance, PTL

\* A configuration that is not what the database says is on its way, or lost in one of
\* the ways that Excused names.
THEOREM ChangesAreNotForgotten == Spec => []NoChangeForgotten
<1>1. IInv => NoChangeForgotten
  <2> SUFFICES ASSUME IInv, NEW d \in Devices, pushed[d] # Config(db, d)
               PROVE  Underway(d) \/ Excused(d)
    BY DEF NoChangeForgotten
  <2>1. PICK o \in Sources(d) : pushed[d][o] # db[o]
    BY DEF IInv, Typed, TypeOK, Config
  <2>2. CASE o \in invalid \cup slipped
    BY <2>1, <2>2 DEF Underway, Excused
  <2>3. CASE o \notin invalid \cup slipped
    <3>1. view[o] = db[o]
      BY <2>3, SourcesAreObjects DEF IInv, Tracked, Known, SourcesTyped
    <3>2. o \in Pending \/ OnItsWay(d) \/ Lost(d)
      BY <2>1, <2>3, <3>1 DEF IInv, Delivered, PushedView
    <3>3. Pending \subseteq queue
      BY DEF Pending, IInv, Typed, TypeOK
    <3>4. QED
      BY <2>1, <3>2, <3>3 DEF OnItsWay, Queueing, Lost, Underway, Excused
  <2>4. QED
    BY <2>2, <2>3
<1>2. QED
  BY <1>1, Invariance, PTL
=============================================================================
