# Zenoss: a verification project

TLA+ specifications of the concurrent core of Zenoss (`src/Products`), the TLC
models that check them and the TLAPS proofs about them.

Zenoss monitors devices. *Collector daemons* (zenperfsnmp, zenping, zenmodeler,
zentrap, ...) talk over Twisted's Perspective Broker to *ZenHub*, which answers
their service calls, mostly by handing them to *zenhubworkers*, other processes that
have the object database open. ZenHub also pushes changes of the database
(*invalidations*) to the collectors. *Jobs* run in celery workers.

Each daemon is one Twisted reactor thread. A handler runs to the end, with every
callback it fires, before anything else does, so a handler is one action here; what
interleaves is what is outstanding between two handlers: remote calls, timers,
deferreds, connections. That is where the hard cases are, and where unit tests,
which drive one deferred at a time, hardly reach. Jobs and pages are different: jobs run
in several processes that share records in Redis, so there an action is what happens between two
accesses; a page of the user interface is one thread again, with requests whose answers
come in any order.

## Inventory

State, operations, interactions and what makes each part correct. The last column
says what is modelled as in `PROJECT.json`: *partly* where an operation is missing, which
is then listed below under what is left out.

| Component | State | Operations and interactions | Hard behaviour | Correct when | |
|---|---|---|---|---|---|
| Worklist and priority selection, `ZenHub/server/worklist.py`, `priority.py` | a FIFO for each priority, the position in a weighted cycle, requests that wait, the pause of modeling (read from the object database) | `push`, `pushfront` (executor), `pop` (dispatch loop) | what may be popped changes without a push | no starvation, no lower priority ahead of its turn, retries first, a pause holds back modeling only | modelled |
| Worker pool, `workerpool.py`, `avatar.py` | sessions, cached services, availability queue | `add`, `remove`, `hire`, `layoff`; reports and disconnects of workers | workers are lost while available, pinged, hired or working | a worker has one call at a time, is never forgotten and never offered after it was lost | partly |
| Worker pool executor, `executors/workers.py` | phase, the call in the hand of the dispatch loop, scheduled and outstanding executions, attempts | `start`, `submit`, `dispatch`, `execute`, `stop` | retries, exhausted retries, lost connections, all in one `try` | each accepted call is in one place, is answered once and finally, and is answered | partly |
| Routing, `router.py`, `config.py` | the routes and the priority map | `get`, `__resolve`, `__makekey` | backtracking to the default | the most specific key applies; routes and priorities fit each other | modelled |
| Event queues, `ZenHub/PBDaemon.py` 200-640 | two event queues, heartbeats, the count of clears, discarded events | `addEvent`, `sendEvents`, chunks, put back after a failure | events queued while a flush is under way that fails later; a full queue; merged events; clears that are dropped | bounded, in order, every occurrence accounted for, no problem left open | partly |
| Flushing events, `PBDaemon.py` 980-1170 | the connection, `_pushEventsDeferred`, the throttle of `sendEvent` | `sendEvent`, `pushEvents`, its loop, `_stopPbDaemon` | four callers of one coroutine, each leaving through another path | one flush at a time, the throttle is released, events arrive | partly |
| ZenHub's shell, `server/main.py`, `broker.py`, `auth.py`, `service.py`, `executors/event.py` | references to services | start-up, authentication, synchronous calls | little | | not modelled |
| Statistics, `server/metrics.py` | current task and history of each worker | listeners of executor notifications | a listener that raises inside `execute` | a listener cannot change what becomes of a call | planned |
| Invalidations, `invalidationmanager.py`, `invalidations.py`, `invalidationfilter.py`, `notify.py`, `services/Procrastinator.py`, `ZenCollector/services/config.py` | the hub's view of the database, queue of changed oids, checksums of organizers, batches of devices, devices that wait for a push, timers | sync, poll, filter, dispatch, batched notification, delayed push | each step forgets what it has handed on, and any step may fail; the view is older than the database; several timers | a change gets to the collector, or its loss has one of a few known causes; one timer for the notifier, one at least for devices that wait | partly |
| zenhubworker's client, `zenhubworker.py` | connection, login, ping | connect, login with timeout, ping, restart | a timeout that races a late answer | one connection, always made again | planned |
| Metric publishers, `ZenHub/metricpublisher` | buffer, batch, flush under way | `put`, flush, put back | failures with a full buffer, shutdown during a flush | the newest metrics survive, none twice | planned |
| Collector scheduler, `ZenCollector/scheduler.py`, `tasks.py`, `ZenUtils/Executor.py` | tasks, their states, the limited executor, tasks to clean up | add, remove, pause, run, timeout, clean-up | a task removed or replaced while it runs | one run of a task at a time; every removed task is cleaned up once | planned |
| Collector daemon, `ZenCollector/daemon.py` | configurations | load, push of changes, delete | | | after the scheduler |
| Jobs, `Jobber` | a job's record in Redis, Celery's state, messages | submit a chain, start, success, failure, retry, abort, delete, from several processes | read-then-write on a shared record, two stores, workers that die, messages that come back | a job that its worker finds aborted is not run, no success is invented, no record is left behind, jobs end | partly |
| Model changes, `ZenMessaging/queuemessaging` | the events of a transaction | add, modify, remove, publish at commit | an object added, modified and removed in one transaction | the published events say what the transaction did | planned |
| Event console's actions, `ZenUI3/.../zenoss.js`, `EventPanels.js`, `Zuul/routers/zep.py` | `cancelled`, `next_request`, `params`, dialog, requests under way | `execute`, batches, Cancel, answers | one manager whose fields overlapping actions share; answers after Cancel; errors | batches in order and once, what ran is carried through, the grid is fresh, the dialog closes | partly |
| Jobs button, `ZenUI3/.../JobsWidget.js`, `Zuul/routers/jobs.py` | the time of the last answer, its cookie, button, menu, polls under way | poll, answer, pause, reload | answers overtake each other; records change while they are read | each success is announced once, or its miss is explained; button and menu agree; the button catches up | partly |
| Event daemons (`ZenEvents`), modeler (`DataCollector`), catalog (`Zuul`, `Zing`), object model (`ZenModel`, `ZenRelations`), utilities (`ZenUtils`), the rest of the user interface (`ZenUI3`, `ZenWidgets`, `ZenReports`), the rest | | | | | not modelled |

Why the last row is left out: the event daemons and the modeler are pipelines of I/O
around servers and devices that are not in the repository; the object model is a large
schema whose concurrency is that of ZODB transactions, also not in the repository;
catalog and Zing maintain an external index; the rest of the user interface is presentation
(grids, forms, graphs), and the greater part of its JavaScript is libraries kept in the
repository (YUI, Ext, CodeMirror, jQuery, dagre), which are not this system's; most of
the utilities are pure helpers (the stateful ones, `Executor.py` and `keyedset.py`,
come with the scheduler).

The places where this code is exposed to something hard to test are under `hazards` in
`PROJECT.json`; those of the parts that are not modelled are named there with the module
that would cover them, as far as one is planned.

## Modules

```
PrioritySelection          the weighted cycle (operators, no variables)
  MCPrioritySelection        the iterator on its own (part of MCServiceCallRouting's run)
  ZenHubWorklist             queues, cycle, pause, waiting request
WorkerPool                 sessions, availability, hire
WorkerPoolExecutor         EXTENDS ZenHubWorklist, WorkerPool: the composition
  MCWorkerPoolExecutor
  WorkerPoolExecutor_proofs  the inductive invariant and what follows from it
ServiceCalls               what the executor promises; implemented by it
ServiceCallRouting         routes and priorities (operators)
  MCServiceCallRouting       EXTENDS MCPrioritySelection too: one run for both
  RoutingAndSelection_proofs both lookups, and the iterator for any number of priorities
EventQueueManager          a daemon's event queues and one flush
  MCEventQueueManager
  EventQueueManager_proofs   its operators, its inductive invariant
  PushEvents                 EXTENDS it: connection, callers, throttle, shutdown
    MCPushEvents
    PushEvents_proofs          EXTENDS PushEvents and EventQueueManager_proofs
Procrastinator             devices that wait for a push, and timers
BatchNotifier              classes whose devices are gone through, and timers
ConfigPush                 EXTENDS both: from a change to the collector
  MCConfigPush
  ConfigPush_proofs
JobRecords                 records of jobs, workers, users
  MCJobRecords
  JobRecords_proofs
EventActions               the event console's action manager
  EventActions_proofs
JobsWidget                 the jobs button
  JobsWidget_proofs
```

`PROJECT.json` maps every definition to the lines it models. Operators marked as
mutants are plausible bugs, used to show that the properties would find them.

### PrioritySelection, ZenHubWorklist, ServiceCallRouting

`BuildWeightedList` is `_build_weighted_list`: priority *n* of *N* gets weight
`2^(N-n+1) - 1`, and its copies are spread over the unit interval. The floats of the code
are exact, so the model orders integers. The docstring's example is an assumption that TLC
evaluates. `Turns` and `Advance` are `PrioritySelection.next` with its `exclude` function.

`ZenHubWorklist` has the queues, the position in the cycle (`turn`), the pause (`paused`,
which another process starts and which ends by itself, at any moment) and the request that waits (`waiting`).
`_ZenHubWorklist__pop` reads the priorities that are not excluded once and then goes
through the cycle until it meets one with an item: `PopFrom` does this in one step. There
is one consumer, so the list of waiting deferreds is a flag.

`ServiceCallRouting` has `ServiceCallRouter.__resolve` and
`ServiceCallPriorityMap.__makekey` as functions of any configuration, and the shipped one
of `config.py`.

### WorkerPool, WorkerPoolExecutor, ServiceCalls

A *session* is one connection of a worker; a worker that connects again gets a new one
(`avatar.py` makes a uuid for each report). `registered` stands for both dictionaries of the
pool, `available` for the pending values of `WorkerAvailabilityQueue`, and `hirer` and
`pinged` for the `hire` coroutine: waiting for a session, or for a ping.

| Code | Action or operator |
|---|---|
| `WorkerPoolExecutor.start`, `dispatch` up to its first wait | `Start`, `Dispatch`, with `Request` and `HireFrom` |
| `_Running.submit`, `_Stopped.submit` | `Submit`, `Refuse` |
| `stop` | `Stop` |
| `reportingForWork` → `WorkerPool.add` | `Report` |
| the end of `hire`, and `callLater(0, self.execute, ...)` | `Hired` |
| a ping that fails with an error of the worker | `PingFails` |
| `execute` up to its remote call, `_handle_start` | `Execute` |
| `_handle_success`, `_handle_failure`, then `layoff` | `Answered` |
| `_handle_error` without or with an attempt left | `Exhausted`, `Retry` |
| a lost connection: `notifyOnDisconnect`, errback of what was outstanding | `Disconnect` (`LosePinged`, `LoseExecuting`, `LoseIdle`) |
| the pause flag | `Pause` |

A handler that pushes an item or offers a session wakes the dispatch loop or `hire` within
the same step (`Notify`, `Offer`), in the order in which the code's deferreds fire. An
execution that was scheduled for a worker that has been lost in the meantime calls a dead
reference, which is an error of the protocol and answers the call (`Execute`, second part).

`ServiceCalls` is the abstract specification: a client's call is accepted or refused, runs
on at most one worker, may be tried again, and is answered once. The refinement maps its
`running` to the calls with an outstanding remote call.

### EventQueueManager, PushEvents

A queue is a sequence of entries: an event (its kind, its `count`, and as `id` the order in
which it was queued last) and the fingerprint it was filed under. Kind and count are what
the fingerprint tells apart; times are left out. `Append1` and `ExtendLeft` are `append`
and `extendleft` of `DequeEventQueue` and of `DeDupingEventQueue`; the two differ in
`Deduplicate`. That the key and the event may disagree (a merged event has another `count`,
hence another fingerprint, than the key it is filed under) is in the code and is kept.
`Merged`, `Unmerged` and `FiledInOrder` are the loops of the latter: events that meet a
queued one are counted in it, and the others are put in a new `OrderedDict`, where a later
one takes the place of an earlier one with its fingerprint.
`CountedClear`, `IsSuperfluous` and `Uncounted` are the state of clear events.
`discarded` is a running total; the daemon resets its own counter when it has reported it.

`TakeOver`, `SendNext`, `ChunkSent` and `ChunkFailed` are `sendEvents`: the queues are
replaced by new ones, sent in chunks (heartbeats, performance events, events), and what was
not answered for goes back, heartbeats excepted.

`PushEvents` adds the callers. `Push` is `pushEvents` up to its first wait, `Finish` what
follows the flush (`_pushEventsDeferred` is fired, `repush` and a waiting stop call
`pushEvents` again, the throttle is released below the high water mark). `settling` is the
turn of the reactor between a failure and that. A call without a connection releases the
throttle on the next turn (`releasing`). `Stop` is `_stopPbDaemon`. In this composition the
performance queue is empty: no code of the repository puts an event there.

### Procrastinator, BatchNotifier, ConfigPush

`Procrastinator` has the waiting devices, the long timer (`timer`) and the number of short
ones (`chains`): `doLater` cancels only the long one, so several chains may run.
`BatchNotifier` has the queue of classes, the current one with the devices still to come,
and the number of timers (`calls`), which no line of the code keeps at one.

`ConfigPush` puts them behind `InvalidationManager`. `db` is the database, `view` the
database as the hub sees it since its last sync, `invalid` what the storage will report at the
next poll, `checksum` the filter's map, `queue` the hub's queue.

| Code | Action |
|---|---|
| a transaction of another process; a deletion and a pack; `pauseHubNotifications` | `Edit`, `Vanish`, `SetPaused` |
| `process_invalidations` up to the end of `_syncdb`, which may fail | `Sync`, `SyncFails` |
| `_paused`, or nothing to poll; the storage raises in `_poll_invalidations` | `PollNothing`, `PollFails` |
| the poll and the pipeline (`oid_to_obj`, `filter_obj`), which may raise for some objects (`InvalidationPipeline.run`) | `Poll`, `PollRaises` |
| `processQueue` for one object, with `deviceUpdated` or `notifyAffectedDevices` | `Dispatch`, with `Tell` |
| an object that is missing, a service that raises: the round ends and keeps its queue | `DispatchMissing`, `DispatchFails` |
| `self._queue.clear()` | `Processed` |
| a batch of the notifier with `_notifyAll`; it raises for some devices (`_call_notify_functions`), or the generator of devices does | `NotifyBatch`, `NotifySkips`, `NotifyFails` |
| a timer of the procrastinator with `_pushConfig`, or nothing left | `PushConfig`, `PushNothing` |
| `_wrapFunction` swallows an exception of `_createDeviceProxies`, and the collector is told to delete the device; a `callRemote` fails | `PushGoesWrong` |
| `_pushConfig` raises | `PushFails` |
| `_monitor_exists`, which syncs | `LookUpMonitor` |

`NoChangeForgotten` says that a device whose collector has an old configuration is on its way
- its change not yet polled, queued, in the notifier, in the procrastinator - or was lost
in one of these ways, all of them in the code:

* the last change of an object it is configured by was polled while the hub still saw the old
  value, because the transaction committed between the sync and the poll or the sync had failed
  ("will try again"), and the filter took the old value (`slipped`);
* that object is a class that was changed and changed back, and the hub saw the new value,
  during a pause, by another sync or before a poll that failed, and pushed devices with it:
  its checksum is as before (`glimpsed`, then `slipped`);
* that object raised in the pipeline, which drops it, with its checksum stored or not
  (`slipped`);
* the last push or notification of this very device went wrong: it raised, its configuration
  raised, its call to the collector failed, or it was skipped or left behind by one that raised
  (`missed`).

The history variables hold exactly these, and an excuse ends when the object is next sent on, or
the device next pushed, so a fault excuses nothing that happens after it was made good. A
device that is deleted is excused (`db[d] = "gone"`): what the collector is told of it comes
by `deviceDeleted`, which is not modelled. `ConfigArrives` has the same excuses, and one more,
for the devices of an object that a broken round left in the queue, which is not gone through
again until something else is invalidated. `NeverStranded` says of the timers that devices
that wait have one, unless a push that raised left just these behind, and that the notifier
has exactly one while it has something to do (`NotifierInStep`).

### JobRecords

`status` is the record's status, "none" where there is no record; `whole` is whether it has
all its fields, which a write to a record that has just been deleted loses. `backend` is
Celery's state. `worker[j]` is the process that has the message of `j`: the step it is at,
and what it has read and not yet written.

| Code | Action |
|---|---|
| `JobDispatcher.add`, `abort`, `tpc_finish` | `Stage`, `Rollback`, `Commit`, `Send` |
| `job_start`: the read, the write | `Take`, `Start` |
| Celery's own STARTED | `Track` |
| `Abortable.__call__` | `Call` |
| the ways the body ends: result, error, `__retry_on_conflict`, `_TaskAborter` | `Succeed`, `Fail`, `Conflict`, `Interrupt` |
| Celery stores the state; `on_failure` sets ABORTED | `Store` |
| `job_success`, `job_failure`, `job_retry`: the read, the write, the callbacks | `Report`, `Write`, `AbortCallback`, `AbortedCallback` |
| the acknowledgement; a worker that dies before it | `Acknowledge`, `Crash` |
| `AbortableResult.abort` in its two writes; `deleteJob` | `Abort`, `Delete`, `AbortRecord`, `AbortBackend`, `Remove` |

`SaveJobRecord` is `save_jobrecord`: a message that is published for a job without a record
makes one for it and for those after it in the chain that have none either.

Celery itself is modelled as this code relies on it: the order of its signals
(`task_prerun`, the body, the result, the signal for it), callbacks published before the
result is stored, messages acknowledged late.

### EventActions

The fields of `EventActionManager` are variables. `outstanding` holds the requests with the
execution and batch they ask for, and whether the server has acted. `Execute` is
`execute`, `reset` and `startAction` with the first `run`; the answers are the branches of
`requestCallback` (`AnswerFailed`, `AnswerLost`, `AnswerIncomplete`, `AnswerComplete`), and
`WaitOver` is the end of the progress bar's wait. A modal dialog covers the buttons, so
actions overlap only as long as it is not shown.

### JobsWidget

`poll[p]` is a request under way with what the server has read of each record so far
(`JobStore.mget` reads them one by one). `Answer` is the callback of `update`:
`update_button`, `update_menu`, `check_for_recently_finished` with `set_lastchecked`. The
server's sort and slice is `Slices`. `Pause` and `Resume` are the calls of a dialog in
`zenoss-utils.js`; `Reload` is the next page, which takes the time from the cookie.

## Runs

| Run | Shows | Instance, and why it is enough |
|---|---|---|
| `routing_and_selection` | the most specific key applies; the routes and priorities as shipped agree; every priority that is not excluded gets exactly its weight in every turn of the cycle, and occurs between any two visits of a lower one | all configurations over three names for each of service and method, the third in no key: a lookup only compares names with two keys' parts. 5 priorities (as `priority.py` has), every exclusion and every change of it; the window of 57 choices is a full cycle |
| `executor` | no call and no worker is lost or in two places, one call for each worker, dispatch and hire in step, retries first, attempts bounded from above, `ServiceCalls` is implemented (so answers are final), every accepted call but a paused one is answered | one modeling call and two others (so that a queue has an order), two sessions of which one may be lost, at any of its steps, two attempts (one retry, then exhausted); no symmetry, because of the liveness property |
| `events_dedup` | with de-duplication: bounded queues, each event once, no occurrence counted twice, clears get through as long as nothing was discarded | a problem, its clear, an unrelated event; 5 events, queues of 2, chunks of 2: a failed flush meets a full queue and merged events |
| `push` | without de-duplication, with all the callers of `pushEvents`: no event lost or out of order, the throttle justified and released, events delivered | 6 events, queue of 4, high water mark 3, chunks of 2, 2 failures: a flush of two chunks may fail in either one while the queue fills up again |
| `config_push` | no change is forgotten on the way to the collector, devices that wait have a timer, configurations arrive | one class with two devices, batches of 2 (the class is a full batch, and the next one finds nothing), 2 changes, 2 faults: enough for a change back during a pause, a queue left by a broken round, two chains of timers, a fault in any step and a second one in another before it is made good |
| `job_records` | a job that its worker finds aborted when it takes it is not run (an abort that is overwritten before that, or while the job runs, is outside it), successes are true, no record is left behind, jobs end | a chain of two, one request of a user (abort or deletion, at any step), one retry, one lost worker (so that a job comes back at every step) |
| `event_actions` | batches in step, executions carried through, the grid fresh, Cancel holds, the dialog closes | 3 executions of up to 3 batches: a cancelled one, one that resumes it, and a small one between |
| `jobs_widget` | successes are announced, once; the button agrees with the menu and catches up | two jobs, two polls that overtake each other, rows for one, three times, two changes of records, one loss, dialog or new page |
| `pop_after_pause`, `losses_counted`, `clears_dropped`, `aborted_chain` | the findings below | `losses_counted`: two calls, one loss; `aborted_chain`: a chain of three |

Bounds that the code does not have: `MaxLosses` (sessions lost), `MaxEvents`,
`MaxFailures` (failed flushes and lost connections), `MaxReleasing` (calls of `pushEvents`
without a connection at one time), `Window`, `MaxChanges` (of the database; of records),
`MaxFaults`, `MaxOps` (aborts and deletions), `MaxCrashes`, `MaxExecs`, `MaxBatches`,
`MaxTime`, `MaxLost`. `MaxRetries` of `JobRecords` is zodb-max-retries (5 in the code,
1 in the run), `Shown` the rows of an answer (10, and 1 in the run). Sessions are finite too: a worker that
reconnects is another member of `Sessions`.

Deadlock is checked except where the system may stop: in the runs of `PushEvents`, where a
daemon that has stopped does nothing more, and where users, records or the clock have used
up their bounds and nothing is under way (`event_actions`, `job_records`, `aborted_chain`,
`jobs_widget`). An executor never stops moving in the model because a pause may be
toggled at any time, so no run relies on the check for deadlock; the liveness property
does the work.

### Fairness

* Executor: the reactor calls what is scheduled (`Start`, `Dispatch`, `Execute`); a worker
  answers a ping or loses its connection; a remote call is answered, fails or loses its
  connection; workers keep connecting (zenhubworker's client reconnects for ever). A loss
  or a pause is never fair. Answered, exhausted and retried calls share one condition,
  since nothing says which it will be: that a call is answered in the end follows from the
  bound on attempts. Lost connections are bounded by `MaxLosses`; the code retries them
  without limit, so a call whose every worker dies is not answered, and no property says so.
* Daemon: the reactor keeps calling the loop of `pushEvents`, what a call without
  connection has scheduled, and the turn after a failure; the hub answers or the call
  fails. The connection need not come back, nor the hub be reached: `EventsDelivered`
  has "connected from some time on" as its condition, `ThrottleReleased` needs none.

* Hub: the looping call of `process_invalidations` goes on, and timers fire. They are
  strongly fair, because they cannot fire between the sync and the poll, which are one turn
  of the reactor, again and again. `ConfigArrives` has "not paused from some time on" as its condition.
* Jobs: a transaction that has begun to commit goes on, workers work, and a request of a
  user is carried out step by step. Aborts, deletions and crashes are never fair.
* Pages: requests are answered, or fail (Ext.Direct times out), their callbacks run, timers
  go off. Nobody has to press a button, close a dialog or leave a page.

## Findings

1. `pop_after_pause` - a request that waits in the worklist is not woken when a pause of
   modeling ends, although a modeling call is queued. The `adm` executor has modeling calls
   only, so they wait until the next one arrives.
2. `losses_counted` - "Lost connection to the worker; not a failure. The attempt count is _not_
   incremented" (`workers.py:222-223`), but `_handle_start` has incremented it for the run that
   was lost (line 248) and nothing takes that back, while `_handle_error` compares it with
   `task_max_retries` (line 256). With a limit of two, a call whose first run is lost is given
   up at its first error. `AttemptsBounded`, which the other run checks, is a bound from above
   only: runs that do not end in a lost connection are at most `task_max_retries`, and may be
   fewer.
3. `clears_dropped` - the count of clears is incremented for each dropped clear, and
   decremented by one only when the queued one is discarded; after that no clear of that
   problem is sent any more, which `_removeDiscardedEventFromClearState` is there to avoid.
4. `aborted_chain` - "Abort all subsequent jobs in the chain" (`model.py:525`), but
   `job_failure` updates the records of the failed job's own callbacks, of which a chain
   has one; the jobs behind that stay PENDING for ever. `save_jobrecord`, a few functions above,
   goes down the whole chain.

One more came up in the proof of `OrderKept` and has no run of its own. A queue "returns an
iterator over the elements in the queue (oldest events are returned first)"
(`PBDaemon.py:264-265`), and a merged event keeps the key it was filed under, but its `count`,
and with it its fingerprint, is another. So a de-duplicating queue may hold two events of one
fingerprint, and when a flush of them fails, `extendleft` (line 399) files the later one in
the place of the earlier: it is sent before events that are older than it. In the trace TLC
finds with queues of three and five events a problem occurs, its clear, and the problem again;
the hub gets the second problem before the clear. The earlier of the two events is lost and
counted nowhere, which is why `NoOccurrenceLost` holds without de-duplication only.

## Proofs

`WorkerPoolExecutor_proofs` proves, for any set of calls and sessions, any priorities and
any cycle over them, any number of retries and losses:

| Theorem | Statement |
|---|---|
| `TypeCorrect` | `Spec => []TypeOK` |
| `CallsAreNotLost` | `Spec => []NothingLost` |
| `CallsAreInOnePlace` | `Spec => []OnePlace` |
| `LoopStaysInStep` | `Spec => []DispatchInStep` |
| `AnswersAreFinal` | `Spec => AnswerIsFinal` |
| `AttemptsAreBounded` | `Spec => []AttemptsBounded` |
| `ExecutorImplementsServiceCalls` | `Spec => ImplementsServiceCalls` |

They assume what the modules assume of their constants: the modeling priority is one of
the priorities, the cycle is a non-empty sequence of priorities, every call has a
priority, at least one attempt is allowed. Nothing is assumed of how priorities are
weighted, and nothing about fairness.

`NothingLost` is not inductive. That no call is dropped by a handler needs that the place
a call is taken from held it only once, that `Dispatch` puts a call into an empty hand,
and that a hire that waits has a call to hire for. The inductive invariant is

    IInv == TypeOK /\ LoopInv /\ Apart /\ WorkApart /\ Kept

* `LoopInv`: `DispatchInStep`, and nothing is waited for before the start;
* `Apart`: the queues are tidy (no call twice, each in the queue of its priority), the
  dispatch loop holds at most one call, and it is not queued;
* `WorkApart`: the sessions' calls, scheduled or executing, are different from each other
  and are neither queued nor in the hand;
* `Kept`: a call waits or is worked on exactly while it is accepted and not answered.

The queues are the only part with some arithmetic: `PushedTidy` and `PopFromTidy` say what
a push at either end and a pop do to tidy queues, `RequestKeeps` and `NotifyKeeps` lift
this to the dispatch loop, and `NextIInv` goes through the actions. `AttemptsBounded` needs,
in addition, that a call that waits has an attempt left (`HasAttemptLeft`). The refinement
needs `IInv` to see that a call that starts to run does not run already.

The same module has two theorems about the pool:

| Theorem | Statement |
|---|---|
| `WorkersHaveOneCall` | `Spec => []OneCallPerWorker` |
| `WorkersAreNotLost` | `Spec => []NoWorkerLost` |

Neither is inductive. That a worker gets no second call needs that a session is in the
availability queue once (`FreeOnce`), that one that is free has nothing to do, and that its
ping and its call are not both under way (`BusyOnce`). A session that is removed while it
works stays accountable until its connection is found lost, so `SessionInv` speaks of
registered and of gone sessions. `AddedOnce` and `DiscardedOnce` say what the pool does to
its queue.

It also proves `RetriesGoFirst` (`Spec => []RetriesFirst`). The order of the queues
alone is not inductive: a new call goes to the end, which is right only because it was
never attempted, and a call goes back to the front only once it was (`Attempted`). That an
attempt does not disturb the order needs, from `IInv`, that a call which starts to run is
not queued.

`ConfigPush_proofs` proves `TypeOK`, `NeverStranded` and `NoChangeForgotten`
for any classes, devices and memberships, any batch size and any number of changes and
faults. `NoChangeForgotten` needs to know more of the view than that it is a copy: an object
whose value in the view is not that of the database is still to be polled, or excused; the
checksum of a class is that of the last view it was polled with; a device was pushed with
the view, or something it depends on is on its way. The proof failed at a class that is changed
and changed back during a pause; that is how this loss was found, TLC then confirmed it,
and it became one of the excuses.

`JobRecords_proofs` proves `TypeOK`, `SuccessIsTrue`, `AbortedNeverRuns` and `NoneLeftBehind`
for chains of any length, any number of users, requests, retries and crashes:

    IInv == TypeOK /\ Submitted /\ \A j \in Jobs : OneJob(j)

`OneJob` has a part for each thing a handler may hold between its read and its write:
whoever is about to write SUCCESS has seen a run succeed (`Ran`); whoever found the job aborted
has not passed the check, and the record still says so (`Noticed`); what is about to be
written ends the job, or a message is there that will (`Reporting`); a record that is not
final has a message, a writer, or a job before it (`Attended`). `OthersKeep` says once for
all actions what they may do to other jobs: abort them, or give them a record and a message.

`EventActions_proofs` proves `TypeOK`, `InStep`, `CarriedThrough`, `QuietIsFresh` and
`CancelHolds` for any number of executions and batches. The invariant says that an execution
has one request at most, the last it sent (`Sound`), that a running execution has a request
under way, and that none runs once it is cancelled (`Accounted`).

`EventQueueManager_proofs` proves, for any kinds of events, any length of the queues, any
size of the chunks, any number of events and failed flushes, with and without
de-duplication and whatever is set for clears:

| Theorem | Statement |
|---|---|
| `TypeCorrect` | `EQMSpec => []TypeOK` |
| `QueuesStayBounded` | `EQMSpec => []QueueBounded` |
| `OccurrencesAreNotInvented` | `EQMSpec => []NoOccurrenceInvented` |
| `OccurrencesAreNotLost` | `~Deduplicate` implies `EQMSpec => []NoOccurrenceLost` |
| `EventsGoOnceInOrder` | `EQMSpec => []OrderKept` |
| `ClearsAreNotHeldBack` | `EQMSpec => []ClearsGetThrough` |

None of these is inductive but the bound. The invariant is `IInv == GoodNow /\ Resting /\
lastId <= MaxEvents`: what a flush that is over leaves behind is nothing (`Resting`), and
`Good`, a predicate of the queues rather than of the variables so that the steps of
`PushEvents` can be composed from the same lemmas, has these parts:

* `OneQueue`: a queue is bounded, has a key once with de-duplication, and the sequence of what
  was sent, is in flight and is queued (`Line`) has each event once - and in order without
  de-duplication;
* the occurrences in both lines and those discarded make up what was queued, or no more
  than that (`Fine`);
* `Fresh`: with de-duplication, which of two entries of one kind is the later can be told from
  their keys. This is the part that is hard to see. `FiledInOrder` keeps of two events of
  one fingerprint the *last in the list*; that this is the later one, so that a clear
  is never replaced by an older one, holds because an entry under the count 1 is later than
  any other of its kind (an entry under another count was put back, and nothing is merged
  into it), and because nothing is put back while events are in flight;
* `Coming`: behind every count of clears there is a clear later than the problem, as long as
  nothing was discarded.

The operators come first. `Picked` is a recursive function, `Occurrences` the cardinality of a
set of pairs, `Append1` has a `CHOOSE`: what they return for every input is proved from
`LeastNumber` (a set of naturals has a least member, from the library's well-founded
orderings) by a least counterexample, and from injections. Induction theorems that take an
operator cannot be used with the installed provers; this way around them they are not needed.

The earlier form of `OrderKept` asked for the order of ids with de-duplication too. It held in
the run, with a queue of two, and could not be proved: `Ordered` fails for `FiledInOrder`.
A queue of three showed why (see the end of the findings). `OrderKept` now says what holds:
with de-duplication each event is there once.

`PushEvents_proofs` proves the same of the daemon (`PushKeepsQueuesBounded`, `PushKeepsOrder`,
`PushLosesNothing`) and `ThrottleIsJustified` (`PushSpec => []ThrottleJustified`). The invariant
`PInv` adds to `IInv` that a flush is under way only while the call of `pushEvents` that is past
the check sends (`OneFlushes`), which is what `SendEvents` relies on: a second call that took
the queues over would overwrite what the first has not sent. That a queue which is added to
does not get shorter (`AppendKeepsLength`) keeps the throttle justified.

`JobsWidget_proofs` proves `SuccessesAreAnnounced`, `ButtonAndMenuAgree` and
`SuccessesAreAnnouncedOnce` (the action property `NoSecondAlert`) for any finite set of jobs, any
number of requests, rows, changes and losses. The invariant (`Types`, `Times`) has the cookie
equal to the time of the page, which makes leaving a page harmless, and what was announced
finished no later than the last answer, which is why a second answer, even one that
overtook the first, does not announce it again. `AnswerAgrees` follows the server's slices
through totals to the grids.

`RoutingAndSelection_proofs` proves `RoutesAreBest`, `PrioritiesAreBest` and
`ShippedConfigurationsAgree`, the three invariants of the routing, for any set of services and
methods. The work is in two lemmas about the operators, which hold for every configuration
that has the default key and for every call, not only for those that the run builds:
`ResolveFindsBest` and `MakeKeyFindsBest`. At most four keys match a call (`MatchesAre`), so the
best one is known from which of them there are (`BestOf`). The invariant is that the default
key is never lost; without it a lookup need not end at a key at all. What is shipped agrees for
every name of a service and a method.

It also proves what the iterator promises, `HigherRunsFirst` (`Spec => []HigherFirst`) and
`SharesAreFair` (`Spec => []Fair`), for any number of priorities, any window and an exclusion
that changes whenever it likes (`RoutingLeavesSelection`: the steps of the run that configure
routes leave the iterator alone). Three layers:

* The cycle as a sequence. Copies have distinct ranks that fill `1..L`, so the `CHOOSE` in
  `BuildWeightedList` names one copy per element, and a priority has exactly `Weight` elements.
  Copy (k+1)·2^(q-p) of a higher priority p has the place of copy k+1 of a priority q and
  comes first, being higher, so there is a p between the copies k and k+1 of q
  (`HigherBetween`); after the last q the cycle still has a p (`HigherAfter`).
* The cycle read over and over, from wherever the worklist is. Remainders make slots of
  times: an element comes back after L reads and not before.
* The invariants. `SelectionInv` adds to `HigherFirst` what is still owed: whatever was chosen
  and not followed by a higher priority has that priority ahead of it in the cycle. `ShareInv`
  says that the choices remembered can be traced to growing times at which they were read,
  none that was wanted being skipped; a round of choices then hits each element that is wanted
  exactly once (`RoundIsBetween`, `RoundHasShares`).

`Fair` counts the elements of a round with `Cardinality` (`Round`); the length of a `SelectSeq`
would be the same number, but the provers know nothing of `SelectSeq`. They know no law of
powers either: that 2^(n+1) is twice 2^n comes from the number of subsets of a set
(`FS_SUBSET` of the library, whose own proof takes this equation to be obvious).

Only model-checked: liveness under fairness (`CallsAnswered`, `ThrottleReleased`,
`EventsDelivered`, `ConfigArrives`, `JobsEnd`, `DialogCloses`, `ButtonCatchesUp`), which the
prover does not handle. What is proved for every value of the constants and says no more than
types (`TypeOK` of `EventQueueManager`, `EventActions`, `JobRecords` and `ConfigPush`), or
what another property implies (`AnswerIsFinal`, by the refinement), is not checked by a run
again.

## Left out of the modelled parts

* Executor: a restart after `stop` (nothing in ZenHub does it); listeners of the
  notifications of a task, which are taken not to raise; `handleReportStatus` and the
  cached references to services, seen only in their outcomes; what an answer holds
  (a result, an error of the method and an error of the protocol are all "done").
* Worklist: the canceller of `pop`, which has no caller.
* Events: the queues' statistics, the contents of events, the hub's side of a flush (a
  flush whose answer is lost is sent twice; the daemon cannot tell).
* Daemon: login, configuration, the health check and signal files.
* Invalidations: filters other than the one for classes, transforms (a component becomes
  its device; that one raises is in `PollRaises`), a configuration that is pushed although
  `_postCreateDeviceProxy` raised, `deviceDeleted`, reconfiguration, moves of devices; `stop`, `clear` and
  `whenEmpty`, which nothing in the hub calls.
* Jobs: times, logs, details, expiry, jobs discarded while staged, the kill of a worker that
  does not react to an abort within five seconds (`Crash` is that, at any step).
* Event console: the grids; what an action does; the text of the progress.
* Jobs button: other pages that write its cookie, clocks that differ, its expiry.

## Not modelled, and plan

Modules that could follow, in this order:

1. `CollectorScheduler` over `LimitedExecutor` (`DynamicDeferredSemaphore`,
   `AsyncExecutor`): states of tasks, timeouts, removal and forced clean-up.
2. `ZenHubClient`: the worker's end of the sessions of `WorkerPool`.
3. `MetricPublisher`: buffer, batch, flush, put back; abstractly: a bounded buffer that
   keeps the newest.
4. `ExecutorListeners`: the notifications of a task and `StatsMonitor`, with two sessions
   of one worker; what an exception inside `execute` does to an answered call.
5. `ModelChanges`: the events of a transaction.

The lines of the repository's JavaScript are for the most part libraries that are kept
with it and pages that present data; of its own logic, the action manager and the jobs button
are the parts with a state that several requests share.

Proofs that could follow: an abstract specification of the event queues (a bag of
occurrences that are sent, pending or discarded) that `EventQueueManager` implements.
