------------------------- MODULE WorkerPoolExecutor -------------------------
(***************************************************************************)
(* The executor that runs service calls on zenhubworkers                   *)
(* (Products/ZenHub/server/executors/workers.py), composed with the        *)
(* worklist it takes calls from and the pool it hires workers from.        *)
(*                                                                         *)
(* ZenHub is one thread: a handler and every callback it fires run to the  *)
(* end before anything else does, so each handler is one action, with what *)
(* it sets off in the dispatch loop and in `hire'.  What is concurrent is  *)
(* what is outstanding: the request for an item, the ping of a worker, the *)
(* scheduled executions and the remote calls.                              *)
(***************************************************************************)
EXTENDS ZenHubWorklist, WorkerPool, FiniteSets

CONSTANTS Calls,        \* the service calls clients ever submit
          PriorityOf,   \* their priorities (servicecall_priority_map)
          MaxRetries,   \* config.task_max_retries
          MaxLosses     \* bound: sessions that end in the behaviours considered

ASSUME ExecutorAssumption == /\ PriorityOf \in [Calls -> Priorities]
                             /\ MaxRetries \in Nat \ {0}
                             /\ MaxLosses \in Nat

VARIABLES phase,      \* "created", "running" or "stopped"
          received,   \* calls accepted by submit
          hand,       \* the call the dispatch loop has popped, if any
          scheduled,  \* <<session, call>> whose execute is to be called
          executing,  \* <<session, call>> whose remote call is outstanding
          attempt,    \* ServiceCallTask.attempt
          lost,       \* how many of them ended in a lost connection (history)
          answer      \* what a call's deferred has fired with, or "none"

taskVars == <<received, attempt, lost, answer>>
vars == <<worklistVars, poolVars, phase, hand, scheduled, executing, taskVars>>

\* A call is answered with the result of the remote method, its error or an error of
\* the call itself, all of them final at once ("done"), with the last of its retryable
\* errors ("exhausted"), or is refused ("not ready").
Answers == {"none", "done", "exhausted", "not ready"}

-----------------------------------------------------------------------------
Init == /\ WorklistInit
        /\ PoolInit
        /\ phase = "created"
        /\ received = {}
        /\ hand = {}
        /\ scheduled = {}
        /\ executing = {}
        /\ attempt = [c \in Calls |-> 0]
        /\ lost = [c \in Calls |-> 0]
        /\ answer = [c \in Calls |-> "none"]

-----------------------------------------------------------------------------
(* The dispatch loop                                                       *)

\* An item is asked of the queues q, when the available sessions are `avail':
\* the loop gets a call and goes on to hire, or its request waits.
Request(q, avail) ==
    \/ /\ HasItem(q)
       /\ \E c \in Calls : PopFrom(q, c) /\ hand' = {c}
       /\ waiting' = FALSE
       /\ UNCHANGED paused
       /\ HireFrom(avail)
    \/ /\ ~HasItem(q)
       /\ waiting' = TRUE
       /\ queues' = q
       /\ UNCHANGED <<turn, paused, hand>>
       /\ Offer(avail)

\* Mutant of Notify: a waiting request is not served.
NotifyNobody(q, avail) == /\ queues' = q
                          /\ UNCHANGED <<turn, paused, waiting, hand>>
                          /\ Offer(avail)

\* A push made the queues q and a waiting request is served, and by the end of
\* the handler the available sessions are `avail'.
Notify(q, avail) ==
    \/ /\ waiting
       /\ Request(q, avail)
    \/ /\ ~waiting
       /\ queues' = q
       /\ UNCHANGED <<turn, paused, waiting, hand>>
       /\ Offer(avail)

\* start(0) of the LoopingCall runs dispatch at once.
Start == /\ phase = "created"
         /\ phase' = "running"
         /\ Request(queues, available)
         /\ UNCHANGED <<registered, gone, scheduled, executing, taskVars>>

\* One round of the LoopingCall; the next one starts when this one is done.
Dispatch == /\ phase = "running"
            /\ ~waiting
            /\ hirer = "none"
            /\ Request(queues, available)
            /\ UNCHANGED <<registered, gone, phase, scheduled, executing, taskVars>>

\* A round that is under way is completed; no other follows.
Stop == /\ phase = "running"
        /\ phase' = "stopped"
        /\ UNCHANGED <<worklistVars, poolVars, hand, scheduled, executing, taskVars>>

-----------------------------------------------------------------------------
(* Clients                                                                 *)

Fresh(c) == c \notin received /\ answer[c] = "none"

\* _Running.submit
Submit(c) == /\ phase = "running"
             /\ Fresh(c)
             /\ received' = received \cup {c}
             /\ Notify(Pushed(PriorityOf[c], c), available)
             /\ UNCHANGED <<registered, gone, phase, scheduled, executing,
                            attempt, lost, answer>>

\* _Stopped.submit
Refuse(c) == /\ phase # "running"
             /\ Fresh(c)
             /\ answer' = [answer EXCEPT ![c] = "not ready"]
             /\ UNCHANGED <<worklistVars, poolVars, phase, received, hand,
                            scheduled, executing, attempt, lost>>

-----------------------------------------------------------------------------
(* Workers                                                                 *)

\* perspective_reportingForWork: a connection reports under a new session.
Report(s) == /\ s \notin registered \cup gone
             /\ registered' = registered \cup {s}
             /\ Offer(Added(s))
             /\ UNCHANGED <<worklistVars, gone, phase, hand, scheduled,
                            executing, taskVars>>

\* The worker answers the ping: it is hired, and execute is scheduled.
Hired(s) == /\ s \in pinged
            /\ scheduled' = scheduled \cup {<<s, c>> : c \in hand}
            /\ hirer' = "none"
            /\ pinged' = {}
            /\ hand' = {}
            /\ UNCHANGED <<worklistVars, registered, gone, available, phase,
                           executing, taskVars>>

\* The ping fails with an error of the worker: the session is dropped, although
\* its connection is up, and hire goes on with the next one.
PingFails(s) == /\ s \in pinged
                /\ Cardinality(gone) < MaxLosses
                /\ Unregister(s)
                /\ HireFrom(available)
                /\ UNCHANGED <<worklistVars, phase, hand, scheduled, executing,
                               taskVars>>

-----------------------------------------------------------------------------
(* Executions                                                              *)

\* Mutant of Execute: the worker is laid off before the remote call has returned.
ExecuteAndLayOff(s, c) ==
    /\ <<s, c>> \in scheduled
    /\ scheduled' = scheduled \ {<<s, c>>}
    /\ attempt' = [attempt EXCEPT ![c] = @ + 1]
    /\ s \in registered
    /\ executing' = executing \cup {<<s, c>>}
    /\ Offer(LaidOff(s))
    /\ UNCHANGED <<worklistVars, registered, gone, phase, received, hand, lost, answer>>

\* execute, up to the remote call.  The attempt counts from here.  If the worker
\* was lost since it was hired, the call on its dead reference fails at once.
Execute(s, c) ==
    /\ <<s, c>> \in scheduled
    /\ scheduled' = scheduled \ {<<s, c>>}
    /\ attempt' = [attempt EXCEPT ![c] = @ + 1]
    /\ \/ /\ s \in registered
          /\ executing' = executing \cup {<<s, c>>}
          /\ UNCHANGED answer
       \/ /\ s \notin registered
          /\ answer' = [answer EXCEPT ![c] = "done"]
          /\ UNCHANGED executing
    /\ UNCHANGED <<worklistVars, poolVars, phase, received, hand, lost>>

\* Mutant of Complete: the task is still retryable after its answer.
CompleteAndRetry(s, c, a) ==
    /\ <<s, c>> \in executing
    /\ executing' = executing \ {<<s, c>>}
    /\ answer' = [answer EXCEPT ![c] = a]
    /\ Notify(PushedFront(PriorityOf[c], c), LaidOff(s))
    /\ UNCHANGED <<registered, gone, phase, received, scheduled, attempt, lost>>

\* _handle_success and _handle_failure, then layoff
Complete(s, c, a) ==
    /\ <<s, c>> \in executing
    /\ executing' = executing \ {<<s, c>>}
    /\ answer' = [answer EXCEPT ![c] = a]
    /\ Offer(LaidOff(s))
    /\ UNCHANGED <<worklistVars, registered, gone, phase, received, hand,
                   scheduled, attempt, lost>>

\* The call, or the lookup of its service, was answered: with a result, with the
\* error of the remote method, or with an error of the protocol.
Answered(s, c) == Complete(s, c, "done")

\* Any other exception, no attempt left (_handle_error)
Exhausted(s, c) == /\ attempt[c] >= MaxRetries
                   /\ Complete(s, c, "exhausted")

\* Mutant of Retry: one attempt more than task_max_retries.
RetryOnceMore(s, c) == /\ <<s, c>> \in executing
                       /\ attempt[c] <= MaxRetries
                       /\ executing' = executing \ {<<s, c>>}
                       /\ Notify(PushedFront(PriorityOf[c], c), LaidOff(s))
                       /\ UNCHANGED <<registered, gone, phase, scheduled, taskVars>>

\* Any other exception, the call goes back to the front of its queue; then layoff.
Retry(s, c) == /\ <<s, c>> \in executing
               /\ attempt[c] < MaxRetries
               /\ executing' = executing \ {<<s, c>>}
               /\ Notify(PushedFront(PriorityOf[c], c), LaidOff(s))
               /\ UNCHANGED <<registered, gone, phase, scheduled, taskVars>>

-----------------------------------------------------------------------------
(* Lost connections.  The outstanding remote call on the connection fails  *)
(* first, then the session is removed from the pool.                       *)

\* The ping fails; __remove, and hire goes on with the next session.
LosePinged(s) == /\ s \in pinged
                 /\ HireFrom(available)
                 /\ UNCHANGED <<queues, turn, paused, waiting, hand, executing,
                                lost>>

\* Mutant of LoseExecuting: the call is not put back.
LoseExecutingForGood(s, c) == /\ <<s, c>> \in executing
                              /\ executing' = executing \ {<<s, c>>}
                              /\ lost' = [lost EXCEPT ![c] = @ + 1]
                              /\ Notify(queues, available)

\* PBConnectionLost in execute: the call goes back to the front of its queue,
\* whatever its attempts.  The session is laid off and then discarded, or found
\* dead by the hire that waits for it: either way it is not available.
LoseExecuting(s, c) == /\ <<s, c>> \in executing
                       /\ executing' = executing \ {<<s, c>>}
                       /\ lost' = [lost EXCEPT ![c] = @ + 1]
                       /\ Notify(PushedFront(PriorityOf[c], c), available)

\* Mutant of LoseIdle: the session stays in the availability queue.
LoseIdleAvailable(s) == /\ s \notin pinged
                        /\ \A c \in Calls : <<s, c>> \notin executing
                        /\ UNCHANGED <<queues, turn, paused, waiting, hand, executing,
                                       lost, available, hirer, pinged>>

\* No remote call is outstanding.
LoseIdle(s) == /\ s \notin pinged
               /\ \A c \in Calls : <<s, c>> \notin executing
               /\ available' = Discarded(s)
               /\ UNCHANGED <<queues, turn, paused, waiting, hand, executing,
                              lost, hirer, pinged>>

Disconnect(s) == /\ s \in registered
                 /\ Cardinality(gone) < MaxLosses
                 /\ Unregister(s)
                 /\ \/ LosePinged(s)
                    \/ \E c \in Calls : LoseExecuting(s, c)
                    \/ LoseIdle(s)
                 /\ UNCHANGED <<phase, received, scheduled, attempt, answer>>

-----------------------------------------------------------------------------
Pause == /\ TogglePause
         /\ UNCHANGED <<poolVars, phase, hand, scheduled, executing, taskVars>>

Next == \/ Start \/ Dispatch \/ Stop \/ Pause
        \/ \E c \in Calls : Submit(c) \/ Refuse(c)
        \/ \E s \in Sessions : Report(s) \/ Hired(s) \/ PingFails(s) \/ Disconnect(s)
        \/ \E s \in Sessions, c \in Calls :
              Execute(s, c) \/ Answered(s, c) \/ Exhausted(s, c) \/ Retry(s, c)

Spec == Init /\ [][Next]_vars

\* The reactor keeps calling what is scheduled, a worker answers what is asked of
\* it or its connection is lost, and workers keep connecting (zenhubworker.py
\* reconnects for ever).
Fairness == /\ WF_vars(Start) /\ WF_vars(Dispatch)
            /\ \A s \in Sessions : WF_vars(Report(s)) /\ WF_vars(Hired(s))
            /\ \A s \in Sessions, c \in Calls :
                  /\ WF_vars(Execute(s, c))
                  /\ WF_vars(Answered(s, c) \/ Exhausted(s, c) \/ Retry(s, c))

LiveSpec == Spec /\ Fairness

-----------------------------------------------------------------------------
(* Properties                                                              *)

TypeOK ==
    /\ queues \in [Priorities -> Seq(Calls)]
    /\ turn \in 0..(Len(Cycle) - 1)
    /\ paused \in BOOLEAN
    /\ waiting \in BOOLEAN
    /\ registered \in SUBSET Sessions
    /\ gone \in SUBSET Sessions
    /\ available \in Seq(Sessions)
    /\ hirer \in {"none", "waiting", "pinging"}
    /\ pinged \in SUBSET Sessions
    /\ phase \in {"created", "running", "stopped"}
    /\ received \in SUBSET Calls
    /\ hand \in SUBSET Calls
    /\ scheduled \in SUBSET (Sessions \X Calls)
    /\ executing \in SUBSET (Sessions \X Calls)
    /\ attempt \in [Calls -> Nat]
    /\ lost \in [Calls -> Nat]
    /\ answer \in [Calls -> Answers]

\* Where a call can be
Queued(c) == \E i \in DOMAIN queues[PriorityOf[c]] : queues[PriorityOf[c]][i] = c
InHand(c) == c \in hand
Scheduled(c) == \E s \in Sessions : <<s, c>> \in scheduled
Executing(c) == \E s \in Sessions : <<s, c>> \in executing
Pending(c) == Queued(c) \/ InHand(c) \/ Scheduled(c) \/ Executing(c)

\* No call is lost and none is kept after its answer: a call the executor has
\* accepted and not answered is queued, in the hand of the dispatch loop,
\* scheduled or executing, and no other call is.
NothingLost == \A c \in Calls : Pending(c) <=> c \in received /\ answer[c] = "none"

\* A call is in one place only, once, so it is never executed by two workers and
\* its deferred never fires twice.
OnePlace ==
    /\ \A p \in Priorities : \A i, j \in DOMAIN queues[p] :
          queues[p][i] = queues[p][j] => i = j
    /\ \A p \in Priorities : \A i \in DOMAIN queues[p] : PriorityOf[queues[p][i]] = p
    /\ \A c \in Calls :
          /\ Queued(c) => ~InHand(c) /\ ~Scheduled(c) /\ ~Executing(c)
          /\ InHand(c) => ~Scheduled(c) /\ ~Executing(c)
          /\ Scheduled(c) => ~Executing(c)
    /\ \A x, y \in scheduled \cup executing : x[2] = y[2] => x = y
    /\ \A c, d \in hand : c = d

\* Where a session can be
IsAvailable(s) == \E i \in DOMAIN available : available[i] = s
Hiring(s) == s \in pinged
Assigned(s) == \E c \in Calls : <<s, c>> \in scheduled
Working(s) == \E c \in Calls : <<s, c>> \in executing

\* A worker is hired for one call at a time: a session is in one place, once.
OneCallPerWorker ==
    /\ \A i, j \in DOMAIN available : available[i] = available[j] => i = j
    /\ \A s \in Sessions :
          /\ IsAvailable(s) => ~Hiring(s) /\ ~Assigned(s) /\ ~Working(s)
          /\ Hiring(s) => ~Assigned(s) /\ ~Working(s)
          /\ Assigned(s) => ~Working(s)
    /\ \A x, y \in scheduled \cup executing : x[1] = y[1] => x = y
    /\ \A s, t \in pinged : s = t

\* No worker is forgotten: a registered session is available, pinged, assigned or
\* working; and whatever hire or a remote call waits on is registered, so that
\* `hire' never finds the session of its ping removed (an exception there would
\* drop the call the dispatch loop holds).
NoWorkerLost == \A s \in Sessions :
    /\ s \in registered => IsAvailable(s) \/ Hiring(s) \/ Assigned(s) \/ Working(s)
    /\ IsAvailable(s) \/ Hiring(s) \/ Working(s) => s \in registered

\* The dispatch loop waits for a worker only while it holds a call, and then no
\* session is available; it never waits for an item at the same time.
DispatchInStep == /\ hirer # "none" <=> hand # {}
                  /\ hirer = "pinging" <=> pinged # {}
                  /\ hirer = "waiting" => available = <<>>
                  /\ waiting => hirer = "none"

\* Calls that are retried go before the calls not yet attempted.
RetriesFirst == \A p \in Priorities : \A i, j \in DOMAIN queues[p] :
    i < j /\ attempt[queues[p][i]] = 0 => attempt[queues[p][j]] = 0

\* The attempts of a call end: those that do not end in a lost connection are at most
\* task_max_retries, however retries and losses take turns.  It is a bound from above
\* only; that a loss costs no attempt is what LossesCostNoAttempt says.
AttemptsBounded == \A c \in Calls : attempt[c] <= MaxRetries + lost[c]

\* The comment of the handler of a lost connection (workers.py:222): "not a failure. The
\* attempt count is _not_ incremented".  A call that is given up for its errors has had
\* all its task_max_retries attempts, apart from those that ended in a lost connection.
LossesCostNoAttempt == \A c \in Calls :
    answer[c] = "exhausted" => attempt[c] >= MaxRetries + lost[c]

\* An answer is final: once the deferred of a call has fired, no step changes it,
\* and the call is not attempted again.
AnswerIsFinal == [][\A c \in Calls : answer[c] # "none" =>
                       answer'[c] = answer[c] /\ attempt'[c] = attempt[c]]_vars

\* Every accepted call that is not a modeling call is answered, however modeling
\* is paused, unless the executor is stopped.
CallsAnswered == \A c \in Calls :
    (c \in received /\ PriorityOf[c] # Modeling) ~> (answer[c] # "none" \/ phase = "stopped")

\* Clients see no queues, priorities or workers: every step accepts, refuses, runs,
\* tries again or answers one call, or changes nothing they could see.
Promise == INSTANCE ServiceCalls WITH
             Replies  <- Answers \ {"none"},
             NoReply  <- "none",
             accepted <- received,
             running  <- {c \in Calls : Executing(c)},
             reply    <- answer

ImplementsServiceCalls == Promise!CallsSpec

\* The docstring of ZenHubWorklist.pop (worklist.py:67): the deferred "fires when
\* an item is available".
PopFiresWhenAvailable ==
    (waiting /\ HasItem(queues) /\ phase = "running")
       ~> (~waiting \/ ~HasItem(queues) \/ phase = "stopped")
=============================================================================
