----------------------------- MODULE JobRecords -----------------------------
(***************************************************************************)
(* The records of background jobs (Products/Jobber): a chain of jobs is    *)
(* submitted, run by workers, and aborted or deleted by users.             *)
(*                                                                         *)
(* What the user interface shows of a job is its record in Redis           *)
(* (storage.py).  Its status is written by the process that submits the    *)
(* job (manager.py), by handlers of Celery's signals in the worker that    *)
(* runs it (model.py), and by whoever aborts or deletes it                 *)
(* (task/abortable.py, manager.py).  Nothing locks a record: a handler     *)
(* reads, other processes write, and the handler writes.  Celery keeps a   *)
(* state of its own in its result backend, and the two are not changed     *)
(* together.                                                               *)
(*                                                                         *)
(* One action is what happens between two accesses to Redis that another   *)
(* process may come between.  Left out: the times (JobsWidget adds them),  *)
(* logs, details, expiry after a week, and the kill of a worker that does  *)
(* not react to an abort within 5 seconds.                                 *)
(***************************************************************************)
EXTENDS Naturals, FiniteSets, Sequences

CONSTANTS Chain,       \* the jobs of the chain, in order
          Clients,     \* requests of users that may be under way together
          MaxOps,      \* bound: aborts and deletions
          MaxRetries,  \* zodb-max-retries
          MaxCrashes   \* bound: workers that die

Jobs == {Chain[i] : i \in DOMAIN Chain}

ASSUME JobsAssumption == /\ Chain \in Seq(Jobs) /\ Chain # <<>>
                         /\ \A i, k \in DOMAIN Chain : Chain[i] = Chain[k] => i = k
                         /\ {MaxOps, MaxRetries, MaxCrashes} \subseteq Nat

First == Chain[1]
Position(j) == CHOOSE i \in DOMAIN Chain : Chain[i] = j

\* The callbacks of a job in a chain: the job after it
Callbacks(j) == {Chain[i] : i \in DOMAIN Chain \cap {Position(j) + 1}}

\* The jobs a message of a job tells of: itself, and the links of its callbacks
From(j) == {Chain[i] : i \in {k \in DOMAIN Chain : k >= Position(j)}}

READY == {"SUCCESS", "FAILURE", "ABORTED"}
Statuses == READY \cup {"none", "STAGED", "PENDING", "STARTED", "RETRY"}

\* What a run of a job's body comes to
Outcomes == {"success", "error", "conflict", "aborted"}

\* Where the worker that has taken the message of a job is
WorkerSteps == {"idle", "starting", "tracking", "calling", "running", "storing",
                "reporting", "writing", "chaining", "aborting callback",
                "acknowledging"}

\* Where a user's request is
ClientSteps == {"idle", "record", "backend", "remove"}

VARIABLES status,      \* the record's status; "none" where there is no record
          whole,       \* the record has all its fields
          backend,     \* Celery's state of the job
          messages,    \* messages of the job in the queue
          submission,  \* the transaction that adds the jobs
          worker,      \* who runs the job: a step, the status found at first, the
                       \* outcome of the body, the status to write
          retries,     \* how often the job was retried
          client,      \* requests of users: a step, what for, which job
          ops,         \* requests so far
          crashes,     \* workers that have died
          succeeded,   \* history: a run of the job's body has succeeded
          removed      \* history: a record of the job was deleted

recordVars == <<status, whole>>   \* the store
workerVars == <<worker, retries, crashes, succeeded>>
clientVars == <<client, ops, removed>>
vars == <<recordVars, backend, messages, submission, workerVars, clientVars>>

NoWorker == [at |-> "idle", found |-> "none", outcome |-> "none", seen |-> "none"]
NoRequest == [at |-> "idle", op |-> "none", job |-> First]

Init == /\ status = [j \in Jobs |-> "none"]
        /\ whole = [j \in Jobs |-> FALSE]
        /\ backend = [j \in Jobs |-> "PENDING"]
        /\ messages = [j \in Jobs |-> 0]
        /\ submission = "open"
        /\ worker = [j \in Jobs |-> NoWorker]
        /\ retries = [j \in Jobs |-> 0]
        /\ client = [c \in Clients |-> NoRequest]
        /\ ops = 0
        /\ crashes = 0
        /\ succeeded = [j \in Jobs |-> FALSE]
        /\ removed = [j \in Jobs |-> FALSE]

----------------------------------------------------------------------------
(***************************************************************************)
(* The store.                                                              *)
(***************************************************************************)

\* The end of JobStore.update, its check that the record exists being behind it:
\* hmset makes a record of the fields it is given if there is none by now.
Update(j, new) == /\ status' = [status EXCEPT ![j] = new]
                  /\ whole' = [whole EXCEPT ![j] = status[j] # "none" /\ @]

\* save_jobrecord, called before the message of j is published: if j has no record it
\* gets one, and so do the jobs that come after it
SaveJobRecord(j) ==
    LET missing == IF status[j] = "none" THEN {k \in From(j) : status[k] = "none"} ELSE {}
    IN  /\ status' = [k \in Jobs |-> IF k \in missing THEN "PENDING" ELSE status[k]]
        /\ whole' = [k \in Jobs |-> k \in missing \/ whole[k]]

\* apply_async: the message of a job is published
Publish(j) == messages' = [messages EXCEPT ![j] = @ + 1]

----------------------------------------------------------------------------
(***************************************************************************)
(* Submission: JobDispatcher, a data manager of the transaction.           *)
(***************************************************************************)

\* add: every job gets a record that only the submitter may know of
Stage == /\ submission = "open"
         /\ submission' = "staged"
         /\ status' = [j \in Jobs |-> "STAGED"]
         /\ whole' = [j \in Jobs |-> TRUE]
         /\ UNCHANGED <<backend, messages, workerVars, clientVars>>

\* abort, tpc_abort: the transaction fails
Rollback == /\ submission = "staged"
            /\ submission' = "rolled back"
            /\ status' = [j \in Jobs |-> "none"]
            /\ whole' = [j \in Jobs |-> FALSE]
            /\ UNCHANGED <<backend, messages, workerVars, clientVars>>

\* tpc_finish: "Update relevant STAGED records to PENDING."
Commit == /\ submission = "staged"
          /\ submission' = "committed"
          /\ status' = [j \in Jobs |-> "PENDING"]
          /\ UNCHANGED <<whole, backend, messages, workerVars, clientVars>>

\* ... and "Send the job(s) to zenjobs": the chain is the message of its first job.
Send == /\ submission = "committed"
        /\ submission' = "sent"
        /\ SaveJobRecord(First)
        /\ Publish(First)
        /\ UNCHANGED <<backend, workerVars, clientVars>>

----------------------------------------------------------------------------
(***************************************************************************)
(* A worker.  Celery calls the handlers and the task; what it does between *)
(* them is modelled as the code relies on it.  A message is acknowledged   *)
(* at the end (CELERY_ACKS_LATE).                                          *)
(***************************************************************************)

\* The worker of j goes on to a step
Goto(j, step) == worker' = [worker EXCEPT ![j].at = step]

Leave(j) == worker' = [worker EXCEPT ![j] = NoWorker]

\* It is done, and the message is to be acknowledged
Finish(j) == worker' = [worker EXCEPT ![j] = [NoWorker EXCEPT !.at = "acknowledging"]]

\* job_start: "Don't start jobs that are finished"
MayStart(found) == found \notin READY \cup {"none"}

\* The worker takes the message of a job and reads its status (job_start).  A job is
\* run by one worker at a time: a retry is put off by a second at least, and a lost
\* message comes back when its worker is gone.
Take(j) ==
    /\ messages[j] > 0
    /\ worker[j].at = "idle"
    /\ messages' = [messages EXCEPT ![j] = @ - 1]
    /\ worker' = [worker EXCEPT ![j] =
                     [NoWorker EXCEPT !.at = IF MayStart(status[j]) THEN "starting" ELSE "tracking",
                                      !.found = status[j]]]
    /\ UNCHANGED <<recordVars, backend, submission, retries, crashes, succeeded, clientVars>>

\* job_start writes STARTED
Start(j) == /\ worker[j].at = "starting"
            /\ Goto(j, "tracking")
            /\ Update(j, "STARTED")
            /\ UNCHANGED <<backend, messages, submission, retries, crashes, succeeded, clientVars>>

\* Celery stores its own STARTED (CELERY_TRACK_STARTED)
Track(j) == /\ worker[j].at = "tracking"
            /\ Goto(j, "calling")
            /\ backend' = [backend EXCEPT ![j] = "STARTED"]
            /\ UNCHANGED <<recordVars, messages, submission, retries, crashes, succeeded, clientVars>>

\* Mutant of IsIgnored: only the deletion of a job is noticed.
IsIgnoredIfDeleted(found) == found = "none"

\* Abortable.__call__: "Ignoring deleted job", "Ignoring aborted job"
IsIgnored(found) == found \in {"none", "ABORTED"}

Call(j) == /\ worker[j].at = "calling"
           /\ IF IsIgnored(status[j]) THEN Finish(j) ELSE Goto(j, "running")
           /\ UNCHANGED <<recordVars, backend, messages, submission, retries, crashes,
                          succeeded, clientVars>>

\* The body ends with an outcome, which Celery stores next
Ended(j, outcome) == worker' = [worker EXCEPT ![j].at = "storing", ![j].outcome = outcome]

\* It succeeds.  Celery publishes the callbacks before it stores the result.
Succeed(j) ==
    /\ worker[j].at = "running"
    /\ Ended(j, "success")
    /\ succeeded' = [succeeded EXCEPT ![j] = TRUE]
    /\ \/ Callbacks(j) = {} /\ UNCHANGED <<recordVars, messages>>
       \/ \E k \in Callbacks(j) : SaveJobRecord(k) /\ Publish(k)
    /\ UNCHANGED <<backend, submission, retries, crashes, clientVars>>

\* It raises
Fail(j) == /\ worker[j].at = "running"
           /\ Ended(j, "error")
           /\ UNCHANGED <<recordVars, backend, messages, submission, retries, crashes,
                          succeeded, clientVars>>

\* It conflicts with another transaction (DMD.__retry_on_conflict): the message is
\* published again
Conflict(j) == /\ worker[j].at = "running"
               /\ retries[j] < MaxRetries
               /\ retries' = [retries EXCEPT ![j] = @ + 1]
               /\ Ended(j, "conflict")
               /\ SaveJobRecord(j)
               /\ Publish(j)
               /\ UNCHANGED <<backend, submission, crashes, succeeded, clientVars>>

\* Mutant of Interrupt: the exception ends the body, and Celery takes that for a success.
InterruptSwallowed(j) == /\ worker[j].at = "running"
                         /\ backend[j] = "ABORTED"
                         /\ Ended(j, "success")
                         /\ UNCHANGED <<recordVars, backend, messages, submission, retries, crashes,
                                        succeeded, clientVars>>

\* _TaskAborter sees the abort in Celery's state and raises JobAborted in the body
Interrupt(j) == /\ worker[j].at = "running"
                /\ backend[j] = "ABORTED"
                /\ Ended(j, "aborted")
                /\ UNCHANGED <<recordVars, backend, messages, submission, retries, crashes,
                               succeeded, clientVars>>

\* What Celery's state becomes; Abortable.on_failure sets it back to ABORTED
ResultState(outcome) == CASE outcome = "success"  -> "SUCCESS"
                          [] outcome = "error"    -> "FAILURE"
                          [] outcome = "conflict" -> "RETRY"
                          [] outcome = "aborted"  -> "ABORTED"

Store(j) == /\ worker[j].at = "storing"
            /\ backend' = [backend EXCEPT ![j] = ResultState(worker[j].outcome)]
            /\ Goto(j, "reporting")
            /\ UNCHANGED <<recordVars, messages, submission, retries, crashes,
                           succeeded, clientVars>>

\* The status that job_success, job_failure and job_retry write: Celery's state, but
\* FAILURE for a success that left errors in the job's log
Reported(state, outcome) == IF outcome = "success" THEN {state, "FAILURE"} ELSE {state}

\* They read Celery's state, and find the record or not
Report(j) ==
    /\ worker[j].at = "reporting"
    /\ IF status[j] = "none"
       THEN Finish(j)
       ELSE \E s \in Reported(backend[j], worker[j].outcome) :
              worker' = [worker EXCEPT ![j].at = "writing", ![j].seen = s]
    /\ UNCHANGED <<recordVars, backend, messages, submission, retries, crashes,
                   succeeded, clientVars>>

\* Only job_failure goes on, to the callbacks
Failed(outcome) == outcome \in {"error", "aborted"}

\* They write the status
Write(j) ==
    /\ worker[j].at = "writing"
    /\ Update(j, worker[j].seen)
    /\ IF Failed(worker[j].outcome) /\ Callbacks(j) # {} THEN Goto(j, "chaining") ELSE Finish(j)
    /\ UNCHANGED <<backend, messages, submission, retries, crashes, succeeded, clientVars>>

\* job_failure: "Abort all subsequent jobs in the chain."  A callback without a
\* record raises.
AbortCallback(j) ==
    /\ worker[j].at = "chaining"
    /\ \E k \in Callbacks(j) : IF status[k] = "none" THEN Finish(j) ELSE Goto(j, "aborting callback")
    /\ UNCHANGED <<recordVars, backend, messages, submission, retries, crashes,
                   succeeded, clientVars>>

AbortedCallback(j) ==
    /\ worker[j].at = "aborting callback"
    /\ Finish(j)
    /\ \E k \in Callbacks(j) : Update(k, "ABORTED")
    /\ UNCHANGED <<backend, messages, submission, retries, crashes, succeeded, clientVars>>

Acknowledge(j) == /\ worker[j].at = "acknowledging"
                  /\ Leave(j)
                  /\ UNCHANGED <<recordVars, backend, messages, submission, retries, crashes,
                                 succeeded, clientVars>>

\* Mutant of Crash: the message was acknowledged when it was taken.
CrashAndForget(j) == /\ worker[j].at # "idle"
                     /\ crashes < MaxCrashes
                     /\ crashes' = crashes + 1
                     /\ Leave(j)
                     /\ UNCHANGED <<recordVars, backend, messages, submission, retries, succeeded, clientVars>>

\* The worker dies, and the broker delivers the message again, even that of a job
\* that is finished
Crash(j) == /\ worker[j].at # "idle"
            /\ crashes < MaxCrashes
            /\ crashes' = crashes + 1
            /\ Leave(j)
            /\ Publish(j)
            /\ UNCHANGED <<recordVars, backend, submission, retries, succeeded, clientVars>>

Work(j) == \/ Take(j) \/ Start(j) \/ Track(j) \/ Call(j)
           \/ Succeed(j) \/ Fail(j) \/ Conflict(j) \/ Interrupt(j)
           \/ Store(j) \/ Report(j) \/ Write(j) \/ AbortCallback(j) \/ AbortedCallback(j)
           \/ Acknowledge(j)

----------------------------------------------------------------------------
(***************************************************************************)
(* Users: JobsRouter.abort and deleteJobs, by way of JobManager.           *)
(***************************************************************************)
Request(c, j, op, step) ==
    /\ client[c].at = "idle"
    /\ ops < MaxOps
    /\ ops' = ops + 1
    /\ client' = [client EXCEPT ![c] = [at |-> step, op |-> op, job |-> j]]
    /\ UNCHANGED <<recordVars, backend, messages, submission, workerVars, removed>>

\* The user's page sends aborts by the status it knows, which may be old: a record is
\* all that is asked for (JobManager.getJob; of a staged job only its submitter knows).
\* The task is found by the name in the record.
Abort(c, j) == /\ status[j] \notin {"none", "STAGED"}
               /\ whole[j]
               /\ Request(c, j, "abort", "record")

\* deleteJob: a job that is not finished is aborted first
Delete(c, j) == /\ status[j] \notin {"none", "STAGED"}
                /\ status[j] \notin READY => whole[j]
                /\ Request(c, j, "delete", IF status[j] \in READY THEN "remove" ELSE "record")

\* The request of c goes on to a step, or is done
Proceed(c, step) == client' = [client EXCEPT ![c] = IF step = "idle" THEN NoRequest
                                                    ELSE [@ EXCEPT !.at = step]]

\* AbortableResult.abort: first the record,
AbortRecord(c) == /\ client[c].at = "record"
                  /\ Update(client[c].job, "ABORTED")
                  /\ Proceed(c, "backend")
                  /\ UNCHANGED <<backend, messages, submission, workerVars, ops, removed>>

\* then Celery's state, which a running job is watched by
AbortBackend(c) == /\ client[c].at = "backend"
                   /\ backend' = [backend EXCEPT ![client[c].job] = "ABORTED"]
                   /\ Proceed(c, IF client[c].op = "delete" THEN "remove" ELSE "idle")
                   /\ UNCHANGED <<recordVars, messages, submission, workerVars, ops, removed>>

\* del storage[jobid]; it raises where the record is gone
Remove(c) == /\ client[c].at = "remove"
             /\ status' = [status EXCEPT ![client[c].job] = "none"]
             /\ whole' = [whole EXCEPT ![client[c].job] = FALSE]
             /\ removed' = [removed EXCEPT ![client[c].job] = TRUE]
             /\ Proceed(c, "idle")
             /\ UNCHANGED <<backend, messages, submission, workerVars, ops>>

Serve(c) == AbortRecord(c) \/ AbortBackend(c) \/ Remove(c)

----------------------------------------------------------------------------
Next == \/ Stage \/ Rollback \/ Commit \/ Send
        \/ \E j \in Jobs : Work(j) \/ Crash(j)
        \/ \E c \in Clients : Serve(c) \/ \E j \in Jobs : Abort(c, j) \/ Delete(c, j)

\* The transaction goes on once it has begun to commit, workers work, and requests
\* are carried out.
Fairness == /\ WF_vars(Send)
            /\ \A j \in Jobs : WF_vars(Work(j))
            /\ \A c \in Clients : WF_vars(Serve(c))

Spec == Init /\ [][Next]_vars /\ Fairness

----------------------------------------------------------------------------
TypeOK == /\ status \in [Jobs -> Statuses]
          /\ whole \in [Jobs -> BOOLEAN]
          /\ backend \in [Jobs -> READY \cup {"PENDING", "STARTED", "RETRY"}]
          /\ messages \in [Jobs -> Nat]
          /\ submission \in {"open", "staged", "committed", "sent", "rolled back"}
          /\ worker \in [Jobs -> [at : WorkerSteps, found : Statuses,
                                  outcome : Outcomes \cup {"none"}, seen : Statuses]]
          /\ retries \in [Jobs -> 0..MaxRetries]
          /\ client \in [Clients -> [at : ClientSteps, op : {"none", "abort", "delete"}, job : Jobs]]
          /\ ops \in 0..MaxOps
          /\ crashes \in 0..MaxCrashes
          /\ succeeded \in [Jobs -> BOOLEAN]
          /\ removed \in [Jobs -> BOOLEAN]

\* Nobody has anything to do with the job any more
AtRest(j) == /\ messages[j] = 0
             /\ worker[j].at = "idle"
             /\ \A c \in Clients : client[c].at # "idle" => client[c].job # j

\* The body of a job that was aborted before a worker came to it is not run, in
\* whatever order the two places that tell of the abort are written and read.  (One
\* that was deleted may get a new record when the job before it succeeds, and runs.)
AbortedNeverRuns == \A j \in Jobs :
    worker[j].found = "ABORTED" /\ ~removed[j] => worker[j].at \in {"tracking", "calling"}

\* A job that is shown as a success has run to its end, and one that never did is not
\* made one by any order of aborts, retries and lost workers.
SuccessIsTrue == \A j \in Jobs : status[j] = "SUCCESS" => succeeded[j]

\* No record is left behind as STARTED or RETRY by a job nobody works on; one is left
\* as PENDING only where it waits for the job before it in the chain.
NoneLeftBehind == \A j \in Jobs : AtRest(j) /\ submission = "sent" =>
    \/ status[j] \in READY \cup {"none"}
    \/ status[j] = "PENDING" /\ j # First

\* A job whose message is in the queue is finished, or deleted, in the end, although
\* its worker may die, it may be retried, and users interfere.
JobsEnd == \A j \in Jobs : messages[j] > 0 ~> status[j] \in READY \cup {"none"}

\* "Abort all subsequent jobs in the chain." (model.py:525), when one has failed: once
\* all is done, none of those after it is left waiting.
ChainAborted == \A j, k \in Jobs :
    (Position(j) < Position(k) /\ status[j] = "FAILURE" /\ \A i \in Jobs : AtRest(i))
        => status[k] # "PENDING"
=============================================================================
