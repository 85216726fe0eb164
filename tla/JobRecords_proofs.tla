-------------------------- MODULE JobRecords_proofs --------------------------
(***************************************************************************)
(* What the record of a job says, for chains of every length, every number *)
(* of users, and however often jobs are retried and workers die.           *)
(*                                                                         *)
(* The status is written by processes that do not know of each other, so   *)
(* what holds of it must hold before and after each of their accesses.     *)
(*   Submitted  before the jobs are sent nobody works on them, and their   *)
(*              records hold what the submitter, or an abort, has put in;  *)
(*   Ran        wherever a success is noted - outcome, Celery's state,     *)
(*              what is about to be written, the record - a run succeeded; *)
(*   Noticed    a worker that has found its job aborted has not passed the *)
(*              check of Abortable.__call__, and the record still says so; *)
(*   Reporting  what a worker is about to write ends the job, or there is  *)
(*              a message that will;                                       *)
(*   Attended   a record that does not say that its job is over has a      *)
(*              message, or a worker that is still going to write it;      *)
(*   Known      once the jobs are sent no record says STAGED any more.     *)
(***************************************************************************)
EXTENDS JobRecords, TLAPS

Submitted ==
    /\ submission # "sent" => \A j \in Jobs : messages[j] = 0 /\ worker[j] = NoWorker
    /\ submission \in {"open", "rolled back"} => \A j \in Jobs : status[j] = "none"
    /\ submission = "committed" => \A j \in Jobs : status[j] \in {"none", "PENDING", "ABORTED"}
    /\ \A c \in Clients : client[c].at # "idle" => submission \in {"committed", "sent"}
    /\ submission = "staged" => \A j \in Jobs : status[j] = "STAGED"

Ran(j) ==
    "SUCCESS" \in {status[j], backend[j], worker[j].seen} \/ worker[j].outcome = "success"
        => succeeded[j]

Noticed(j) == worker[j].found = "ABORTED" /\ ~removed[j] =>
    worker[j].at \in {"tracking", "calling"} /\ status[j] = "ABORTED"

Reporting(j) ==
    /\ worker[j].at \in {"storing", "reporting", "writing"} =>
         /\ worker[j].outcome \in Outcomes
         /\ worker[j].outcome = "conflict" => messages[j] > 0
    /\ worker[j].at = "reporting" => backend[j] \in {ResultState(worker[j].outcome), "ABORTED"}
    /\ worker[j].at = "writing" => \/ worker[j].seen \in READY
                                   \/ worker[j].seen = "RETRY" /\ worker[j].outcome = "conflict"

Writing == {"starting", "tracking", "calling", "running", "storing", "reporting", "writing"}

Attended(j) == submission = "sent" => \/ messages[j] > 0
                                      \/ worker[j].at \in Writing
                                      \/ status[j] \in READY \cup {"none"}
                                      \/ status[j] = "PENDING" /\ j # First

Known(j) == submission = "sent" => status[j] # "STAGED" /\ worker[j].seen # "STAGED"

OneJob(j) == Known(j) /\ Ran(j) /\ Noticed(j) /\ Reporting(j) /\ Attended(j)

IInv == TypeOK /\ Submitted /\ \A j \in Jobs : OneJob(j)

----------------------------------------------------------------------------
(***************************************************************************)
(* What the operators do to one job, and that they leave the others.       *)
(***************************************************************************)
USE JobsAssumption

Workers == [at : WorkerSteps, found : Statuses, outcome : Outcomes \cup {"none"}, seen : Statuses]

OthersWork(j) == \A k \in Jobs \ {j} : worker'[k] = worker[k]

LEMMA JobsOfTheChain == First \in Jobs /\ \A j \in Jobs : Callbacks(j) \subseteq Jobs
<1>1. 1 \in DOMAIN Chain
  OBVIOUS
<1>2. QED
  BY <1>1 DEF First, Jobs, Callbacks

\* Only a message of the first job tells of the first job.
LEMMA FromFacts ==
  ASSUME NEW j \in Jobs
  PROVE  From(j) \subseteq Jobs /\ (First \in From(j) => j = First)
<1>1. Position(j) \in DOMAIN Chain /\ Chain[Position(j)] = j
  <2>1. \E i \in DOMAIN Chain : Chain[i] = j
    BY DEF Jobs
  <2>2. QED
    BY <2>1 DEF Position
<1>2. From(j) \subseteq Jobs
  BY DEF From, Jobs
<1>3. ASSUME First \in From(j) PROVE j = First
  <2>1. PICK i \in DOMAIN Chain : i >= Position(j) /\ Chain[i] = Chain[1]
    BY <1>3 DEF From, First
  <2>2. 1 \in DOMAIN Chain /\ DOMAIN Chain \subseteq Nat \ {0}
    OBVIOUS
  <2>3. i = 1
    BY <2>1, <2>2
  <2>4. Position(j) = 1
    BY <1>1, <2>1, <2>2, <2>3
  <2>5. QED
    BY <1>1, <2>4 DEF First
<1>4. QED
  BY <1>2, <1>3

LEMMA NoWorkerTyped ==
  /\ NoWorker \in Workers
  /\ NoWorker.at = "idle" /\ NoWorker.found = "none" /\ NoWorker.outcome = "none" /\ NoWorker.seen = "none"
BY DEF NoWorker, Workers, WorkerSteps, Statuses

LEMMA GotoFacts ==
  ASSUME worker \in [Jobs -> Workers], NEW j \in Jobs, NEW step \in WorkerSteps, Goto(j, step)
  PROVE  /\ worker' \in [Jobs -> Workers] /\ OthersWork(j)
         /\ worker'[j].at = step /\ worker'[j].found = worker[j].found
         /\ worker'[j].outcome = worker[j].outcome /\ worker'[j].seen = worker[j].seen
<1>1. [worker[j] EXCEPT !.at = step] \in Workers
  BY DEF Workers
<1>2. worker' = [worker EXCEPT ![j] = [worker[j] EXCEPT !.at = step]]
  BY DEF Goto
<1>3. QED
  BY <1>1, <1>2 DEF Workers, OthersWork

LEMMA EndedFacts ==
  ASSUME worker \in [Jobs -> Workers], NEW j \in Jobs, NEW outcome \in Outcomes, Ended(j, outcome)
  PROVE  /\ worker' \in [Jobs -> Workers] /\ OthersWork(j)
         /\ worker'[j].at = "storing" /\ worker'[j].found = worker[j].found
         /\ worker'[j].outcome = outcome /\ worker'[j].seen = worker[j].seen
<1>1. [worker[j] EXCEPT !.at = "storing", !.outcome = outcome] \in Workers
  BY DEF Workers, WorkerSteps
<1>2. worker' = [worker EXCEPT ![j] = [worker[j] EXCEPT !.at = "storing", !.outcome = outcome]]
  BY DEF Ended
<1>3. QED
  BY <1>1, <1>2 DEF Workers, OthersWork

LEMMA LeaveFacts ==
  ASSUME worker \in [Jobs -> Workers], NEW j \in Jobs, Leave(j)
  PROVE  worker' \in [Jobs -> Workers] /\ OthersWork(j) /\ worker'[j] = NoWorker
BY NoWorkerTyped DEF Leave, OthersWork

LEMMA FinishFacts ==
  ASSUME worker \in [Jobs -> Workers], NEW j \in Jobs, Finish(j)
  PROVE  /\ worker' \in [Jobs -> Workers] /\ OthersWork(j)
         /\ worker'[j].at = "acknowledging" /\ worker'[j].found = "none"
         /\ worker'[j].outcome = "none" /\ worker'[j].seen = "none"
<1>1. /\ [NoWorker EXCEPT !.at = "acknowledging"] \in Workers
      /\ [NoWorker EXCEPT !.at = "acknowledging"].at = "acknowledging"
      /\ [NoWorker EXCEPT !.at = "acknowledging"].found = "none"
      /\ [NoWorker EXCEPT !.at = "acknowledging"].outcome = "none"
      /\ [NoWorker EXCEPT !.at = "acknowledging"].seen = "none"
  BY DEF NoWorker, Workers, WorkerSteps, Statuses
<1>2. QED
  BY <1>1 DEF Finish, OthersWork

LEMMA UpdateFacts ==
  ASSUME status \in [Jobs -> Statuses], whole \in [Jobs -> BOOLEAN],
         NEW j \in Jobs, NEW new \in Statuses, Update(j, new)
  PROVE  /\ status' \in [Jobs -> Statuses] /\ whole' \in [Jobs -> BOOLEAN]
         /\ status'[j] = new /\ \A k \in Jobs \ {j} : status'[k] = status[k]
BY DEF Update

LEMMA SaveFacts ==
  ASSUME status \in [Jobs -> Statuses], whole \in [Jobs -> BOOLEAN], NEW j \in Jobs, SaveJobRecord(j)
  PROVE  /\ status' \in [Jobs -> Statuses] /\ whole' \in [Jobs -> BOOLEAN]
         /\ \A k \in Jobs : \/ status'[k] = status[k]
                            \/ /\ status[k] = "none" /\ status'[k] = "PENDING"
                               /\ k = First => j = First
<1> DEFINE missing == IF status[j] = "none" THEN {k \in From(j) : status[k] = "none"} ELSE {}
<1>1. /\ status' = [k \in Jobs |-> IF k \in missing THEN "PENDING" ELSE status[k]]
      /\ whole' = [k \in Jobs |-> k \in missing \/ whole[k]]
  BY DEF SaveJobRecord
<1>2. \A k \in missing : k \in From(j) /\ status[k] = "none"
  OBVIOUS
<1>3. "PENDING" \in Statuses
  BY DEF Statuses
<1> HIDE DEF missing
<1>4. \A k \in missing : k = First => j = First
  BY <1>2, FromFacts
<1>5. QED
  BY <1>1, <1>2, <1>3, <1>4

LEMMA PublishFacts ==
  ASSUME messages \in [Jobs -> Nat], NEW j \in Jobs, Publish(j)
  PROVE  /\ messages' \in [Jobs -> Nat] /\ messages'[j] > 0
         /\ \A k \in Jobs : messages[k] > 0 => messages'[k] > 0
BY DEF Publish

LEMMA TakenTyped ==
  ASSUME worker \in [Jobs -> Workers], status \in [Jobs -> Statuses], messages \in [Jobs -> Nat],
         NEW j \in Jobs, Take(j)
  PROVE  /\ worker' \in [Jobs -> Workers] /\ OthersWork(j)
         /\ worker'[j].found = status[j] /\ worker'[j].outcome = "none" /\ worker'[j].seen = "none"
         /\ worker'[j].at = IF MayStart(status[j]) THEN "starting" ELSE "tracking"
         /\ messages' \in [Jobs -> Nat] /\ \A k \in Jobs \ {j} : messages'[k] = messages[k]
<1> DEFINE w == [NoWorker EXCEPT !.at = IF MayStart(status[j]) THEN "starting" ELSE "tracking",
                                 !.found = status[j]]
<1>1. /\ w \in Workers /\ w.found = status[j] /\ w.outcome = "none" /\ w.seen = "none"
      /\ w.at = IF MayStart(status[j]) THEN "starting" ELSE "tracking"
  BY DEF NoWorker, Workers, WorkerSteps, Statuses
<1>2. worker' = [worker EXCEPT ![j] = w]
  BY DEF Take
<1>3. messages[j] > 0 /\ messages' = [messages EXCEPT ![j] = @ - 1]
  BY DEF Take
<1>4. messages' \in [Jobs -> Nat] /\ \A k \in Jobs \ {j} : messages'[k] = messages[k]
  BY <1>3
<1> HIDE DEF w
<1>5. QED
  BY <1>1, <1>2, <1>4 DEF OthersWork

LEMMA ReportedTyped ==
  ASSUME IInv, worker \in [Jobs -> Workers], NEW j \in Jobs, Report(j), status[j] # "none"
  PROVE  /\ worker' \in [Jobs -> Workers] /\ OthersWork(j)
         /\ worker'[j].at = "writing" /\ worker'[j].found = worker[j].found
         /\ worker'[j].outcome = worker[j].outcome
         /\ worker'[j].seen \in Reported(backend[j], worker[j].outcome)
<1>1. PICK s \in Reported(backend[j], worker[j].outcome) :
         worker' = [worker EXCEPT ![j].at = "writing", ![j].seen = s]
  BY DEF Report
<1>2. s \in Statuses
  BY DEF IInv, TypeOK, Reported, Statuses, READY
<1>3. [worker[j] EXCEPT !.at = "writing", !.seen = s] \in Workers
  BY <1>2 DEF Workers, WorkerSteps
<1>4. worker' = [worker EXCEPT ![j] = [worker[j] EXCEPT !.at = "writing", !.seen = s]]
  BY <1>1
<1>5. QED
  BY <1>3, <1>4 DEF Workers, OthersWork

LEMMA StoredTyped ==
  ASSUME IInv, NEW j \in Jobs, worker[j].at = "storing"
  PROVE  /\ ResultState(worker[j].outcome) \in READY \cup {"PENDING", "STARTED", "RETRY"}
         /\ ResultState(worker[j].outcome) = "SUCCESS" => worker[j].outcome = "success"
BY DEF IInv, OneJob, Reporting, Outcomes, ResultState, READY

LEMMA AbortedFacts ==
  ASSUME status \in [Jobs -> Statuses], whole \in [Jobs -> BOOLEAN], NEW j \in Jobs, AbortedCallback(j)
  PROVE  /\ status' \in [Jobs -> Statuses] /\ whole' \in [Jobs -> BOOLEAN]
         /\ \A k \in Jobs : status'[k] = status[k] \/ status'[k] = "ABORTED"
<1>1. PICK k \in Jobs : Update(k, "ABORTED")
  BY JobsOfTheChain DEF AbortedCallback
<1>2. QED
  BY <1>1, UpdateFacts DEF Statuses, READY

LEMMA SeenTyped ==
  ASSUME worker \in [Jobs -> Workers], NEW j \in Jobs
  PROVE  worker[j].seen \in Statuses
BY DEF Workers

LEMMA Bounds == MaxOps \in Nat /\ MaxRetries \in Nat /\ MaxCrashes \in Nat
OBVIOUS

LEMMA OthersKeep ==
  ASSUME IInv, NEW k \in Jobs, submission' = submission, removed' = removed,
         worker'[k] = worker[k], backend'[k] = backend[k], succeeded'[k] = succeeded[k],
         messages[k] > 0 => messages'[k] > 0,
         \/ status'[k] \in {status[k], "ABORTED"}
         \/ /\ status[k] = "none" /\ status'[k] = "PENDING"
            /\ k = First => messages'[k] > 0
  PROVE  OneJob(k)'
BY DEF IInv, OneJob, Known, Ran, Noticed, Reporting, Attended, READY

LEMMA CrashTyped ==
  ASSUME IInv, NEW j \in Jobs, Crash(j)
  PROVE  crashes' \in 0..MaxCrashes
<1>1. crashes \in 0..MaxCrashes
  BY DEF IInv, TypeOK
<1>2. QED
  BY <1>1, Bounds DEF Crash

----------------------------------------------------------------------------
\* The worker writes STARTED.
LEMMA StartKeeps ==
  ASSUME IInv, NEW j \in Jobs, Start(j)
  PROVE  IInv'
<1>1. /\ status \in [Jobs -> Statuses] /\ whole \in [Jobs -> BOOLEAN]
      /\ worker \in [Jobs -> Workers] /\ messages \in [Jobs -> Nat]
      /\ backend \in [Jobs -> READY \cup {"PENDING", "STARTED", "RETRY"}] /\ succeeded \in [Jobs -> BOOLEAN]
  BY DEF IInv, TypeOK, Workers
<1>2. submission = "sent"
  <2>1. messages[j] # 0 \/ worker[j].at # "idle"
    BY DEF Start
  <2>2. QED
    BY <2>1, NoWorkerTyped DEF IInv, Submitted
<1>3. /\ worker[j].at = "starting"
      /\ worker' \in [Jobs -> Workers] /\ OthersWork(j)
      /\ worker'[j].at = "tracking" /\ worker'[j].found = worker[j].found
      /\ worker'[j].outcome = worker[j].outcome /\ worker'[j].seen = worker[j].seen
      /\ status' \in [Jobs -> Statuses] /\ whole' \in [Jobs -> BOOLEAN]
      /\ status'[j] = "STARTED" /\ \A k \in Jobs \ {j} : status'[k] = status[k]
      /\ UNCHANGED <<backend, messages, retries, succeeded, crashes, submission, client, ops, removed>>
  BY <1>1, <1>2, GotoFacts, UpdateFacts, JobsOfTheChain DEF Start, recordVars, workerVars, clientVars, WorkerSteps, Statuses
<1>4. TypeOK'
  BY <1>1, <1>2, <1>3, Bounds DEF IInv, TypeOK, Workers
<1>5. Submitted'
  BY <1>2, <1>3 DEF IInv, Submitted
<1>6. ASSUME NEW k \in Jobs \ {j} PROVE OneJob(k)'
  BY <1>1, <1>2, <1>3, OthersKeep DEF OthersWork
<1>7. Known(j)' /\ Ran(j)' /\ Noticed(j)'
  <2>1. Known(j)'
    BY <1>1, <1>2, <1>3, NoWorkerTyped DEF IInv, OneJob, Known, Reporting
  <2>2. Ran(j)'
    BY <1>1, <1>2, <1>3, NoWorkerTyped DEF IInv, OneJob, Ran, Known, Reporting
  <2>3. Noticed(j)'
    BY <1>1, <1>2, <1>3, NoWorkerTyped DEF IInv, OneJob, Noticed, Known, Reporting
  <2> QED
    BY <2>1, <2>2, <2>3
<1>8. Reporting(j)'
  BY <1>1, <1>2, <1>3, NoWorkerTyped DEF IInv, OneJob, Reporting, READY, Outcomes
<1>9. Attended(j)'
  BY <1>1, <1>2, <1>3, NoWorkerTyped DEF IInv, OneJob, Reporting, Attended, Writing, READY
<1>10. QED
  BY <1>4, <1>5, <1>6, <1>7, <1>8, <1>9 DEF IInv, OneJob

\* Celery notes that the job was started.
LEMMA TrackKeeps ==
  ASSUME IInv, NEW j \in Jobs, Track(j)
  PROVE  IInv'
<1>1. /\ status \in [Jobs -> Statuses] /\ whole \in [Jobs -> BOOLEAN]
      /\ worker \in [Jobs -> Workers] /\ messages \in [Jobs -> Nat]
      /\ backend \in [Jobs -> READY \cup {"PENDING", "STARTED", "RETRY"}] /\ succeeded \in [Jobs -> BOOLEAN]
  BY DEF IInv, TypeOK, Workers
<1>2. submission = "sent"
  <2>1. messages[j] # 0 \/ worker[j].at # "idle"
    BY DEF Track
  <2>2. QED
    BY <2>1, NoWorkerTyped DEF IInv, Submitted
<1>3. /\ worker[j].at = "tracking"
      /\ worker' \in [Jobs -> Workers] /\ OthersWork(j)
      /\ worker'[j].at = "calling" /\ worker'[j].found = worker[j].found
      /\ worker'[j].outcome = worker[j].outcome /\ worker'[j].seen = worker[j].seen
      /\ backend' = [backend EXCEPT ![j] = "STARTED"]
      /\ UNCHANGED <<status, whole, messages, retries, succeeded, crashes, submission, client, ops, removed>>
  BY <1>1, <1>2, GotoFacts, JobsOfTheChain DEF Track, recordVars, workerVars, clientVars, WorkerSteps
<1>4. TypeOK'
  BY <1>1, <1>2, <1>3, Bounds DEF IInv, TypeOK, Workers, Outcomes
<1>5. Submitted'
  BY <1>2, <1>3 DEF IInv, Submitted
<1>6. ASSUME NEW k \in Jobs \ {j} PROVE OneJob(k)'
  BY <1>1, <1>2, <1>3, OthersKeep DEF OthersWork
<1>7. Known(j)' /\ Ran(j)' /\ Noticed(j)'
  <2>1. Known(j)'
    BY <1>1, <1>2, <1>3, NoWorkerTyped DEF IInv, OneJob, Known, Reporting
  <2>2. Ran(j)'
    BY <1>1, <1>2, <1>3, NoWorkerTyped DEF IInv, OneJob, Ran, Known, Reporting
  <2>3. Noticed(j)'
    BY <1>1, <1>2, <1>3, NoWorkerTyped DEF IInv, OneJob, Noticed, Known, Reporting
  <2> QED
    BY <2>1, <2>2, <2>3
<1>8. Reporting(j)'
  BY <1>1, <1>2, <1>3, NoWorkerTyped DEF IInv, OneJob, Reporting, READY, Outcomes
<1>9. Attended(j)'
  BY <1>1, <1>2, <1>3, NoWorkerTyped DEF IInv, OneJob, Reporting, Attended, Writing, READY
<1>10. QED
  BY <1>4, <1>5, <1>6, <1>7, <1>8, <1>9 DEF IInv, OneJob

\* The body succeeds, and the next job gets its message.
LEMMA SucceedKeeps ==
  ASSUME IInv, NEW j \in Jobs, Succeed(j)
  PROVE  IInv'
<1>1. /\ status \in [Jobs -> Statuses] /\ whole \in [Jobs -> BOOLEAN]
      /\ worker \in [Jobs -> Workers] /\ messages \in [Jobs -> Nat]
      /\ backend \in [Jobs -> READY \cup {"PENDING", "STARTED", "RETRY"}] /\ succeeded \in [Jobs -> BOOLEAN]
  BY DEF IInv, TypeOK, Workers
<1>2. submission = "sent"
  <2>1. messages[j] # 0 \/ worker[j].at # "idle"
    BY DEF Succeed
  <2>2. QED
    BY <2>1, NoWorkerTyped DEF IInv, Submitted
<1>3. /\ worker[j].at = "running"
      /\ worker' \in [Jobs -> Workers] /\ OthersWork(j)
      /\ worker'[j].at = "storing" /\ worker'[j].found = worker[j].found
      /\ worker'[j].outcome = "success" /\ worker'[j].seen = worker[j].seen
      /\ status' \in [Jobs -> Statuses] /\ whole' \in [Jobs -> BOOLEAN]
      /\ messages' \in [Jobs -> Nat] /\ \A k \in Jobs : messages[k] > 0 => messages'[k] > 0
      /\ \A k \in Jobs : \/ status'[k] = status[k]
                         \/ /\ status[k] = "none" /\ status'[k] = "PENDING"
                            /\ k = First => messages'[k] > 0
      /\ succeeded' = [succeeded EXCEPT ![j] = TRUE]
      /\ UNCHANGED <<backend, retries, crashes, submission, client, ops, removed>>
  <2>1. /\ worker[j].at = "running" /\ Ended(j, "success")
        /\ succeeded' = [succeeded EXCEPT ![j] = TRUE]
        /\ UNCHANGED <<backend, retries, crashes, submission, client, ops, removed>>
    BY DEF Succeed, workerVars, clientVars
  <2>2. CASE UNCHANGED <<recordVars, messages>>
    BY <1>1, <2>1, <2>2, EndedFacts DEF recordVars, Outcomes
  <2>3. CASE \E k \in Callbacks(j) : SaveJobRecord(k) /\ Publish(k)
    <3>1. PICK k \in Jobs : SaveJobRecord(k) /\ Publish(k)
      BY <2>3, JobsOfTheChain
    <3>2. QED
      BY <1>1, <2>1, <3>1, EndedFacts, SaveFacts, PublishFacts DEF Outcomes
  <2>4. QED
    BY <2>2, <2>3 DEF Succeed
<1>4. TypeOK'
  BY <1>1, <1>2, <1>3, Bounds DEF IInv, TypeOK, Workers, Outcomes
<1>5. Submitted'
  BY <1>2, <1>3 DEF IInv, Submitted
<1>6. ASSUME NEW k \in Jobs \ {j} PROVE OneJob(k)'
  BY <1>1, <1>2, <1>3, OthersKeep DEF OthersWork
<1>7. Known(j)' /\ Ran(j)' /\ Noticed(j)'
  <2>1. Known(j)'
    BY <1>1, <1>2, <1>3, NoWorkerTyped DEF IInv, OneJob, Known, Reporting
  <2>2. Ran(j)'
    BY <1>1, <1>2, <1>3, NoWorkerTyped DEF IInv, OneJob, Ran, Known, Reporting
  <2>3. Noticed(j)'
    BY <1>1, <1>2, <1>3, NoWorkerTyped DEF IInv, OneJob, Noticed, Known, Reporting
  <2> QED
    BY <2>1, <2>2, <2>3
<1>8. Reporting(j)'
  BY <1>1, <1>2, <1>3, NoWorkerTyped DEF IInv, OneJob, Reporting, READY, Outcomes
<1>9. Attended(j)'
  BY <1>1, <1>2, <1>3, NoWorkerTyped DEF IInv, OneJob, Reporting, Attended, Writing, READY
<1>10. QED
  BY <1>4, <1>5, <1>6, <1>7, <1>8, <1>9 DEF IInv, OneJob

\* The message of a job is taken, and its status read.
LEMMA TakeKeeps ==
  ASSUME IInv, NEW j \in Jobs, Take(j)
  PROVE  IInv'
<1>1. /\ status \in [Jobs -> Statuses] /\ whole \in [Jobs -> BOOLEAN]
      /\ worker \in [Jobs -> Workers] /\ messages \in [Jobs -> Nat]
      /\ backend \in [Jobs -> READY \cup {"PENDING", "STARTED", "RETRY"}] /\ succeeded \in [Jobs -> BOOLEAN]
  BY DEF IInv, TypeOK, Workers
<1>2. submission = "sent"
  <2>1. messages[j] # 0 \/ worker[j].at # "idle"
    BY DEF Take
  <2>2. QED
    BY <2>1, NoWorkerTyped DEF IInv, Submitted
<1>3. /\ worker[j].at = "idle" /\ messages[j] > 0
      /\ worker' \in [Jobs -> Workers] /\ OthersWork(j)
      /\ worker'[j].found = status[j] /\ worker'[j].outcome = "none" /\ worker'[j].seen = "none"
      /\ worker'[j].at = IF MayStart(status[j]) THEN "starting" ELSE "tracking"
      /\ messages' \in [Jobs -> Nat] /\ \A k \in Jobs \ {j} : messages'[k] = messages[k]
      /\ UNCHANGED <<status, whole, backend, retries, succeeded, crashes, submission, client, ops, removed>>
  BY <1>1, <1>2, TakenTyped, JobsOfTheChain DEF Take, recordVars, workerVars, clientVars
<1>4. TypeOK'
  BY <1>1, <1>2, <1>3, Bounds DEF IInv, TypeOK, Workers
<1>5. Submitted'
  BY <1>2, <1>3 DEF IInv, Submitted
<1>6. ASSUME NEW k \in Jobs \ {j} PROVE OneJob(k)'
  BY <1>1, <1>2, <1>3, OthersKeep DEF OthersWork
<1>7. Known(j)' /\ Ran(j)' /\ Noticed(j)'
  BY <1>1, <1>2, <1>3, NoWorkerTyped DEF IInv, OneJob, Known, Ran, Noticed, Reporting, MayStart, READY
<1>8. Reporting(j)'
  BY <1>1, <1>2, <1>3, NoWorkerTyped DEF IInv, OneJob, Reporting, READY, Outcomes, MayStart, READY
<1>9. Attended(j)'
  BY <1>1, <1>2, <1>3, NoWorkerTyped DEF IInv, OneJob, Reporting, Attended, Writing, READY, MayStart, READY
<1>10. QED
  BY <1>4, <1>5, <1>6, <1>7, <1>8, <1>9 DEF IInv, OneJob

\* The body is called, unless the job was aborted or deleted.
LEMMA CallKeeps ==
  ASSUME IInv, NEW j \in Jobs, Call(j)
  PROVE  IInv'
<1>1. /\ status \in [Jobs -> Statuses] /\ whole \in [Jobs -> BOOLEAN]
      /\ worker \in [Jobs -> Workers] /\ messages \in [Jobs -> Nat]
      /\ backend \in [Jobs -> READY \cup {"PENDING", "STARTED", "RETRY"}] /\ succeeded \in [Jobs -> BOOLEAN]
  BY DEF IInv, TypeOK, Workers
<1>2. submission = "sent"
  <2>1. messages[j] # 0 \/ worker[j].at # "idle"
    BY DEF Call
  <2>2. QED
    BY <2>1, NoWorkerTyped DEF IInv, Submitted
<1>3. /\ worker[j].at = "calling"
      /\ worker' \in [Jobs -> Workers] /\ OthersWork(j)
      /\ \/ /\ worker'[j].at = "running" /\ worker'[j].found = worker[j].found
            /\ worker'[j].outcome = worker[j].outcome /\ worker'[j].seen = worker[j].seen
            /\ ~IsIgnored(status[j])
         \/ /\ worker'[j].at = "acknowledging" /\ worker'[j].found = "none"
            /\ worker'[j].outcome = "none" /\ worker'[j].seen = "none"
            /\ IsIgnored(status[j])
      /\ UNCHANGED <<status, whole, backend, messages, retries, succeeded, crashes, submission, client, ops, removed>>
  BY <1>1, <1>2, GotoFacts, FinishFacts, JobsOfTheChain DEF Call, recordVars, workerVars, clientVars, WorkerSteps
<1>4. TypeOK'
  BY <1>1, <1>2, <1>3, Bounds DEF IInv, TypeOK, Workers
<1>5. Submitted'
  BY <1>2, <1>3 DEF IInv, Submitted
<1>6. ASSUME NEW k \in Jobs \ {j} PROVE OneJob(k)'
  BY <1>1, <1>2, <1>3, OthersKeep DEF OthersWork
<1>7. Known(j)' /\ Ran(j)' /\ Noticed(j)'
  BY <1>1, <1>2, <1>3, NoWorkerTyped DEF IInv, OneJob, Known, Ran, Noticed, Reporting, IsIgnored
<1>8. Reporting(j)'
  BY <1>1, <1>2, <1>3, NoWorkerTyped DEF IInv, OneJob, Reporting, READY, Outcomes, IsIgnored
<1>9. Attended(j)'
  BY <1>1, <1>2, <1>3, NoWorkerTyped DEF IInv, OneJob, Reporting, Attended, Writing, READY, IsIgnored
<1>10. QED
  BY <1>4, <1>5, <1>6, <1>7, <1>8, <1>9 DEF IInv, OneJob

\* The body raises.
LEMMA FailKeeps ==
  ASSUME IInv, NEW j \in Jobs, Fail(j)
  PROVE  IInv'
<1>1. /\ status \in [Jobs -> Statuses] /\ whole \in [Jobs -> BOOLEAN]
      /\ worker \in [Jobs -> Workers] /\ messages \in [Jobs -> Nat]
      /\ backend \in [Jobs -> READY \cup {"PENDING", "STARTED", "RETRY"}] /\ succeeded \in [Jobs -> BOOLEAN]
  BY DEF IInv, TypeOK, Workers
<1>2. submission = "sent"
  <2>1. messages[j] # 0 \/ worker[j].at # "idle"
    BY DEF Fail
  <2>2. QED
    BY <2>1, NoWorkerTyped DEF IInv, Submitted
<1>3. /\ worker[j].at = "running"
      /\ worker' \in [Jobs -> Workers] /\ OthersWork(j)
      /\ worker'[j].at = "storing" /\ worker'[j].found = worker[j].found
      /\ worker'[j].outcome = "error" /\ worker'[j].seen = worker[j].seen
      /\ UNCHANGED <<status, whole, backend, messages, retries, succeeded, crashes, submission, client, ops, removed>>
  BY <1>1, <1>2, EndedFacts, JobsOfTheChain DEF Fail, recordVars, workerVars, clientVars, Outcomes
<1>4. TypeOK'
  BY <1>1, <1>2, <1>3, Bounds DEF IInv, TypeOK, Workers
<1>5. Submitted'
  BY <1>2, <1>3 DEF IInv, Submitted
<1>6. ASSUME NEW k \in Jobs \ {j} PROVE OneJob(k)'
  BY <1>1, <1>2, <1>3, OthersKeep DEF OthersWork
<1>7. Known(j)' /\ Ran(j)' /\ Noticed(j)'
  <2>1. Known(j)'
    BY <1>1, <1>2, <1>3, NoWorkerTyped DEF IInv, OneJob, Known, Reporting
  <2>2. Ran(j)'
    BY <1>1, <1>2, <1>3, NoWorkerTyped DEF IInv, OneJob, Ran, Known, Reporting
  <2>3. Noticed(j)'
    BY <1>1, <1>2, <1>3, NoWorkerTyped DEF IInv, OneJob, Noticed, Known, Reporting
  <2> QED
    BY <2>1, <2>2, <2>3
<1>8. Reporting(j)'
  BY <1>1, <1>2, <1>3, NoWorkerTyped DEF IInv, OneJob, Reporting, READY, Outcomes
<1>9. Attended(j)'
  BY <1>1, <1>2, <1>3, NoWorkerTyped DEF IInv, OneJob, Reporting, Attended, Writing, READY
<1>10. QED
  BY <1>4, <1>5, <1>6, <1>7, <1>8, <1>9 DEF IInv, OneJob

\* The body conflicts, and the job gets another message.
LEMMA ConflictKeeps ==
  ASSUME IInv, NEW j \in Jobs, Conflict(j)
  PROVE  IInv'
<1>1. /\ status \in [Jobs -> Statuses] /\ whole \in [Jobs -> BOOLEAN]
      /\ worker \in [Jobs -> Workers] /\ messages \in [Jobs -> Nat]
      /\ backend \in [Jobs -> READY \cup {"PENDING", "STARTED", "RETRY"}] /\ succeeded \in [Jobs -> BOOLEAN]
  BY DEF IInv, TypeOK, Workers
<1>2. submission = "sent"
  <2>1. messages[j] # 0 \/ worker[j].at # "idle"
    BY DEF Conflict
  <2>2. QED
    BY <2>1, NoWorkerTyped DEF IInv, Submitted
<1>3. /\ worker[j].at = "running"
      /\ worker' \in [Jobs -> Workers] /\ OthersWork(j)
      /\ worker'[j].at = "storing" /\ worker'[j].found = worker[j].found
      /\ worker'[j].outcome = "conflict" /\ worker'[j].seen = worker[j].seen
      /\ status' \in [Jobs -> Statuses] /\ whole' \in [Jobs -> BOOLEAN]
      /\ messages' \in [Jobs -> Nat] /\ \A k \in Jobs : messages[k] > 0 => messages'[k] > 0
      /\ messages'[j] > 0
      /\ \A k \in Jobs : \/ status'[k] = status[k]
                         \/ /\ status[k] = "none" /\ status'[k] = "PENDING"
                            /\ k = First => messages'[k] > 0
      /\ retries' = [retries EXCEPT ![j] = @ + 1] /\ retries[j] < MaxRetries
      /\ UNCHANGED <<backend, succeeded, crashes, submission, client, ops, removed>>
  BY <1>1, <1>2, EndedFacts, SaveFacts, PublishFacts, JobsOfTheChain DEF Conflict, recordVars, workerVars, clientVars, Outcomes
<1>4. TypeOK'
  <2>1. retries \in [Jobs -> 0..MaxRetries]
    BY DEF IInv, TypeOK
  <2>2. retries[j] + 1 \in 0..MaxRetries
    BY <1>3, <2>1, Bounds
  <2>3. retries' \in [Jobs -> 0..MaxRetries]
    BY <1>3, <2>1, <2>2
  <2> QED
    BY <1>1, <1>2, <1>3, <2>3 DEF IInv, TypeOK, Workers
<1>5. Submitted'
  BY <1>2, <1>3 DEF IInv, Submitted
<1>6. ASSUME NEW k \in Jobs \ {j} PROVE OneJob(k)'
  BY <1>1, <1>2, <1>3, OthersKeep DEF OthersWork
<1>7. Known(j)' /\ Ran(j)' /\ Noticed(j)'
  <2>1. Known(j)'
    BY <1>1, <1>2, <1>3, NoWorkerTyped DEF IInv, OneJob, Known, Reporting
  <2>2. Ran(j)'
    BY <1>1, <1>2, <1>3, NoWorkerTyped DEF IInv, OneJob, Ran, Known, Reporting
  <2>3. Noticed(j)'
    BY <1>1, <1>2, <1>3, NoWorkerTyped DEF IInv, OneJob, Noticed, Known, Reporting
  <2> QED
    BY <2>1, <2>2, <2>3
<1>8. Reporting(j)'
  BY <1>1, <1>2, <1>3, NoWorkerTyped DEF IInv, OneJob, Reporting, READY, Outcomes
<1>9. Attended(j)'
  BY <1>1, <1>2, <1>3, NoWorkerTyped DEF IInv, OneJob, Reporting, Attended, Writing, READY
<1>10. QED
  BY <1>4, <1>5, <1>6, <1>7, <1>8, <1>9 DEF IInv, OneJob

\* The abort reaches the body.
LEMMA InterruptKeeps ==
  ASSUME IInv, NEW j \in Jobs, Interrupt(j)
  PROVE  IInv'
<1>1. /\ status \in [Jobs -> Statuses] /\ whole \in [Jobs -> BOOLEAN]
      /\ worker \in [Jobs -> Workers] /\ messages \in [Jobs -> Nat]
      /\ backend \in [Jobs -> READY \cup {"PENDING", "STARTED", "RETRY"}] /\ succeeded \in [Jobs -> BOOLEAN]
  BY DEF IInv, TypeOK, Workers
<1>2. submission = "sent"
  <2>1. messages[j] # 0 \/ worker[j].at # "idle"
    BY DEF Interrupt
  <2>2. QED
    BY <2>1, NoWorkerTyped DEF IInv, Submitted
<1>3. /\ worker[j].at = "running"
      /\ worker' \in [Jobs -> Workers] /\ OthersWork(j)
      /\ worker'[j].at = "storing" /\ worker'[j].found = worker[j].found
      /\ worker'[j].outcome = "aborted" /\ worker'[j].seen = worker[j].seen
      /\ UNCHANGED <<status, whole, backend, messages, retries, succeeded, crashes, submission, client, ops, removed>>
  BY <1>1, <1>2, EndedFacts, JobsOfTheChain DEF Interrupt, recordVars, workerVars, clientVars, Outcomes
<1>4. TypeOK'
  BY <1>1, <1>2, <1>3, Bounds DEF IInv, TypeOK, Workers
<1>5. Submitted'
  BY <1>2, <1>3 DEF IInv, Submitted
<1>6. ASSUME NEW k \in Jobs \ {j} PROVE OneJob(k)'
  BY <1>1, <1>2, <1>3, OthersKeep DEF OthersWork
<1>7. Known(j)' /\ Ran(j)' /\ Noticed(j)'
  <2>1. Known(j)'
    BY <1>1, <1>2, <1>3, NoWorkerTyped DEF IInv, OneJob, Known, Reporting
  <2>2. Ran(j)'
    BY <1>1, <1>2, <1>3, NoWorkerTyped DEF IInv, OneJob, Ran, Known, Reporting
  <2>3. Noticed(j)'
    BY <1>1, <1>2, <1>3, NoWorkerTyped DEF IInv, OneJob, Noticed, Known, Reporting
  <2> QED
    BY <2>1, <2>2, <2>3
<1>8. Reporting(j)'
  BY <1>1, <1>2, <1>3, NoWorkerTyped DEF IInv, OneJob, Reporting, READY, Outcomes
<1>9. Attended(j)'
  BY <1>1, <1>2, <1>3, NoWorkerTyped DEF IInv, OneJob, Reporting, Attended, Writing, READY
<1>10. QED
  BY <1>4, <1>5, <1>6, <1>7, <1>8, <1>9 DEF IInv, OneJob

\* Celery stores what the body came to.
LEMMA StoreKeeps ==
  ASSUME IInv, NEW j \in Jobs, Store(j)
  PROVE  IInv'
<1>1. /\ status \in [Jobs -> Statuses] /\ whole \in [Jobs -> BOOLEAN]
      /\ worker \in [Jobs -> Workers] /\ messages \in [Jobs -> Nat]
      /\ backend \in [Jobs -> READY \cup {"PENDING", "STARTED", "RETRY"}] /\ succeeded \in [Jobs -> BOOLEAN]
  BY DEF IInv, TypeOK, Workers
<1>2. submission = "sent"
  <2>1. messages[j] # 0 \/ worker[j].at # "idle"
    BY DEF Store
  <2>2. QED
    BY <2>1, NoWorkerTyped DEF IInv, Submitted
<1>3. /\ worker[j].at = "storing"
      /\ worker' \in [Jobs -> Workers] /\ OthersWork(j)
      /\ worker'[j].at = "reporting" /\ worker'[j].found = worker[j].found
      /\ worker'[j].outcome = worker[j].outcome /\ worker'[j].seen = worker[j].seen
      /\ backend' = [backend EXCEPT ![j] = ResultState(worker[j].outcome)]
      /\ backend' \in [Jobs -> READY \cup {"PENDING", "STARTED", "RETRY"}]
      /\ backend'[j] = "SUCCESS" => worker[j].outcome = "success"
      /\ UNCHANGED <<status, whole, messages, retries, succeeded, crashes, submission, client, ops, removed>>
  BY <1>1, <1>2, GotoFacts, StoredTyped, JobsOfTheChain DEF Store, recordVars, workerVars, clientVars, WorkerSteps
<1>4. TypeOK'
  BY <1>1, <1>2, <1>3, Bounds DEF IInv, TypeOK, Workers
<1>5. Submitted'
  BY <1>2, <1>3 DEF IInv, Submitted
<1>6. ASSUME NEW k \in Jobs \ {j} PROVE OneJob(k)'
  BY <1>1, <1>2, <1>3, OthersKeep DEF OthersWork
<1>7. Known(j)' /\ Ran(j)' /\ Noticed(j)'
  <2>1. Known(j)
    BY DEF IInv, OneJob
  <2>2. Ran(j)
    BY DEF IInv, OneJob
  <2>3. Noticed(j)
    BY DEF IInv, OneJob
  <2>4. Known(j)'
    BY <1>3, <2>1 DEF Known
  <2>5. Ran(j)'
    BY <1>3, <2>2 DEF Ran
  <2>6. Noticed(j)'
    BY <1>3, <2>3 DEF Noticed
  <2>7. QED
    BY <2>4, <2>5, <2>6
<1>8. Reporting(j)'
  BY <1>1, <1>2, <1>3, NoWorkerTyped DEF IInv, OneJob, Reporting, READY, Outcomes
<1>9. Attended(j)'
  BY <1>1, <1>2, <1>3, NoWorkerTyped DEF IInv, OneJob, Reporting, Attended, Writing, READY
<1>10. QED
  BY <1>4, <1>5, <1>6, <1>7, <1>8, <1>9 DEF IInv, OneJob

\* The handler reads what Celery stored.
LEMMA ReportKeeps ==
  ASSUME IInv, NEW j \in Jobs, Report(j)
  PROVE  IInv'
<1>1. /\ status \in [Jobs -> Statuses] /\ whole \in [Jobs -> BOOLEAN]
      /\ worker \in [Jobs -> Workers] /\ messages \in [Jobs -> Nat]
      /\ backend \in [Jobs -> READY \cup {"PENDING", "STARTED", "RETRY"}] /\ succeeded \in [Jobs -> BOOLEAN]
  BY DEF IInv, TypeOK, Workers
<1>2. submission = "sent"
  <2>1. messages[j] # 0 \/ worker[j].at # "idle"
    BY DEF Report
  <2>2. QED
    BY <2>1, NoWorkerTyped DEF IInv, Submitted
<1>3. /\ worker[j].at = "reporting"
      /\ worker' \in [Jobs -> Workers] /\ OthersWork(j)
      /\ \/ /\ worker'[j].at = "acknowledging" /\ worker'[j].found = "none"
            /\ worker'[j].outcome = "none" /\ worker'[j].seen = "none" /\ status[j] = "none"
         \/ /\ worker'[j].at = "writing" /\ worker'[j].found = worker[j].found
            /\ worker'[j].outcome = worker[j].outcome
            /\ worker'[j].seen \in Reported(backend[j], worker[j].outcome)
      /\ UNCHANGED <<status, whole, backend, messages, retries, succeeded, crashes, submission, client, ops, removed>>
  BY <1>1, <1>2, ReportedTyped, FinishFacts, JobsOfTheChain DEF Report, recordVars, workerVars, clientVars
<1>4. TypeOK'
  BY <1>1, <1>2, <1>3, Bounds DEF IInv, TypeOK, Workers
<1>5. Submitted'
  BY <1>2, <1>3 DEF IInv, Submitted
<1>6. ASSUME NEW k \in Jobs \ {j} PROVE OneJob(k)'
  BY <1>1, <1>2, <1>3, OthersKeep DEF OthersWork
<1>7. Known(j)' /\ Ran(j)' /\ Noticed(j)'
  BY <1>1, <1>2, <1>3, NoWorkerTyped DEF IInv, OneJob, Known, Ran, Noticed, Reporting, Reported, ResultState, Outcomes
<1>8. Reporting(j)'
  BY <1>1, <1>2, <1>3, NoWorkerTyped DEF IInv, OneJob, Reporting, READY, Outcomes, Reported, ResultState, Outcomes
<1>9. Attended(j)'
  BY <1>1, <1>2, <1>3, NoWorkerTyped DEF IInv, OneJob, Reporting, Attended, Writing, READY, Reported, ResultState, Outcomes
<1>10. QED
  BY <1>4, <1>5, <1>6, <1>7, <1>8, <1>9 DEF IInv, OneJob

\* The handler writes it.
LEMMA WriteKeeps ==
  ASSUME IInv, NEW j \in Jobs, Write(j)
  PROVE  IInv'
<1>1. /\ status \in [Jobs -> Statuses] /\ whole \in [Jobs -> BOOLEAN]
      /\ worker \in [Jobs -> Workers] /\ messages \in [Jobs -> Nat]
      /\ backend \in [Jobs -> READY \cup {"PENDING", "STARTED", "RETRY"}] /\ succeeded \in [Jobs -> BOOLEAN]
  BY DEF IInv, TypeOK, Workers
<1>2. submission = "sent"
  <2>1. messages[j] # 0 \/ worker[j].at # "idle"
    BY DEF Write
  <2>2. QED
    BY <2>1, NoWorkerTyped DEF IInv, Submitted
<1>3. /\ worker[j].at = "writing"
      /\ worker' \in [Jobs -> Workers] /\ OthersWork(j)
      /\ \/ /\ worker'[j].at = "chaining" /\ worker'[j].found = worker[j].found
            /\ worker'[j].outcome = worker[j].outcome /\ worker'[j].seen = worker[j].seen
         \/ /\ worker'[j].at = "acknowledging" /\ worker'[j].found = "none"
            /\ worker'[j].outcome = "none" /\ worker'[j].seen = "none"
      /\ status' \in [Jobs -> Statuses] /\ whole' \in [Jobs -> BOOLEAN]
      /\ status'[j] = worker[j].seen /\ \A k \in Jobs \ {j} : status'[k] = status[k]
      /\ UNCHANGED <<backend, messages, retries, succeeded, crashes, submission, client, ops, removed>>
  <2>1. /\ worker[j].at = "writing"
        /\ UNCHANGED <<backend, messages, retries, succeeded, crashes, submission, client, ops, removed>>
    BY DEF Write, clientVars
  <2>2. /\ status' \in [Jobs -> Statuses] /\ whole' \in [Jobs -> BOOLEAN]
        /\ status'[j] = worker[j].seen /\ \A k \in Jobs \ {j} : status'[k] = status[k]
    BY <1>1, SeenTyped, UpdateFacts DEF Write
  <2>3. CASE Goto(j, "chaining")
    <3>1. "chaining" \in WorkerSteps
      BY DEF WorkerSteps
    <3>2. QED
      BY <1>1, <2>1, <2>2, <2>3, <3>1, GotoFacts
  <2>4. CASE Finish(j)
    BY <1>1, <2>1, <2>2, <2>4, FinishFacts
  <2>5. QED
    BY <2>3, <2>4 DEF Write
<1>4. TypeOK'
  BY <1>1, <1>2, <1>3, Bounds DEF IInv, TypeOK, Workers
<1>5. Submitted'
  BY <1>2, <1>3 DEF IInv, Submitted
<1>6. ASSUME NEW k \in Jobs \ {j} PROVE OneJob(k)'
  BY <1>1, <1>2, <1>3, OthersKeep DEF OthersWork
<1>7. Known(j)' /\ Ran(j)' /\ Noticed(j)'
  <2>1. Known(j)'
    BY <1>1, <1>2, <1>3, NoWorkerTyped DEF IInv, OneJob, Known, Reporting, READY
  <2>2. Ran(j)'
    BY <1>1, <1>2, <1>3, NoWorkerTyped DEF IInv, OneJob, Ran, Known, Reporting, READY
  <2>3. Noticed(j)'
    BY <1>1, <1>2, <1>3, NoWorkerTyped DEF IInv, OneJob, Noticed, Known, Reporting, READY
  <2> QED
    BY <2>1, <2>2, <2>3
<1>8. Reporting(j)'
  BY <1>1, <1>2, <1>3, NoWorkerTyped DEF IInv, OneJob, Reporting, READY, Outcomes, READY
<1>9. Attended(j)'
  BY <1>1, <1>2, <1>3, NoWorkerTyped DEF IInv, OneJob, Reporting, Attended, Writing, READY, READY
<1>10. QED
  BY <1>4, <1>5, <1>6, <1>7, <1>8, <1>9 DEF IInv, OneJob

\* After a failure the next job is looked up ...
LEMMA AbortCallbackKeeps ==
  ASSUME IInv, NEW j \in Jobs, AbortCallback(j)
  PROVE  IInv'
<1>1. /\ status \in [Jobs -> Statuses] /\ whole \in [Jobs -> BOOLEAN]
      /\ worker \in [Jobs -> Workers] /\ messages \in [Jobs -> Nat]
      /\ backend \in [Jobs -> READY \cup {"PENDING", "STARTED", "RETRY"}] /\ succeeded \in [Jobs -> BOOLEAN]
  BY DEF IInv, TypeOK, Workers
<1>2. submission = "sent"
  <2>1. messages[j] # 0 \/ worker[j].at # "idle"
    BY DEF AbortCallback
  <2>2. QED
    BY <2>1, NoWorkerTyped DEF IInv, Submitted
<1>3. /\ worker[j].at = "chaining"
      /\ worker' \in [Jobs -> Workers] /\ OthersWork(j)
      /\ \/ /\ worker'[j].at = "aborting callback" /\ worker'[j].found = worker[j].found
            /\ worker'[j].outcome = worker[j].outcome /\ worker'[j].seen = worker[j].seen
         \/ /\ worker'[j].at = "acknowledging" /\ worker'[j].found = "none"
            /\ worker'[j].outcome = "none" /\ worker'[j].seen = "none"
      /\ UNCHANGED <<status, whole, backend, messages, retries, succeeded, crashes, submission, client, ops, removed>>
  BY <1>1, <1>2, GotoFacts, FinishFacts, JobsOfTheChain DEF AbortCallback, recordVars, workerVars, clientVars, WorkerSteps
<1>4. TypeOK'
  BY <1>1, <1>2, <1>3, Bounds DEF IInv, TypeOK, Workers
<1>5. Submitted'
  BY <1>2, <1>3 DEF IInv, Submitted
<1>6. ASSUME NEW k \in Jobs \ {j} PROVE OneJob(k)'
  BY <1>1, <1>2, <1>3, OthersKeep DEF OthersWork
<1>7. Known(j)' /\ Ran(j)' /\ Noticed(j)'
  <2>1. Known(j)'
    BY <1>1, <1>2, <1>3, NoWorkerTyped DEF IInv, OneJob, Known, Reporting
  <2>2. Ran(j)'
    BY <1>1, <1>2, <1>3, NoWorkerTyped DEF IInv, OneJob, Ran, Known, Reporting
  <2>3. Noticed(j)'
    BY <1>1, <1>2, <1>3, NoWorkerTyped DEF IInv, OneJob, Noticed, Known, Reporting
  <2> QED
    BY <2>1, <2>2, <2>3
<1>8. Reporting(j)'
  BY <1>1, <1>2, <1>3, NoWorkerTyped DEF IInv, OneJob, Reporting, READY, Outcomes
<1>9. Attended(j)'
  BY <1>1, <1>2, <1>3, NoWorkerTyped DEF IInv, OneJob, Reporting, Attended, Writing, READY
<1>10. QED
  BY <1>4, <1>5, <1>6, <1>7, <1>8, <1>9 DEF IInv, OneJob

\* ... and aborted.
LEMMA AbortedCallbackKeeps ==
  ASSUME IInv, NEW j \in Jobs, AbortedCallback(j)
  PROVE  IInv'
<1>1. /\ status \in [Jobs -> Statuses] /\ whole \in [Jobs -> BOOLEAN]
      /\ worker \in [Jobs -> Workers] /\ messages \in [Jobs -> Nat]
      /\ backend \in [Jobs -> READY \cup {"PENDING", "STARTED", "RETRY"}] /\ succeeded \in [Jobs -> BOOLEAN]
  BY DEF IInv, TypeOK, Workers
<1>2. submission = "sent"
  <2>1. messages[j] # 0 \/ worker[j].at # "idle"
    BY DEF AbortedCallback
  <2>2. QED
    BY <2>1, NoWorkerTyped DEF IInv, Submitted
<1>3. /\ worker[j].at = "aborting callback"
      /\ worker' \in [Jobs -> Workers] /\ OthersWork(j)
      /\ worker'[j].at = "acknowledging" /\ worker'[j].found = "none"
      /\ worker'[j].outcome = "none" /\ worker'[j].seen = "none"
      /\ status' \in [Jobs -> Statuses] /\ whole' \in [Jobs -> BOOLEAN]
      /\ \A k \in Jobs : status'[k] = status[k] \/ status'[k] = "ABORTED"
      /\ UNCHANGED <<backend, messages, retries, succeeded, crashes, submission, client, ops, removed>>
  BY <1>1, <1>2, FinishFacts, AbortedFacts, JobsOfTheChain DEF AbortedCallback, recordVars, workerVars, clientVars
<1>4. TypeOK'
  BY <1>1, <1>2, <1>3, Bounds DEF IInv, TypeOK, Workers
<1>5. Submitted'
  BY <1>2, <1>3 DEF IInv, Submitted
<1>6. ASSUME NEW k \in Jobs \ {j} PROVE OneJob(k)'
  BY <1>1, <1>2, <1>3, OthersKeep DEF OthersWork
<1>7. Known(j)' /\ Ran(j)' /\ Noticed(j)'
  <2>1. Known(j)'
    BY <1>1, <1>2, <1>3, NoWorkerTyped DEF IInv, OneJob, Known, Reporting, READY
  <2>2. Ran(j)'
    BY <1>1, <1>2, <1>3, NoWorkerTyped DEF IInv, OneJob, Ran, Known, Reporting, READY
  <2>3. Noticed(j)'
    BY <1>1, <1>2, <1>3, NoWorkerTyped DEF IInv, OneJob, Noticed, Known, Reporting, READY
  <2> QED
    BY <2>1, <2>2, <2>3
<1>8. Reporting(j)'
  BY <1>1, <1>2, <1>3, NoWorkerTyped DEF IInv, OneJob, Reporting, READY, Outcomes, READY
<1>9. Attended(j)'
  BY <1>1, <1>2, <1>3, NoWorkerTyped DEF IInv, OneJob, Reporting, Attended, Writing, READY, READY
<1>10. QED
  BY <1>4, <1>5, <1>6, <1>7, <1>8, <1>9 DEF IInv, OneJob

\* The message is acknowledged.
LEMMA AcknowledgeKeeps ==
  ASSUME IInv, NEW j \in Jobs, Acknowledge(j)
  PROVE  IInv'
<1>1. /\ status \in [Jobs -> Statuses] /\ whole \in [Jobs -> BOOLEAN]
      /\ worker \in [Jobs -> Workers] /\ messages \in [Jobs -> Nat]
      /\ backend \in [Jobs -> READY \cup {"PENDING", "STARTED", "RETRY"}] /\ succeeded \in [Jobs -> BOOLEAN]
  BY DEF IInv, TypeOK, Workers
<1>2. submission = "sent"
  <2>1. messages[j] # 0 \/ worker[j].at # "idle"
    BY DEF Acknowledge
  <2>2. QED
    BY <2>1, NoWorkerTyped DEF IInv, Submitted
<1>3. /\ worker[j].at = "acknowledging"
      /\ worker' \in [Jobs -> Workers] /\ OthersWork(j)
      /\ worker'[j] = NoWorker
      /\ UNCHANGED <<status, whole, backend, messages, retries, succeeded, crashes, submission, client, ops, removed>>
  BY <1>1, <1>2, LeaveFacts, JobsOfTheChain DEF Acknowledge, recordVars, workerVars, clientVars
<1>4. TypeOK'
  BY <1>1, <1>2, <1>3, Bounds DEF IInv, TypeOK, Workers
<1>5. Submitted'
  BY <1>2, <1>3 DEF IInv, Submitted
<1>6. ASSUME NEW k \in Jobs \ {j} PROVE OneJob(k)'
  BY <1>1, <1>2, <1>3, OthersKeep DEF OthersWork
<1>7. Known(j)' /\ Ran(j)' /\ Noticed(j)'
  <2>1. Known(j)'
    BY <1>1, <1>2, <1>3, NoWorkerTyped DEF IInv, OneJob, Known, Reporting
  <2>2. Ran(j)'
    BY <1>1, <1>2, <1>3, NoWorkerTyped DEF IInv, OneJob, Ran, Known, Reporting
  <2>3. Noticed(j)'
    BY <1>1, <1>2, <1>3, NoWorkerTyped DEF IInv, OneJob, Noticed, Known, Reporting
  <2> QED
    BY <2>1, <2>2, <2>3
<1>8. Reporting(j)'
  BY <1>1, <1>2, <1>3, NoWorkerTyped DEF IInv, OneJob, Reporting, READY, Outcomes
<1>9. Attended(j)'
  BY <1>1, <1>2, <1>3, NoWorkerTyped DEF IInv, OneJob, Reporting, Attended, Writing, READY
<1>10. QED
  BY <1>4, <1>5, <1>6, <1>7, <1>8, <1>9 DEF IInv, OneJob

\* The worker dies, and the message comes back.
LEMMA CrashKeeps ==
  ASSUME IInv, NEW j \in Jobs, Crash(j)
  PROVE  IInv'
<1>1. /\ status \in [Jobs -> Statuses] /\ whole \in [Jobs -> BOOLEAN]
      /\ worker \in [Jobs -> Workers] /\ messages \in [Jobs -> Nat]
      /\ backend \in [Jobs -> READY \cup {"PENDING", "STARTED", "RETRY"}] /\ succeeded \in [Jobs -> BOOLEAN]
  BY DEF IInv, TypeOK, Workers
<1>2. submission = "sent"
  <2>1. messages[j] # 0 \/ worker[j].at # "idle"
    BY DEF Crash
  <2>2. QED
    BY <2>1, NoWorkerTyped DEF IInv, Submitted
<1>3. /\ worker[j].at # "idle"
      /\ worker' \in [Jobs -> Workers] /\ OthersWork(j)
      /\ worker'[j] = NoWorker
      /\ messages' \in [Jobs -> Nat] /\ \A k \in Jobs : messages[k] > 0 => messages'[k] > 0
      /\ messages'[j] > 0
      /\ crashes' \in 0..MaxCrashes
      /\ UNCHANGED <<status, whole, backend, retries, succeeded, submission, client, ops, removed>>
  BY <1>1, <1>2, CrashTyped, LeaveFacts, PublishFacts, JobsOfTheChain DEF Crash, recordVars, workerVars, clientVars
<1>4. TypeOK'
  BY <1>1, <1>2, <1>3, Bounds DEF IInv, TypeOK, Workers
<1>5. Submitted'
  BY <1>2, <1>3 DEF IInv, Submitted
<1>6. ASSUME NEW k \in Jobs \ {j} PROVE OneJob(k)'
  BY <1>1, <1>2, <1>3, OthersKeep DEF OthersWork
<1>7. Known(j)' /\ Ran(j)' /\ Noticed(j)'
  <2>1. Known(j)'
    BY <1>1, <1>2, <1>3, NoWorkerTyped DEF IInv, OneJob, Known, Reporting
  <2>2. Ran(j)'
    BY <1>1, <1>2, <1>3, NoWorkerTyped DEF IInv, OneJob, Ran, Known, Reporting
  <2>3. Noticed(j)'
    BY <1>1, <1>2, <1>3, NoWorkerTyped DEF IInv, OneJob, Noticed, Known, Reporting
  <2> QED
    BY <2>1, <2>2, <2>3
<1>8. Reporting(j)'
  BY <1>1, <1>2, <1>3, NoWorkerTyped DEF IInv, OneJob, Reporting, READY, Outcomes
<1>9. Attended(j)'
  BY <1>1, <1>2, <1>3, NoWorkerTyped DEF IInv, OneJob, Reporting, Attended, Writing, READY
<1>10. QED
  BY <1>4, <1>5, <1>6, <1>7, <1>8, <1>9 DEF IInv, OneJob

----------------------------------------------------------------------------
(***************************************************************************)
(* The submitter and the users.                                            *)
(***************************************************************************)

\* Nothing was done yet
LEMMA InitIInv == Init => IInv
<1> SUFFICES ASSUME Init PROVE IInv
  OBVIOUS
<1>1. TypeOK
  <2>1. worker \in [Jobs -> Workers] /\ 0 \in 0..MaxRetries /\ 0 \in 0..MaxOps /\ 0 \in 0..MaxCrashes
    BY NoWorkerTyped, Bounds DEF Init
  <2>2. client \in [Clients -> [at : ClientSteps, op : {"none", "abort", "delete"}, job : Jobs]]
    BY JobsOfTheChain DEF Init, NoRequest, ClientSteps
  <2>3. QED
    BY <2>1, <2>2 DEF Init, TypeOK, Workers, Statuses, READY
<1>2. Submitted
  BY DEF Init, Submitted, NoRequest
<1>3. \A j \in Jobs : OneJob(j)
  BY NoWorkerTyped DEF Init, OneJob, Known, Ran, Noticed, Reporting, Attended
<1>4. QED
  BY <1>1, <1>2, <1>3 DEF IInv

\* Before the jobs are sent, only the status of a job changes.
LEMMA NobodyWorks ==
  ASSUME IInv, submission # "sent", NEW j \in Jobs, submission' # "sent",
         status'[j] # "SUCCESS", UNCHANGED <<backend, messages, worker, succeeded, removed>>
  PROVE  OneJob(j)'
<1>1. worker[j] = NoWorker
  BY DEF IInv, Submitted
<1>2. QED
  BY <1>1, NoWorkerTyped DEF IInv, OneJob, Known, Ran, Noticed, Reporting, Attended

LEMMA SubmitKeeps ==
  ASSUME IInv, Stage \/ Rollback \/ Commit
  PROVE  IInv'
<1> USE DEF Stage, Rollback, Commit, workerVars, clientVars
<1>1. /\ submission # "sent" /\ submission' \in {"staged", "rolled back", "committed"}
      /\ UNCHANGED <<backend, messages, worker, retries, crashes, succeeded, client, ops, removed>>
  OBVIOUS
<1>2. status' \in [Jobs -> Statuses] /\ whole' \in [Jobs -> BOOLEAN] /\ \A j \in Jobs : status'[j] # "SUCCESS"
  <2>1. \E new \in {"STAGED", "none", "PENDING"} : status' = [j \in Jobs |-> new]
    OBVIOUS
  <2>2. whole \in [Jobs -> BOOLEAN]
    BY DEF IInv, TypeOK
  <2>3. whole' \in [Jobs -> BOOLEAN]
    BY <2>2
  <2>4. QED
    BY <2>1, <2>3 DEF Statuses
<1>3. TypeOK'
  BY <1>1, <1>2 DEF IInv, TypeOK
<1>4. Submitted'
  BY <1>1 DEF IInv, Submitted
<1>5. \A j \in Jobs : OneJob(j)'
  BY <1>1, <1>2, NobodyWorks
<1>6. QED
  BY <1>3, <1>4, <1>5 DEF IInv

\* The jobs are sent: the first has a message, and the others wait.
LEMMA SendKeeps ==
  ASSUME IInv, Send
  PROVE  IInv'
<1> USE DEF Send, workerVars, clientVars
<1>1. /\ submission = "committed" /\ submission' = "sent"
      /\ UNCHANGED <<backend, worker, retries, crashes, succeeded, client, ops, removed>>
  OBVIOUS
<1>2. /\ status \in [Jobs -> Statuses] /\ whole \in [Jobs -> BOOLEAN] /\ messages \in [Jobs -> Nat]
      /\ \A j \in Jobs : status[j] \in {"none", "PENDING", "ABORTED"} /\ worker[j] = NoWorker
  BY <1>1 DEF IInv, TypeOK, Submitted
<1>3. /\ status' \in [Jobs -> Statuses] /\ whole' \in [Jobs -> BOOLEAN]
      /\ \A j \in Jobs : status'[j] = status[j] \/ status'[j] = "PENDING"
  BY <1>2, JobsOfTheChain, SaveFacts
<1>4. messages' \in [Jobs -> Nat] /\ messages'[First] > 0
  BY <1>2, JobsOfTheChain, PublishFacts
<1>5. TypeOK'
  BY <1>1, <1>3, <1>4 DEF IInv, TypeOK
<1>6. Submitted'
  BY <1>1 DEF IInv, Submitted
<1>7. ASSUME NEW j \in Jobs PROVE OneJob(j)'
  <2>1. status'[j] \in {"none", "PENDING", "ABORTED"} /\ (status'[j] = "PENDING" /\ j = First => messages'[j] > 0)
    BY <1>2, <1>3, <1>4
  <2>2. QED
    BY <1>1, <1>2, <2>1, NoWorkerTyped DEF IInv, OneJob, Known, Ran, Noticed, Reporting, Attended, READY
<1>8. QED
  BY <1>5, <1>6, <1>7 DEF IInv

\* A request of a user begins.
LEMMA RequestKeeps ==
  ASSUME IInv, NEW c \in Clients, NEW j \in Jobs, Abort(c, j) \/ Delete(c, j)
  PROVE  IInv'
<1> USE DEF recordVars, workerVars
<1>1. /\ status[j] \notin {"none", "STAGED"}
      /\ \E op \in {"abort", "delete"}, step \in ClientSteps :
           client' = [client EXCEPT ![c] = [at |-> step, op |-> op, job |-> j]]
      /\ ops < MaxOps /\ ops' = ops + 1
      /\ UNCHANGED <<status, whole, backend, messages, submission, worker, retries, crashes, succeeded, removed>>
  BY DEF Abort, Delete, Request, ClientSteps
<1>2. ops' \in 0..MaxOps
  <2>1. ops \in 0..MaxOps
    BY DEF IInv, TypeOK
  <2>2. QED
    BY <1>1, <2>1, Bounds
<1>3. client' \in [Clients -> [at : ClientSteps, op : {"none", "abort", "delete"}, job : Jobs]]
  <2>1. client \in [Clients -> [at : ClientSteps, op : {"none", "abort", "delete"}, job : Jobs]]
    BY DEF IInv, TypeOK
  <2>2. QED
    BY <1>1, <2>1
<1>4. TypeOK'
  BY <1>1, <1>2, <1>3 DEF IInv, TypeOK
<1>5. submission \in {"committed", "sent"}
  BY <1>1 DEF IInv, TypeOK, Submitted
<1>6. Submitted'
  BY <1>1, <1>5 DEF IInv, Submitted
<1>7. ASSUME NEW k \in Jobs PROVE OneJob(k)'
  BY <1>1, OthersKeep
<1>8. QED
  BY <1>4, <1>6, <1>7 DEF IInv

\* It goes on.  A record can be made ABORTED, or be removed, at any time.
LEMMA ServeKeeps ==
  ASSUME IInv, NEW c \in Clients, Serve(c)
  PROVE  IInv'
<1> USE DEF recordVars, workerVars
<1>1. /\ client[c].at # "idle" /\ client[c].job \in Jobs /\ \E step \in ClientSteps : Proceed(c, step)
      /\ UNCHANGED <<messages, submission, worker, retries, crashes, succeeded, ops>>
  BY DEF Serve, AbortRecord, AbortBackend, Remove, ClientSteps, IInv, TypeOK
<1>2. submission \in {"committed", "sent"}
  BY <1>1 DEF IInv, Submitted
<1>3. client' \in [Clients -> [at : ClientSteps, op : {"none", "abort", "delete"}, job : Jobs]]
  <2>1. NoRequest \in [at : ClientSteps, op : {"none", "abort", "delete"}, job : Jobs]
    BY JobsOfTheChain DEF NoRequest, ClientSteps
  <2>2. client[c] \in [at : ClientSteps, op : {"none", "abort", "delete"}, job : Jobs]
    BY DEF IInv, TypeOK
  <2>3. \A step \in ClientSteps : [client[c] EXCEPT !.at = step] \in
                                     [at : ClientSteps, op : {"none", "abort", "delete"}, job : Jobs]
    BY <2>2
  <2>4. QED
    <3>1. client \in [Clients -> [at : ClientSteps, op : {"none", "abort", "delete"}, job : Jobs]]
      BY DEF IInv, TypeOK
    <3>2. PICK step \in ClientSteps : Proceed(c, step)
      BY <1>1
    <3>3. client' = [client EXCEPT ![c] = [client[c] EXCEPT !.at = step]] \/ client' = [client EXCEPT ![c] = NoRequest]
      BY <3>2 DEF Proceed
    <3>4. QED
      BY <2>1, <2>3, <3>1, <3>3
<1>4. /\ status' \in [Jobs -> Statuses] /\ whole' \in [Jobs -> BOOLEAN]
      /\ backend' \in [Jobs -> READY \cup {"PENDING", "STARTED", "RETRY"}]
      /\ removed' \in [Jobs -> BOOLEAN] /\ \A j \in Jobs : removed[j] => removed'[j]
      /\ \A j \in Jobs : status'[j] \in {status[j], "ABORTED"} \/ (status'[j] = "none" /\ removed'[j])
      /\ \A j \in Jobs : backend'[j] \in {backend[j], "ABORTED"}
  <2>1. status \in [Jobs -> Statuses] /\ whole \in [Jobs -> BOOLEAN] /\ removed \in [Jobs -> BOOLEAN]
        /\ backend \in [Jobs -> READY \cup {"PENDING", "STARTED", "RETRY"}]
    BY DEF IInv, TypeOK
  <2>2. CASE AbortRecord(c)
    <3>1. Update(client[c].job, "ABORTED") /\ UNCHANGED <<backend, removed>>
      BY <2>2 DEF AbortRecord
    <3>2. "ABORTED" \in Statuses
      BY DEF Statuses, READY
    <3>3. QED
      BY <1>1, <2>1, <3>1, <3>2, UpdateFacts
  <2>3. CASE AbortBackend(c)
    BY <1>1, <2>1, <2>3 DEF AbortBackend, READY
  <2>4. CASE Remove(c)
    BY <1>1, <2>1, <2>4 DEF Remove, Statuses
  <2>5. QED
    BY <2>2, <2>3, <2>4 DEF Serve
<1>5. TypeOK'
  BY <1>1, <1>3, <1>4 DEF IInv, TypeOK
<1>6. Submitted'
  <2>1. submission = "committed" => \A j \in Jobs : status'[j] \in {"none", "PENDING", "ABORTED"}
    BY <1>4 DEF IInv, Submitted
  <2>2. QED
    BY <1>1, <1>2, <2>1 DEF IInv, Submitted
<1>7. ASSUME NEW j \in Jobs PROVE OneJob(j)'
  BY <1>1, <1>4, <1>7 DEF IInv, OneJob, Known, Ran, Noticed, Reporting, Attended, READY
<1>8. QED
  BY <1>5, <1>6, <1>7 DEF IInv

LEMMA StutterKeeps ==
  ASSUME IInv, UNCHANGED vars
  PROVE  IInv'
<1> USE DEF vars, recordVars, workerVars, clientVars
<1>1. TypeOK' /\ Submitted'
  BY DEF IInv, TypeOK, Submitted
<1>2. \A j \in Jobs : OneJob(j)'
  BY OthersKeep
<1>3. QED
  BY <1>1, <1>2 DEF IInv

LEMMA NextKeeps == IInv /\ [Next]_vars => IInv'
<1> SUFFICES ASSUME IInv, [Next]_vars PROVE IInv'
  OBVIOUS
<1>1. ASSUME NEW j \in Jobs, Work(j) PROVE IInv'
  BY <1>1, TakeKeeps, StartKeeps, TrackKeeps, CallKeeps, SucceedKeeps, FailKeeps, ConflictKeeps,
     InterruptKeeps, StoreKeeps, ReportKeeps, WriteKeeps, AbortCallbackKeeps, AbortedCallbackKeeps,
     AcknowledgeKeeps DEF Work
<1>2. ASSUME NEW j \in Jobs, Crash(j) PROVE IInv'
  BY <1>2, CrashKeeps
<1>3. ASSUME NEW c \in Clients, Serve(c) PROVE IInv'
  BY <1>3, ServeKeeps
<1>4. ASSUME NEW c \in Clients, NEW j \in Jobs, Abort(c, j) \/ Delete(c, j) PROVE IInv'
  BY <1>4, RequestKeeps
<1>5. CASE Stage \/ Rollback \/ Commit
  BY <1>5, SubmitKeeps
<1>6. CASE Send
  BY <1>6, SendKeeps
<1>7. QED
  BY <1>1, <1>2, <1>3, <1>4, <1>5, <1>6, StutterKeeps DEF Next

LEMMA Invariance == Spec => []IInv
BY InitIInv, NextKeeps, PTL DEF Spec

----------------------------------------------------------------------------
\* Records, messages, workers and requests keep their types, and a job is retried
\* zodb-max-retries times at most.
THEOREM TypeCorrect == Spec => []TypeOK
<1>1. IInv => TypeOK
  BY DEF IInv
<1>2. QED
  BY <1>1, Invariance, PTL

\* What is shown as a success has run to its end (job_success, job_failure, job_retry).
THEOREM SuccessesAreTrue == Spec => []SuccessIsTrue
<1>1. IInv => SuccessIsTrue
  BY DEF IInv, OneJob, Ran, SuccessIsTrue
<1>2. QED
  BY <1>1, Invariance, PTL

\* The body of an aborted job is not run (Abortable.__call__).
THEOREM AbortedJobsDoNotRun == Spec => []AbortedNeverRuns
<1>1. IInv => AbortedNeverRuns
  BY DEF IInv, OneJob, Noticed, AbortedNeverRuns
<1>2. QED
  BY <1>1, Invariance, PTL

\* No record is left as STARTED or RETRY by a job nobody works on.
THEOREM NoRecordIsLeftBehind == Spec => []NoneLeftBehind
<1>1. IInv => NoneLeftBehind
  <2> SUFFICES ASSUME IInv, NEW j \in Jobs, AtRest(j), submission = "sent"
               PROVE  status[j] \in READY \cup {"none"} \/ (status[j] = "PENDING" /\ j # First)
    BY DEF NoneLeftBehind
  <2>1. ~(messages[j] > 0) /\ worker[j].at \notin Writing
    BY DEF AtRest, Writing
  <2>2. QED
    BY <2>1 DEF IInv, OneJob, Attended
<1>2. QED
  BY <1>1, Invariance, PTL
=============================================================================
