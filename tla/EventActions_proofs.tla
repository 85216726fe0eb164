------------------------- MODULE EventActions_proofs -------------------------
(***************************************************************************)
(* What holds of the event action manager however many actions are         *)
(* executed, in however many batches the server carries them out.          *)
(*                                                                         *)
(* All executions share the fields of the manager.  What keeps them apart  *)
(* is that an answer sets next_request before run reads it, and that the   *)
(* two happen in one callback: so a request belongs to the execution whose *)
(* answer it follows (Sound).  What becomes of an execution is told by its *)
(* one request (Accounted).                                                *)
(***************************************************************************)
EXTENDS EventActions, TLAPS

\* An execution has at most one request under way, which is the last it has sent;
\* the server does not speak of more batches than there are.
Sound == /\ TypeOK
         /\ InStep
         /\ \A r \in outstanding : /\ r.exec <= lastExec
                                   /\ r.answer = "more" => r.batch < MaxBatches
         /\ \A e \in Execs : e > lastExec => asked[e] = 0 /\ fate[e] = "running"

\* An execution that is still running has a request under way, and is not cancelled;
\* the last one is cancelled only while the manager knows of it.
Accounted == /\ \A e \in 1..lastExec : fate[e] = "running" => \E r \in outstanding : r.exec = e
             /\ cancelled => \A e \in 1..lastExec : fate[e] # "running"
             /\ \A e \in Execs : e = lastExec /\ fate[e] = "cancelled" => cancelled

IInv == Sound /\ Accounted /\ QuietIsFresh

----------------------------------------------------------------------------
\* The manager starts with nothing under way.
LEMMA InitSound == Init => IInv
<1> SUFFICES ASSUME Init PROVE IInv
  OBVIOUS
<1>1. TypeOK
  <2>1. lastExec \in 0..MaxExecs /\ asked \in [Execs -> 0..MaxBatches]
    BY EventActionsAssumption DEF Init
  <2>2. fate \in [Execs -> Fates]
    BY DEF Init, Fates
  <2>3. QED
    BY <2>1, <2>2 DEF Init, TypeOK, Selections
<1>2. Sound
  BY <1>1 DEF Init, Sound, InStep
<1>3. Accounted
  BY EventActionsAssumption DEF Init, Accounted, Execs
<1>4. QuietIsFresh
  BY DEF Init, QuietIsFresh
<1>5. QED
  BY <1>2, <1>3, <1>4 DEF IInv

\* A new execution has asked for nothing yet.
LEMMA ExecuteKeeps ==
  ASSUME IInv, NEW selection \in Selections, Execute(selection)
  PROVE  IInv'
<1> USE EventActionsAssumption
<1> USE DEF IInv, Sound, Execs
<1>1. CASE selection = "none"
  <2>1. UNCHANGED <<lastExec, asked, fate, outstanding, cancelled, waiting, threw, stale>>
    BY <1>1 DEF Execute, historyVars
  <2>2. TypeOK'
    BY <1>1 DEF Execute, TypeOK, historyVars
  <2>3. QED
    BY <2>1, <2>2 DEF InStep, Accounted, QuietIsFresh, Quiet
<1>2. CASE selection # "none"
  <2> DEFINE new == [exec |-> lastExec + 1, batch |-> 1, large |-> IsLarge(selection), answer |-> "no"]
  <2>1. /\ outstanding' = outstanding \cup {new}
        /\ asked' = [asked EXCEPT ![lastExec + 1] = @ + 1]
        /\ UNCHANGED <<fate, threw, stale>>
        /\ lastExec < MaxExecs /\ lastExec' = lastExec + 1
        /\ params' = selection /\ cancelled' = FALSE
        /\ nextRequest' = NoRequest /\ waiting' = FALSE
        /\ dialog' = (dialog \/ IsLarge(selection))
    BY <1>2 DEF Execute, Reset, StartAction, ToAsk, Sent, NoRequest
  <2>2. lastExec \in Nat /\ lastExec + 1 \in Execs /\ asked[lastExec + 1] = 0
        /\ asked'[lastExec + 1] = 1 /\ \A r \in outstanding : r.exec # lastExec + 1
    BY <2>1 DEF TypeOK
  <2>3. new.exec = lastExec + 1 /\ new.batch = 1 /\ new.answer = "no"
    OBVIOUS
  <2>4. /\ IsLarge(selection) \in BOOLEAN
        /\ new \in [exec : Execs, batch : 1..MaxBatches, large : BOOLEAN, answer : Answers]
    BY <2>2 DEF Answers, IsLarge
  <2> HIDE DEF new
  <2>10. TypeOK'
    <3>1. asked' \in [Execs -> 0..MaxBatches]
      BY <2>1, <2>2 DEF TypeOK
    <3>2. lastExec' \in 0..MaxExecs /\ params' \in Selections /\ dialog' \in BOOLEAN
      BY <2>1, <2>4 DEF TypeOK
    <3>3. outstanding' \subseteq [exec : Execs, batch : 1..MaxBatches, large : BOOLEAN, answer : Answers]
      BY <2>1, <2>4 DEF TypeOK
    <3>4. QED
      BY <2>1, <3>1, <3>2, <3>3 DEF TypeOK
  <2>5. InStep'
    BY <2>1, <2>2, <2>3 DEF TypeOK, InStep
  <2>6. Sound'
    BY <2>1, <2>2, <2>3, <2>5, <2>10 DEF TypeOK
  <2>7. Accounted'
    BY <2>1, <2>2, <2>3 DEF TypeOK, Accounted
  <2>8. QuietIsFresh'
    BY <2>1 DEF QuietIsFresh, Quiet
  <2>9. QED
    BY <2>6, <2>7, <2>8
<1>3. QED
  BY <1>1, <1>2

\* Cancel ends what is running.
LEMMA CancelKeeps ==
  ASSUME IInv, Cancel
  PROVE  IInv'
<1> USE EventActionsAssumption
<1> USE DEF IInv, Sound, Execs, Requests, NoRequest
<1>1. TypeOK'
  BY DEF TypeOK, InStep, Answers, Fates, Selections, Cancel, FinishAction, managerVars, historyVars
<1>2. InStep'
  BY <1>1 DEF TypeOK, InStep, Answers, Cancel, FinishAction, managerVars, historyVars
<1>3. Sound'
  BY <1>1, <1>2 DEF TypeOK, InStep, Answers, Cancel, FinishAction, managerVars, historyVars
<1>4. Accounted'
  <2>1. (\A e \in 1..lastExec : fate[e] = "running" => \E r \in outstanding : r.exec = e)'
    BY <1>1 DEF TypeOK, Accounted, Cancel, FinishAction, managerVars, historyVars
  <2>2. (cancelled => \A e \in 1..lastExec : fate[e] # "running")'
    BY <1>1 DEF TypeOK, Accounted, Cancel, FinishAction, managerVars, historyVars
  <2>3. (\A e \in Execs : e = lastExec /\ fate[e] = "cancelled" => cancelled)'
    BY <1>1 DEF TypeOK, Accounted, Cancel, FinishAction, managerVars, historyVars
  <2>4. QED
    BY <2>1, <2>2, <2>3 DEF Accounted
<1>5. QuietIsFresh'
  BY DEF QuietIsFresh, Quiet, Cancel, FinishAction, managerVars, historyVars
<1>6. QED
  BY <1>3, <1>4, <1>5

\* The server answers a request, and leaves its execution and batch.
LEMMA ServeKeeps ==
  ASSUME IInv, NEW r \in outstanding, Serve(r)
  PROVE  IInv'
<1> USE EventActionsAssumption
<1> USE DEF IInv, Sound, Execs
<1>1. PICK a \in Answers \ {"no"} :
         /\ a = "more" => r.batch < MaxBatches
         /\ outstanding' = (outstanding \ {r}) \cup {[r EXCEPT !.answer = a]}
         /\ stale' \in BOOLEAN
  BY DEF Serve, TypeOK
<1> DEFINE new == [r EXCEPT !.answer = a]
<1>2. new \in [exec : Execs, batch : 1..MaxBatches, large : BOOLEAN, answer : Answers]
      /\ new.exec = r.exec /\ new.batch = r.batch /\ new.answer = a
  BY DEF TypeOK
<1> HIDE DEF new
<1>3. outstanding' = (outstanding \ {r}) \cup {new}
  BY <1>1 DEF new
<1>4. TypeOK'
  BY <1>1, <1>2, <1>3 DEF Serve, TypeOK, managerVars, historyVars
<1>5. InStep'
  BY <1>2, <1>3 DEF Serve, InStep, managerVars, historyVars
<1>6. Sound'
  BY <1>1, <1>2, <1>3, <1>4, <1>5 DEF Serve, managerVars, historyVars
<1>7. Accounted'
  BY <1>2, <1>3 DEF Serve, Accounted, managerVars, historyVars
<1>8. QuietIsFresh'
  BY <1>3 DEF QuietIsFresh, Quiet
<1>9. QED
  BY <1>6, <1>7, <1>8

\* An error ends an execution and closes the dialog.
LEMMA AnswerFailedKeeps ==
  ASSUME IInv, NEW r \in outstanding, AnswerFailed(r)
  PROVE  IInv'
<1> USE EventActionsAssumption
<1> USE DEF IInv, Sound, Execs, Requests, NoRequest
<1>1. TypeOK'
  BY DEF TypeOK, InStep, Answers, Fates, Selections, AnswerFailed, FinishAction, Ends, managerVars, historyVars
<1>2. InStep'
  BY <1>1 DEF TypeOK, InStep, Answers, AnswerFailed, FinishAction, Ends, managerVars, historyVars
<1>3. Sound'
  BY <1>1, <1>2 DEF TypeOK, InStep, Answers, AnswerFailed, FinishAction, Ends, managerVars, historyVars
<1>4. Accounted'
  <2>1. (\A e \in 1..lastExec : fate[e] = "running" => \E q \in outstanding : q.exec = e)'
    <3>1. lastExec' = lastExec /\ outstanding' = outstanding \ {r}
      BY DEF AnswerFailed, FinishAction, Ends, managerVars, historyVars
    <3>2. \A e \in 1..lastExec : fate'[e] = "running" => fate[e] = "running" /\ e # r.exec
      BY DEF TypeOK, AnswerFailed, FinishAction, Ends, managerVars, historyVars
    <3>3. QED
      BY <3>1, <3>2 DEF Accounted
  <2>2. (cancelled => \A e \in 1..lastExec : fate[e] # "running")'
    BY <1>1 DEF TypeOK, Accounted, AnswerFailed, FinishAction, Ends, managerVars, historyVars
  <2>3. (\A e \in Execs : e = lastExec /\ fate[e] = "cancelled" => cancelled)'
    BY <1>1 DEF TypeOK, Accounted, AnswerFailed, FinishAction, Ends, managerVars, historyVars
  <2>4. QED
    BY <2>1, <2>2, <2>3 DEF Accounted
<1>5. QuietIsFresh'
  BY DEF QuietIsFresh, Quiet, AnswerFailed, FinishAction, Ends, managerVars, historyVars
<1>6. QED
  BY <1>3, <1>4, <1>5

\* A lost answer ends an execution.
LEMMA AnswerLostKeeps ==
  ASSUME IInv, NEW r \in outstanding, AnswerLost(r)
  PROVE  IInv'
<1> USE EventActionsAssumption
<1> USE DEF IInv, Sound, Execs, Requests, NoRequest
<1>1. TypeOK'
  BY DEF TypeOK, InStep, Answers, Fates, Selections, AnswerLost, Ends, managerVars, historyVars
<1>2. InStep'
  BY <1>1 DEF TypeOK, InStep, Answers, AnswerLost, Ends, managerVars, historyVars
<1>3. Sound'
  BY <1>1, <1>2 DEF TypeOK, InStep, Answers, AnswerLost, Ends, managerVars, historyVars
<1>4. Accounted'
  <2>1. (\A e \in 1..lastExec : fate[e] = "running" => \E q \in outstanding : q.exec = e)'
    <3>1. lastExec' = lastExec /\ outstanding' = outstanding \ {r}
      BY DEF AnswerLost, Ends, managerVars, historyVars
    <3>2. \A e \in 1..lastExec : fate'[e] = "running" => fate[e] = "running" /\ e # r.exec
      BY DEF TypeOK, AnswerLost, Ends, managerVars, historyVars
    <3>3. QED
      BY <3>1, <3>2 DEF Accounted
  <2>2. (cancelled => \A e \in 1..lastExec : fate[e] # "running")'
    BY <1>1 DEF TypeOK, Accounted, AnswerLost, Ends, managerVars, historyVars
  <2>3. (\A e \in Execs : e = lastExec /\ fate[e] = "cancelled" => cancelled)'
    BY <1>1 DEF TypeOK, Accounted, AnswerLost, Ends, managerVars, historyVars
  <2>4. QED
    BY <2>1, <2>2, <2>3 DEF Accounted
<1>5. QuietIsFresh'
  BY DEF QuietIsFresh, Quiet, AnswerLost, Ends, managerVars, historyVars
<1>6. QED
  BY <1>3, <1>4, <1>5

\* The next batch is asked for in the same step.
LEMMA AnswerIncompleteKeeps ==
  ASSUME IInv, NEW r \in outstanding, AnswerIncomplete(r)
  PROVE  IInv'
<1> USE EventActionsAssumption
<1> USE DEF IInv, Sound, Execs
<1>1. /\ r.answer = "more" /\ r.batch < MaxBatches /\ r.batch = asked[r.exec]
      /\ r.exec \in Execs /\ r.batch \in Nat /\ r.exec <= lastExec
      /\ nextRequest' = [exec |-> r.exec, batch |-> r.batch + 1]
      /\ UNCHANGED <<cancelled, params, dialog, waiting, stale, lastExec>>
  BY DEF AnswerIncomplete, TypeOK, InStep
<1>2. nextRequest' \in Requests /\ nextRequest' # NoRequest
  BY <1>1 DEF Requests, NoRequest
<1>3. CASE params # "none" /\ ~cancelled
  <2> DEFINE new == [exec |-> r.exec, batch |-> r.batch + 1, large |-> r.large, answer |-> "no"]
  <2>1. /\ outstanding' = (outstanding \ {r}) \cup {new}
        /\ asked' = [asked EXCEPT ![r.exec] = @ + 1]
        /\ UNCHANGED <<fate, threw>>
    BY <1>1, <1>2, <1>3 DEF AnswerIncomplete, Continues, ToAsk, Sent
  <2>2. new \in [exec : Execs, batch : 1..MaxBatches, large : BOOLEAN, answer : Answers]
        /\ new.exec = r.exec /\ new.batch = r.batch + 1 /\ new.answer = "no"
    BY <1>1 DEF TypeOK, Answers
  <2> HIDE DEF new
  <2>3. TypeOK'
    BY <1>1, <1>2, <2>1, <2>2 DEF TypeOK
  <2>4. InStep'
    BY <1>1, <2>1, <2>2 DEF TypeOK, InStep
  <2>5. Sound'
    BY <1>1, <2>1, <2>2, <2>3, <2>4 DEF TypeOK
  <2>6. Accounted'
    BY <1>1, <2>1, <2>2 DEF Accounted
  <2>7. QuietIsFresh'
    BY <2>1 DEF QuietIsFresh, Quiet
  <2>8. QED
    BY <2>5, <2>6, <2>7
<1>4. CASE params = "none" \/ cancelled
  <2>1. /\ outstanding' = outstanding \ {r}
        /\ asked' = asked
        /\ (fate' = fate /\ cancelled) \/ fate' = [fate EXCEPT ![r.exec] = IF @ = "running" THEN "failed" ELSE @]
        /\ threw' = TRUE \/ (cancelled /\ threw' = threw)
    BY <1>4 DEF AnswerIncomplete, Continues, Ends
  <2>2. TypeOK'
    <3>1. fate' \in [Execs -> Fates]
      BY <2>1 DEF TypeOK, Fates
    <3>2. asked' = asked /\ outstanding' \subseteq outstanding /\ threw' \in BOOLEAN
      BY <2>1 DEF TypeOK
    <3>3. QED
      BY <1>1, <1>2, <3>1, <3>2 DEF TypeOK
  <2>3. InStep' /\ Sound'
    BY <1>1, <2>1, <2>2 DEF TypeOK, InStep
  <2>4. Accounted'
    <3>1. CASE fate' = fate /\ cancelled
      BY <1>1, <2>1, <3>1 DEF Accounted
    <3>2. CASE fate' = [fate EXCEPT ![r.exec] = IF @ = "running" THEN "failed" ELSE @]
      BY <1>1, <2>1, <3>2 DEF Accounted, TypeOK
    <3>3. QED
      BY <2>1, <3>1, <3>2
  <2>5. QuietIsFresh'
    BY <1>1, <2>1 DEF QuietIsFresh, Quiet
  <2>6. QED
    BY <2>3, <2>4, <2>5
<1>5. QED
  BY <1>3, <1>4

\* The last batch ends an execution.
LEMMA AnswerCompleteKeeps ==
  ASSUME IInv, NEW r \in outstanding, AnswerComplete(r)
  PROVE  IInv'
<1> USE EventActionsAssumption
<1> USE DEF IInv, Sound, Execs, Requests, NoRequest
<1>1. TypeOK'
  BY DEF TypeOK, InStep, Answers, Fates, Selections, AnswerComplete, FinishAction, Ends, managerVars, historyVars
<1>2. InStep'
  BY <1>1 DEF TypeOK, InStep, Answers, AnswerComplete, FinishAction, Ends, managerVars, historyVars
<1>3. Sound'
  BY <1>1, <1>2 DEF TypeOK, InStep, Answers, AnswerComplete, FinishAction, Ends, managerVars, historyVars
<1>4. Accounted'
  <2>1. (\A e \in 1..lastExec : fate[e] = "running" => \E q \in outstanding : q.exec = e)'
    <3>1. lastExec' = lastExec /\ outstanding' = outstanding \ {r}
      BY DEF AnswerComplete, FinishAction, Ends, managerVars, historyVars
    <3>2. \A e \in 1..lastExec : fate'[e] = "running" => fate[e] = "running" /\ e # r.exec
      BY DEF TypeOK, AnswerComplete, FinishAction, Ends, managerVars, historyVars
    <3>3. QED
      BY <3>1, <3>2 DEF Accounted
  <2>2. (cancelled => \A e \in 1..lastExec : fate[e] # "running")'
    BY <1>1 DEF TypeOK, Accounted, AnswerComplete, FinishAction, Ends, managerVars, historyVars
  <2>3. (\A e \in Execs : e = lastExec /\ fate[e] = "cancelled" => cancelled)'
    BY <1>1 DEF TypeOK, Accounted, AnswerComplete, FinishAction, Ends, managerVars, historyVars
  <2>4. QED
    BY <2>1, <2>2, <2>3 DEF Accounted
<1>5. QuietIsFresh'
  BY DEF QuietIsFresh, Quiet, AnswerComplete, FinishAction, Ends, managerVars, historyVars
<1>6. QED
  BY <1>3, <1>4, <1>5

\* The wait ends with a fresh grid.
LEMMA WaitOverKeeps ==
  ASSUME IInv, WaitOver
  PROVE  IInv'
<1> USE EventActionsAssumption
<1> USE DEF IInv, Sound, Execs, Requests, NoRequest
<1>1. TypeOK'
  BY DEF TypeOK, InStep, Answers, Fates, Selections, WaitOver, FinishAction, managerVars, historyVars
<1>2. InStep'
  BY <1>1 DEF TypeOK, InStep, Answers, WaitOver, FinishAction, managerVars, historyVars
<1>3. Sound'
  BY <1>1, <1>2 DEF TypeOK, InStep, Answers, WaitOver, FinishAction, managerVars, historyVars
<1>4. Accounted'
  <2>1. (\A e \in 1..lastExec : fate[e] = "running" => \E r \in outstanding : r.exec = e)'
    BY <1>1 DEF TypeOK, Accounted, WaitOver, FinishAction, managerVars, historyVars
  <2>2. (cancelled => \A e \in 1..lastExec : fate[e] # "running")'
    BY <1>1 DEF TypeOK, Accounted, WaitOver, FinishAction, managerVars, historyVars
  <2>3. (\A e \in Execs : e = lastExec /\ fate[e] = "cancelled" => cancelled)'
    BY <1>1 DEF TypeOK, Accounted, WaitOver, FinishAction, managerVars, historyVars
  <2>4. QED
    BY <2>1, <2>2, <2>3 DEF Accounted
<1>5. QuietIsFresh'
  BY DEF QuietIsFresh, Quiet, WaitOver, FinishAction, managerVars, historyVars
<1>6. QED
  BY <1>3, <1>4, <1>5

----------------------------------------------------------------------------
LEMMA NextKeeps == IInv /\ [Next]_vars => IInv'
<1> SUFFICES ASSUME IInv, [Next]_vars PROVE IInv'
  OBVIOUS
<1>1. CASE \E selection \in Selections : Execute(selection)
  BY <1>1, ExecuteKeeps
<1>2. CASE Cancel
  BY <1>2, CancelKeeps
<1>3. CASE \E r \in outstanding : Serve(r)
  BY <1>3, ServeKeeps
<1>4. CASE \E r \in outstanding : Answer(r)
  BY <1>4, AnswerFailedKeeps, AnswerLostKeeps, AnswerIncompleteKeeps, AnswerCompleteKeeps DEF Answer
<1>5. CASE WaitOver
  BY <1>5, WaitOverKeeps
<1>6. CASE UNCHANGED vars
  BY <1>6 DEF IInv, Sound, Accounted, QuietIsFresh, Quiet, TypeOK, InStep, vars, managerVars, historyVars
<1>7. QED
  BY <1>1, <1>2, <1>3, <1>4, <1>5, <1>6 DEF Next

LEMMA Invariance == Spec => []IInv
BY InitSound, NextKeeps, PTL DEF Spec

\* Every field of the manager, and every request, keeps its type; no execution sends
\* more requests than the server makes batches.
THEOREM TypeCorrect == Spec => []TypeOK
<1>1. IInv => TypeOK
  BY DEF IInv, Sound
<1>2. QED
  BY <1>1, Invariance, PTL

\* Executions that overlap do not take each other's batches (run, requestCallback).
THEOREM ExecutionsStayInStep == Spec => []InStep
<1>1. IInv => InStep
  BY DEF IInv, Sound
<1>2. QED
  BY <1>1, Invariance, PTL

\* What is not cancelled is carried through, however executions overlap.
THEOREM ExecutionsAreCarriedThrough == Spec => []CarriedThrough
<1>1. IInv => CarriedThrough
  BY DEF IInv, Accounted, CarriedThrough, Quiet
<1>2. QED
  BY <1>1, Invariance, PTL

\* The grid is refreshed after the last answer (finishAction).
THEOREM GridIsFresh == Spec => []QuietIsFresh
<1>1. IInv => QuietIsFresh
  BY DEF IInv
<1>2. QED
  BY <1>1, Invariance, PTL

\* What was cancelled asks for nothing more, unless another action is executed.
THEOREM CancelStands == Spec => CancelHolds
<1> DEFINE Held == \A e \in Execs : (fate[e] = "cancelled" /\ asked'[e] # asked[e]) => e < lastExec
<1>1. IInv /\ [Next]_vars => [Held]_vars
  <2> SUFFICES ASSUME IInv, Next, NEW e \in Execs, fate[e] = "cancelled", asked'[e] # asked[e]
               PROVE  e < lastExec
    OBVIOUS
  <2> USE DEF IInv, Sound, Accounted
  <2>1. CASE \E selection \in Selections : Execute(selection)
    <3>1. asked' = [asked EXCEPT ![lastExec + 1] = @ + 1]
      BY <2>1 DEF Execute, Reset, ToAsk, NoRequest, historyVars
    <3>2. e = lastExec + 1
      BY <3>1 DEF TypeOK
    <3>3. QED
      BY <3>2 DEF TypeOK, Execs
  <2>2. CASE \E r \in outstanding : AnswerIncomplete(r)
    <3>1. PICK r \in outstanding : AnswerIncomplete(r)
      BY <2>2
    <3>2. r.exec \in Execs /\ r.batch \in Nat /\ r.exec <= lastExec
      BY DEF TypeOK, Execs
    <3>3. asked' = [asked EXCEPT ![r.exec] = @ + 1] /\ ~cancelled
      BY <3>1, <3>2 DEF AnswerIncomplete, Continues, ToAsk, NoRequest, Execs
    <3>4. e = r.exec
      BY <3>3 DEF TypeOK
    <3>5. QED
      BY <3>2, <3>3, <3>4 DEF TypeOK, Execs
  <2>3. asked' = asked \/ (\E selection \in Selections : Execute(selection))
                       \/ (\E r \in outstanding : AnswerIncomplete(r))
    BY DEF Next, Answer, Cancel, Serve, WaitOver, AnswerFailed, AnswerLost, AnswerComplete, historyVars
  <2>4. QED
    BY <2>1, <2>2, <2>3
<1>2. QED
  BY <1>1, Invariance, PTL DEF Spec, CancelHolds
=============================================================================
