---------------------------- MODULE EventActions ----------------------------
(***************************************************************************)
(* The event action manager of the event console (EventActionManager in    *)
(* Products/ZenUI3/browser/resources/js/zenoss/zenoss.js): the user        *)
(* acknowledges, closes or reopens the selected events, and the browser    *)
(* asks the server for it batch by batch.                                  *)
(*                                                                         *)
(* There is one manager for a page.  What it knows of the action under way *)
(* is in its fields, which every answer reads and writes, whichever        *)
(* execution of an action it belongs to.  Requests travel and are answered *)
(* independently of each other.  A large action shows a modal dialog with  *)
(* a Cancel button; a small one shows nothing, so the next one may be      *)
(* executed while it is under way.                                         *)
(*                                                                         *)
(* Left out: the action itself (it is read in the step that sets it), the  *)
(* progress shown, the text of messages, and eventsUpdated, which only an  *)
(* onFinishAction of another page reads.                                   *)
(***************************************************************************)
EXTENDS Naturals, FiniteSets

CONSTANTS MaxExecs,    \* bound: executions of actions
          MaxBatches   \* bound: batches the server makes of a large action

ASSUME EventActionsAssumption == /\ MaxExecs \in Nat \ {0}
                                 /\ MaxBatches \in Nat \ {0}

VARIABLES cancelled,    \* Cancel was pressed since the last execution started
          nextRequest,  \* next_request: what to ask next, or NoRequest
          params,       \* what was selected when an action was executed last
          dialog,       \* the dialog is visible
          waiting,      \* the progress bar waits before it reports completion
          outstanding,  \* requests that were sent and whose answer was not handled
          stale,        \* the server changed events since the grid was refreshed
          lastExec,     \* the execution started last
          asked,        \* history: how many requests each execution has sent
          fate,         \* history: what became of each execution
          threw         \* history: an answer ended in an exception

managerVars == <<cancelled, nextRequest, params, dialog, waiting>>
historyVars == <<lastExec, asked, fate, threw>>
vars == <<managerVars, historyVars, outstanding, stale>>

Execs == 1..MaxExecs

NoRequest == [exec |-> 0, batch |-> 0]

\* Nothing is selected; at most 100 events are; more are, or all that match a filter
Selections == {"none", "few", "many"}

Requests == [exec : Execs, batch : 1..MaxBatches]

\* "no": not answered; the events of the batch are changed and there are more, or
\* not; no data came back; no result at all came back (a failed transport)
Answers == {"no", "more", "last", "error", "exception"}

Fates == {"running", "finished", "cancelled", "failed"}

Init == /\ cancelled = FALSE
        /\ nextRequest = NoRequest
        /\ params = "none"
        /\ dialog = FALSE
        /\ waiting = FALSE
        /\ outstanding = {}
        /\ stale = FALSE
        /\ lastExec = 0
        /\ asked = [e \in Execs |-> 0]
        /\ fate = [e \in Execs |-> "running"]
        /\ threw = FALSE

\* isLargeRequest
IsLarge(selection) == selection = "many"

\* run: the first request of the action, or what next_request says
ToAsk(next, exec) == IF next = NoRequest THEN [exec |-> exec, batch |-> 1] ELSE next

\* The requests under way once run has sent r, which belongs to a selection of this size
Sent(requests, r, large) ==
    requests \cup {[exec |-> r.exec, batch |-> r.batch, large |-> large, answer |-> "no"]}

\* finishAction, with the onFinishAction of the event console, which refreshes the grid
FinishAction == /\ dialog' = FALSE
                /\ stale' = FALSE

----------------------------------------------------------------------------
\* Mutant of Reset: next_request is left as the last action had it.
ResetLate == /\ UNCHANGED nextRequest
             /\ waiting' = FALSE

\* reset: resetting the progress bar also ends its wait without a call of fn
Reset == /\ nextRequest' = NoRequest
         /\ waiting' = FALSE

\* Mutant of StartAction: an earlier press of Cancel is remembered.
StartActionCancelled(selection) ==
    /\ UNCHANGED cancelled
    /\ dialog' = (dialog \/ IsLarge(selection))

\* startAction, up to run
StartAction(selection) ==
    /\ cancelled' = FALSE
    /\ dialog' = (dialog \/ IsLarge(selection))

\* execute: a button of the console.  While the dialog is visible it covers them.
Execute(selection) ==
    /\ ~dialog
    /\ params' = selection
    /\ IF selection = "none"
       THEN UNCHANGED <<cancelled, nextRequest, dialog, waiting, outstanding, historyVars>>
       ELSE /\ lastExec < MaxExecs
            /\ lastExec' = lastExec + 1
            /\ Reset
            /\ StartAction(selection)
            /\ LET r == ToAsk(nextRequest', lastExec')
               IN  /\ outstanding' = Sent(outstanding, r, IsLarge(selection))
                   /\ asked' = [asked EXCEPT ![r.exec] = @ + 1]
            /\ UNCHANGED <<fate, threw>>
    /\ UNCHANGED stale

\* The Cancel button of the dialog
Cancel == /\ dialog
          /\ cancelled' = TRUE
          /\ FinishAction
          /\ fate' = [e \in Execs |-> IF e <= lastExec /\ fate[e] = "running"
                                      THEN "cancelled" ELSE fate[e]]
          /\ UNCHANGED <<nextRequest, params, waiting, outstanding, lastExec, asked, threw>>

\* The server (EventsRouter and the event server behind it) changes the events of a
\* batch and answers.  A small selection fits in one batch.  Of a request that fails
\* nobody knows whether it had an effect.
Serve(r) ==
    /\ r.answer = "no"
    /\ \E a \in Answers \ {"no"} :
          /\ a = "more" => r.large /\ r.batch < MaxBatches
          /\ outstanding' = (outstanding \ {r}) \cup {[r EXCEPT !.answer = a]}
          /\ IF a \in {"more", "last"} THEN stale' = TRUE ELSE stale' \in {stale, TRUE}
    /\ UNCHANGED <<managerVars, historyVars>>

\* An execution that is still running ends like this
Ends(e, how) == fate' = [fate EXCEPT ![e] = IF @ = "running" THEN how ELSE @]

----------------------------------------------------------------------------
(***************************************************************************)
(* requestCallback, by what came back.                                     *)
(***************************************************************************)

\* Mutant of AnswerFailed: the dialog is left open.
AnswerFailedSilently(r) ==
    /\ r.answer = "error"
    /\ outstanding' = outstanding \ {r}
    /\ Ends(r.exec, "failed")
    /\ UNCHANGED <<managerVars, stale, lastExec, asked, threw>>

\* "no data due to an error.  Handle it."
AnswerFailed(r) ==
    /\ r.answer = "error"
    /\ outstanding' = outstanding \ {r}
    /\ FinishAction
    /\ Ends(r.exec, "failed")
    /\ UNCHANGED <<cancelled, nextRequest, params, waiting, lastExec, asked, threw>>

\* There is no result to take the data from: the callback throws
AnswerLost(r) ==
    /\ r.answer = "exception"
    /\ outstanding' = outstanding \ {r}
    /\ threw' = TRUE
    /\ Ends(r.exec, "failed")
    /\ UNCHANGED <<managerVars, stale, lastExec, asked>>

\* Mutant of Continues: updateRequestIncomplete does not look at cancelled.
ContinuesAnyway(selection) == TRUE

\* The listener of updateRequestIncomplete
Continues(selection) == ~cancelled

\* There are more batches.  isLargeRequest throws when nothing was selected the last
\* time a button was pressed: params is false then.
AnswerIncomplete(r) ==
    /\ r.answer = "more"
    /\ nextRequest' = [exec |-> r.exec, batch |-> r.batch + 1]
    /\ IF params = "none"
       THEN /\ outstanding' = outstanding \ {r}
            /\ threw' = TRUE
            /\ Ends(r.exec, "failed")
            /\ UNCHANGED asked
       ELSE IF Continues(params)
       THEN LET next == ToAsk(nextRequest', lastExec)
            IN  /\ outstanding' = Sent(outstanding \ {r}, next, r.large)
                /\ asked' = [asked EXCEPT ![next.exec] = @ + 1]
                /\ UNCHANGED <<fate, threw>>
       ELSE /\ outstanding' = outstanding \ {r}
            /\ UNCHANGED <<asked, fate, threw>>
    /\ UNCHANGED <<cancelled, params, dialog, waiting, stale, lastExec>>

\* Mutant of AnswerComplete: completion is reported by the progress bar alone.
AnswerCompleteQuietly(r) ==
    /\ r.answer = "last"
    /\ outstanding' = outstanding \ {r}
    /\ waiting' = (waiting \/ dialog)
    /\ Ends(r.exec, "finished")
    /\ UNCHANGED <<cancelled, nextRequest, params, dialog, stale, lastExec, asked, threw>>

\* That was the last batch.  A visible dialog stays for the 1.2 seconds of the
\* progress bar; one that waits already is not started again.
AnswerComplete(r) ==
    /\ r.answer = "last"
    /\ outstanding' = outstanding \ {r}
    /\ Ends(r.exec, "finished")
    /\ IF dialog
       THEN /\ waiting' = TRUE
            /\ UNCHANGED <<nextRequest, dialog, stale>>
       ELSE /\ nextRequest' = NoRequest
            /\ FinishAction
            /\ UNCHANGED waiting
    /\ UNCHANGED <<cancelled, params, lastExec, asked, threw>>

\* Mutant of WaitOver: the action is not finished when the wait is over.
WaitOverOnly == /\ waiting
                /\ waiting' = FALSE
                /\ nextRequest' = NoRequest
                /\ UNCHANGED <<cancelled, params, dialog, stale, outstanding, historyVars>>

\* The fn of the wait: updateRequestComplete
WaitOver == /\ waiting
            /\ waiting' = FALSE
            /\ nextRequest' = NoRequest
            /\ FinishAction
            /\ UNCHANGED <<cancelled, params, outstanding, historyVars>>

Answer(r) == \/ AnswerFailed(r)
             \/ AnswerLost(r)
             \/ AnswerIncomplete(r)
             \/ AnswerComplete(r)

Next == \/ \E selection \in Selections : Execute(selection)
        \/ Cancel
        \/ \E r \in outstanding : Serve(r) \/ Answer(r)
        \/ WaitOver

\* Every request is answered (Ext.Direct gives up after a timeout), every answer is
\* handled, and timers go off.  Nobody has to press a button.
Fairness == /\ WF_vars(\E r \in outstanding : Serve(r))
            /\ WF_vars(\E r \in outstanding : Answer(r))
            /\ WF_vars(WaitOver)

Spec == Init /\ [][Next]_vars /\ Fairness

----------------------------------------------------------------------------
TypeOK == /\ cancelled \in BOOLEAN
          /\ nextRequest \in Requests \cup {NoRequest}
          /\ params \in Selections
          /\ dialog \in BOOLEAN
          /\ waiting \in BOOLEAN
          /\ outstanding \subseteq [exec : Execs, batch : 1..MaxBatches,
                                    large : BOOLEAN, answer : Answers]
          /\ stale \in BOOLEAN
          /\ lastExec \in 0..MaxExecs
          /\ asked \in [Execs -> 0..MaxBatches]
          /\ fate \in [Execs -> Fates]
          /\ threw \in BOOLEAN

Quiet == outstanding = {} /\ ~waiting

\* Each execution asks for its batches one after the other, each of them once, and
\* for no batch of another, although executions overlap and share next_request.
InStep == /\ \A r \in outstanding : r.batch = asked[r.exec]
          /\ \A r, s \in outstanding : r.exec = s.exec => r = s

\* When everything has been answered, what ran was carried through to its last
\* batch, unless it was cancelled or one of its answers failed.
CarriedThrough == Quiet => \A e \in 1..lastExec : fate[e] # "running"

\* When everything has been answered, the grid shows what the server did, whichever
\* executions overlapped, unless the last action was cancelled (a batch that was
\* under way is then never shown) or an answer was lost.
QuietIsFresh == Quiet /\ ~cancelled /\ ~threw => ~stale

\* After Cancel nothing more is asked for the execution, as long as no other action
\* is executed: that clears cancelled, and an answer that is still under way then
\* continues the cancelled execution.
CancelHolds == [][\A e \in Execs : (fate[e] = "cancelled" /\ asked'[e] # asked[e])
                                      => e < lastExec]_vars

\* The modal dialog does not stay: it closes without Cancel, if no answer was lost.
DialogCloses == dialog ~> (~dialog \/ threw)
=============================================================================
