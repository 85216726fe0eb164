----------------------------- MODULE JobsWidget -----------------------------
(***************************************************************************)
(* The jobs button at the bottom of every page (Zenoss.JobsWidget in       *)
(* Products/ZenUI3/browser/resources/js/zenoss/JobsWidget.js), together    *)
(* with what it asks the server for (JobsRouter.userjobs and               *)
(* JobManager.query).                                                      *)
(*                                                                         *)
(* The widget polls the jobs of its user.  A poll does not wait for the    *)
(* answer of the one before it, answers come in any order, and the server  *)
(* reads the records one after the other while they change.  Each answer   *)
(* sets the text of the button, fills the grids of its menu, and announces *)
(* the jobs that have finished since the widget last looked - which it     *)
(* tells by comparing the time a job finished with the time the last       *)
(* answer was handled.  A cookie keeps that time when the page is left.    *)
(*                                                                         *)
(* What the records do is JobRecords' concern: here a record may become    *)
(* anything at any time.  Left out: clocks that differ (the time a job     *)
(* finished is the server's and the time of an answer the browser's), the  *)
(* expiry of the cookie, and other pages that write it.                    *)
(***************************************************************************)
EXTENDS Naturals, FiniteSets

CONSTANTS Jobs,        \* the jobs of the user
          Polls,       \* requests that may be under way together
          Shown,       \* rows the server sends of each status (10)
          MaxTime,     \* bound: the clock
          MaxChanges,  \* bound: changes of records
          MaxLost      \* bound: requests that are not answered with jobs, pages left,
                       \* and dialogs shown

ASSUME WidgetAssumption == /\ IsFiniteSet(Jobs)
                           /\ Shown \in Nat \ {0}
                           /\ {MaxTime, MaxChanges, MaxLost} \subseteq Nat

\* validstates of userjobs
Listed == {"PENDING", "STARTED", "RETRY", "SUCCESS"}

\* "other": no record, or one with a status that is not listed
Statuses == Listed \cup {"other"}

Grids == {"running", "retry", "pending", "finished"}
Stores == {"running", "pending", "finished"}

VARIABLES now,          \* the time
          status,       \* the status of each record
          finished,     \* when each job finished, as its record says
          changes,      \* changes of records so far
          poll,         \* the requests under way: what the server has read for each
          lost,         \* requests lost, pages left and dialogs shown so far
          lastchecked,  \* when the last answer was handled
          cookie,       \* the same, as the cookie has it
          paused,       \* a dialog is shown, and the timer of the poll is cancelled
          button,       \* the text of the button
          visible,      \* the grids that are visible
          store,        \* the jobs in the store of each grid
          alerted,      \* history: how often the success of a job was announced
          raced         \* history: an answer was handled that came too early to show it

recordVars == <<status, finished, changes>>
pageVars == <<paused, button, visible, store>>
historyVars == <<alerted, raced>>
vars == <<now, recordVars, poll, lost, lastchecked, cookie, pageVars, historyVars>>

\* A record the server has not come to yet
Unread == [status |-> "unread", finished |-> 0]

NoPoll == [asked |-> FALSE, read |-> [j \in Jobs |-> Unread]]

Idle == [running |-> 0, waiting |-> 0, text |-> "0 Jobs"]

Init == /\ now = 1
        /\ status = [j \in Jobs |-> "other"]
        /\ finished = [j \in Jobs |-> 0]
        /\ changes = 0
        /\ poll = [p \in Polls |-> NoPoll]
        /\ lost = 0
        /\ lastchecked = 0
        /\ cookie = 0
        /\ paused = FALSE
        /\ button = Idle
        /\ visible = {}
        /\ store = [s \in Stores |-> {}]
        /\ alerted = [j \in Jobs |-> 0]
        /\ raced = [j \in Jobs |-> FALSE]

----------------------------------------------------------------------------
(***************************************************************************)
(* The world: time passes, records change.                                 *)
(***************************************************************************)
Tick == /\ now < MaxTime
        /\ now' = now + 1
        /\ UNCHANGED <<recordVars, poll, lost, lastchecked, cookie, pageVars, historyVars>>

Change(j, s) ==
    /\ changes < MaxChanges
    /\ s # status[j]
    /\ changes' = changes + 1
    /\ status' = [status EXCEPT ![j] = s]
    /\ finished' = [finished EXCEPT ![j] = IF s = "SUCCESS" THEN now ELSE @]
    /\ alerted' = [alerted EXCEPT ![j] = 0]
    /\ raced' = [raced EXCEPT ![j] = FALSE]
    /\ UNCHANGED <<now, poll, lost, lastchecked, cookie, pageVars>>

----------------------------------------------------------------------------
(***************************************************************************)
(* The server.                                                             *)
(***************************************************************************)

\* JobStore.mget: the records are read one by one
Read(p, j) ==
    /\ poll[p].asked
    /\ poll[p].read[j] = Unread
    /\ poll' = [poll EXCEPT ![p].read[j] = [status |-> status[j], finished |-> finished[j]]]
    /\ UNCHANGED <<now, recordVars, lost, lastchecked, cookie, pageVars, historyVars>>

With(read, s) == {j \in DOMAIN read : read[j].status = s}

\* userjobs, totals
Totals(read) == [s \in Listed |-> Cardinality(With(read, s))]

\* userjobs, jobs: "Sort and slice appropriately -- most recent 10 items".  Only for
\* what has finished does it matter here which they are.
Slices(read, s) ==
    {rows \in SUBSET With(read, s) :
        /\ \/ rows = With(read, s) /\ Cardinality(rows) <= Shown
           \/ Cardinality(rows) = Shown
        /\ s = "SUCCESS" =>
             \A j \in rows, k \in With(read, s) \ rows : read[j].finished >= read[k].finished}

----------------------------------------------------------------------------
\* What userjobs may answer
Answers(read) == {[PENDING |-> p, STARTED |-> q, RETRY |-> r, SUCCESS |-> s] :
                     p \in Slices(read, "PENDING"), q \in Slices(read, "STARTED"),
                     r \in Slices(read, "RETRY"), s \in Slices(read, "SUCCESS")}

(***************************************************************************)
(* The widget.                                                             *)
(***************************************************************************)

\* Mutant of Poll: the timer is not set again.
PollOnce(p) == /\ ~poll[p].asked
               /\ ~paused
               /\ lastchecked = 0
               /\ poll' = [poll EXCEPT ![p].asked = TRUE]
               /\ UNCHANGED <<now, recordVars, lost, lastchecked, cookie, pageVars, historyVars>>

\* poll, update: the timer goes off
Poll(p) == /\ ~poll[p].asked
           /\ ~paused
           /\ poll' = [poll EXCEPT ![p].asked = TRUE]
           /\ UNCHANGED <<now, recordVars, lost, lastchecked, cookie, pageVars, historyVars>>

\* update_button: the text
ButtonOf(totals) ==
    IF totals["PENDING"] = 0 /\ totals["STARTED"] = 0
    THEN Idle
    ELSE [running |-> totals["STARTED"],
          waiting |-> totals["PENDING"] + totals["RETRY"],
          text    |-> IF totals["RETRY"] = 0 THEN "Pending" ELSE "Pending/Retry"]

\* Mutant of Shows: a grid is only ever made visible.
ShowsMore(jobs) ==
    visible \cup {g \in Grids : \/ g = "running" /\ jobs["STARTED"] # {}
                                \/ g = "retry" /\ jobs["RETRY"] # {}
                                \/ g = "pending" /\ jobs["PENDING"] # {}
                                \/ g = "finished" /\ jobs["SUCCESS"] # {}}

\* update_menu: the grids that it makes visible, all others being hidden
Shows(jobs) == {g \in Grids : \/ g = "running" /\ jobs["STARTED"] # {}
                              \/ g = "retry" /\ jobs["RETRY"] # {}
                              \/ g = "pending" /\ jobs["PENDING"] # {}
                              \/ g = "finished" /\ jobs["SUCCESS"] # {}}

\* update_menu: what it loads.  The grids of pending and of retried jobs have one
\* store, and the pending jobs are loaded last.
Loads(jobs) ==
    LET filled(s, js) == IF js # {} THEN js ELSE store[s]
    IN  [running  |-> filled("running", jobs["STARTED"]),
         pending  |-> IF jobs["PENDING"] # {} THEN jobs["PENDING"] ELSE filled("pending", jobs["RETRY"]),
         finished |-> filled("finished", jobs["SUCCESS"])]

UpdateMenu(jobs) == /\ visible' = Shows(jobs)
                    /\ store' = Loads(jobs)

\* Mutant of IsRecent: the time of this answer is set first.
IsRecentNow(time) == time >= now

\* check_for_recently_finished
IsRecent(time) == time >= lastchecked

\* Mutant of SetLastchecked: the cookie is not set.
SetLastcheckedOnly == /\ lastchecked' = now
                      /\ UNCHANGED cookie

\* set_lastchecked
SetLastchecked == /\ lastchecked' = now
                  /\ cookie' = now

\* The success of j is the one that the answer told of
IsTold(read, rows, j) == j \in rows /\ read[j].finished = finished[j] /\ status[j] = "SUCCESS"

\* The answer is handled: the callback of update
Answer(p) ==
    LET read == poll[p].read
    IN  /\ poll[p].asked
        /\ \A j \in Jobs : read[j] # Unread
        /\ poll' = [poll EXCEPT ![p] = NoPoll]
        /\ button' = ButtonOf(Totals(read))
        /\ \E jobs \in Answers(read) :
             /\ UpdateMenu(jobs)
             /\ alerted' = [j \in Jobs |->
                    IF IsTold(read, jobs["SUCCESS"], j) /\ IsRecent(read[j].finished) /\ alerted[j] < 2
                    THEN alerted[j] + 1 ELSE alerted[j]]
             /\ raced' = [j \in Jobs |->
                    raced[j] \/ (status[j] = "SUCCESS" /\ ~IsTold(read, jobs["SUCCESS"], j))]
        /\ SetLastchecked
        /\ UNCHANGED <<now, recordVars, lost, paused>>

\* pause: a dialog is shown (zenoss-utils.js)
Pause == /\ ~paused
         /\ lost < MaxLost
         /\ lost' = lost + 1
         /\ paused' = TRUE
         /\ UNCHANGED <<now, recordVars, poll, lastchecked, cookie, button, visible, store, historyVars>>

\* The dialog is hidden, which polls at once
Resume(p) == /\ paused
             /\ paused' = FALSE
             /\ ~poll[p].asked
             /\ poll' = [poll EXCEPT ![p].asked = TRUE]
             /\ UNCHANGED <<now, recordVars, lost, lastchecked, cookie, button, visible, store, historyVars>>

\* There is no answer, or one without jobs
Lose(p) == /\ poll[p].asked
           /\ lost < MaxLost
           /\ lost' = lost + 1
           /\ poll' = [poll EXCEPT ![p] = NoPoll]
           /\ UNCHANGED <<now, recordVars, lastchecked, cookie, pageVars, historyVars>>

\* Another page is opened in place of this one
Reload == /\ lost < MaxLost
          /\ lost' = lost + 1
          /\ poll' = [p \in Polls |-> NoPoll]
          /\ lastchecked' = cookie
          /\ paused' = FALSE
          /\ button' = Idle
          /\ visible' = {}
          /\ store' = [s \in Stores |-> {}]
          /\ UNCHANGED <<now, recordVars, cookie, historyVars>>

----------------------------------------------------------------------------
Next == \/ Tick
        \/ \E j \in Jobs, s \in Statuses : Change(j, s)
        \/ \E p \in Polls : \/ Poll(p)
                            \/ \E j \in Jobs : Read(p, j)
                            \/ Answer(p)
                            \/ Lose(p)
                            \/ Resume(p)
        \/ Reload
        \/ Pause

\* The timer of the poll goes off and the server answers.  Users need not leave the
\* page or close a dialog, nor records change.
Fairness == \A p \in Polls : /\ WF_vars(Poll(p))
                             /\ \A j \in Jobs : WF_vars(Read(p, j))
                             /\ WF_vars(Answer(p))

Spec == Init /\ [][Next]_vars /\ Fairness

----------------------------------------------------------------------------
\* A job that succeeded before the last answer was handled was announced, unless an
\* answer was under way at the time that could not tell of it: its record had been read
\* before, or others had finished later and took the rows.
AnnouncedUnlessRaced == \A j \in Jobs :
    status[j] = "SUCCESS" /\ finished[j] < lastchecked => alerted[j] > 0 \/ raced[j]

\* No success is announced twice, on one page or on the next, but for one that falls
\* on the very time an answer was handled.
NoSecondAlert == [][\A j \in Jobs :
    (alerted[j] > 0 /\ alerted'[j] > alerted[j]) => finished[j] = lastchecked]_vars

\* What a visible grid shows and what the button says come from one answer: jobs are
\* counted where there are rows.  The grid of retried jobs shows the pending ones
\* instead where there are any (the two share a store), and the button counts no
\* retried job where nothing else is under way.
ButtonAgreesWithMenu ==
    /\ "running" \in visible <=> button.running > 0
    /\ "running" \in visible => Cardinality(store["running"]) <= button.running
    /\ "pending" \in visible => /\ button.waiting >= Cardinality(store["pending"])
                                /\ button.text # "0 Jobs"
    /\ "retry" \in visible => button.text \in {"0 Jobs", "Pending/Retry"}
    /\ visible \cap {"running", "pending"} = {} => button = Idle

\* In the end the button says what the records say, unless a dialog stays open,
\* although answers overtake each other and some are lost: records change a number of
\* times only.
ButtonCatchesUp ==
    <>[](paused \/ button = ButtonOf(Totals([j \in Jobs |-> [status |-> status[j]]])))
=============================================================================
