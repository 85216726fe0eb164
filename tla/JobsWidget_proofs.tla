--------------------------- MODULE JobsWidget_proofs ---------------------------
(***************************************************************************)
(* What the jobs button keeps true for any finite set of jobs, any number  *)
(* of requests under way together, of rows, of changes and of losses, in   *)
(* any order of the answers.                                               *)
(***************************************************************************)
EXTENDS JobsWidget, FiniteSetTheorems, TLAPS

\* What the server has read for a request
Reads == [Jobs -> [status : Statuses \cup {"unread"}, finished : Nat]]

Types == /\ now \in Nat
         /\ status \in [Jobs -> Statuses]
         /\ finished \in [Jobs -> Nat]
         /\ poll \in [Polls -> [asked : BOOLEAN, read : Reads]]
         /\ lastchecked \in Nat
         /\ alerted \in [Jobs -> Nat]
         /\ raced \in [Jobs -> BOOLEAN]

\* Times lie in the past; the cookie keeps the time of the page, which is what makes
\* leaving it harmless; and what was announced had finished when the answer came.
Times == /\ lastchecked <= now
         /\ cookie = lastchecked
         /\ \A j \in Jobs : finished[j] <= now
         /\ \A j \in Jobs : alerted[j] > 0 => finished[j] <= lastchecked

IInv == Types /\ Times /\ AnnouncedUnlessRaced

-----------------------------------------------------------------------------
(* What an answer makes of the button and the menu                         *)

LEMMA WithCounts ==
    ASSUME NEW read \in Reads, NEW s \in Listed
    PROVE  /\ With(read, s) \subseteq Jobs /\ IsFiniteSet(With(read, s))
           /\ Totals(read)[s] \in Nat /\ Totals(read)[s] = Cardinality(With(read, s))
           /\ Totals(read)[s] = 0 <=> With(read, s) = {}
  <1>1. With(read, s) \subseteq Jobs
    BY DEF With, Reads
  <1>2. IsFiniteSet(With(read, s))
    BY <1>1, FS_Subset, WidgetAssumption
  <1>3. Totals(read)[s] = Cardinality(With(read, s))
    BY DEF Totals
  <1> QED  BY <1>1, <1>2, <1>3, FS_CardinalityType, FS_EmptySet

\* The rows of a status are some of the jobs that are counted, and there are rows
\* where there are jobs.
LEMMA SliceCounts ==
    ASSUME NEW read \in Reads, NEW s \in Listed, NEW rows \in Slices(read, s)
    PROVE  /\ rows = {} <=> Totals(read)[s] = 0
           /\ Cardinality(rows) \in Nat /\ Cardinality(rows) <= Totals(read)[s]
  <1>1. /\ rows \subseteq With(read, s)
        /\ rows = With(read, s) \/ Cardinality(rows) = Shown
    BY DEF Slices
  <1>2. IsFiniteSet(With(read, s)) /\ Totals(read)[s] = Cardinality(With(read, s))
    BY WithCounts
  <1>3. IsFiniteSet(rows) /\ Cardinality(rows) \in Nat /\ Cardinality(rows) <= Totals(read)[s]
    BY <1>1, <1>2, FS_Subset, FS_CardinalityType
  <1>4. rows = {} => With(read, s) = {}
    <2>1. rows = {} => Cardinality(rows) = 0
      BY FS_EmptySet
    <2> QED  BY <1>1, <2>1, WidgetAssumption
  <1>5. With(read, s) = {} => rows = {}
    BY <1>1
  <1> QED  BY <1>3, <1>4, <1>5, WithCounts

LEMMA IdleCounts == Idle.running = 0 /\ Idle.text = "0 Jobs" /\ ~(0 > 0)
  <1>1. Idle.running = 0
    BY DEF Idle
  <1>2. Idle.text = "0 Jobs"
    BY DEF Idle
  <1>3. ~(0 > 0)
    OBVIOUS
  <1> QED  BY <1>1, <1>2, <1>3

LEMMA AnswerAgrees ==
    ASSUME NEW read \in Reads, NEW jobs \in Answers(read), UpdateMenu(jobs),
           button' = ButtonOf(Totals(read))
    PROVE  ButtonAgreesWithMenu'
  <1> DEFINE n(s) == Totals(read)[s]
  <1>1. PICK p \in Slices(read, "PENDING"), q \in Slices(read, "STARTED"),
             r \in Slices(read, "RETRY"), t \in Slices(read, "SUCCESS") :
               jobs = [PENDING |-> p, STARTED |-> q, RETRY |-> r, SUCCESS |-> t]
    BY DEF Answers
  <1>2. /\ p = {} <=> n("PENDING") = 0
        /\ q = {} <=> n("STARTED") = 0
        /\ r = {} <=> n("RETRY") = 0
        /\ n("PENDING") \in Nat /\ n("STARTED") \in Nat /\ n("RETRY") \in Nat
        /\ Cardinality(p) \in Nat /\ Cardinality(p) <= n("PENDING")
        /\ Cardinality(q) \in Nat /\ Cardinality(q) <= n("STARTED")
    BY SliceCounts, WithCounts DEF Listed
  <1>3. /\ "running" \in visible' <=> q # {}
        /\ "retry" \in visible' <=> r # {}
        /\ "pending" \in visible' <=> p # {}
    BY <1>1 DEF UpdateMenu, Shows, Grids
  <1>4. /\ q # {} => store'["running"] = q
        /\ p # {} => store'["pending"] = p
    BY <1>1 DEF UpdateMenu, Loads
  <1>5. button' = IF n("PENDING") = 0 /\ n("STARTED") = 0 THEN Idle
                  ELSE [running |-> n("STARTED"), waiting |-> n("PENDING") + n("RETRY"),
                        text |-> IF n("RETRY") = 0 THEN "Pending" ELSE "Pending/Retry"]
    BY DEF ButtonOf
  <1> HIDE DEF n
  <1>6. CASE n("PENDING") = 0 /\ n("STARTED") = 0
    <2>1. button' = Idle /\ p = {} /\ q = {}
      BY <1>2, <1>5, <1>6
    <2>2. button'.running = 0 /\ button'.text = "0 Jobs" /\ ~(0 > 0)
      <3>1. button'.running = 0
        BY <2>1, IdleCounts
      <3>2. button'.text = "0 Jobs"
        BY <2>1, IdleCounts
      <3> QED  BY <3>1, <3>2, IdleCounts
    <2>3. "running" \notin visible' /\ "pending" \notin visible'
      BY <1>3, <2>1
    <2> QED  BY <2>1, <2>2, <2>3 DEF ButtonAgreesWithMenu
  <1>7. CASE ~(n("PENDING") = 0 /\ n("STARTED") = 0)
    <2>1. /\ button'.running = n("STARTED") /\ button'.waiting = n("PENDING") + n("RETRY")
          /\ button'.text = IF n("RETRY") = 0 THEN "Pending" ELSE "Pending/Retry"
      BY <1>5, <1>7
    <2>2. p # {} \/ q # {}
      BY <1>2, <1>7
    <2>3. "running" \in visible' <=> button'.running > 0
      BY <1>2, <1>3, <2>1
    <2>4. "running" \in visible' => Cardinality(store'["running"]) <= button'.running
      BY <1>2, <1>3, <1>4, <2>1
    <2>5. "pending" \in visible' => button'.waiting >= Cardinality(store'["pending"]) /\ button'.text # "0 Jobs"
      <3>1. n("PENDING") + n("RETRY") >= Cardinality(p)
        BY <1>2
      <3> QED  BY <1>3, <1>4, <2>1, <3>1
    <2>6. "retry" \in visible' => button'.text \in {"0 Jobs", "Pending/Retry"}
      BY <1>2, <1>3, <2>1
    <2>7. visible' \cap {"running", "pending"} # {}
      BY <1>3, <2>2
    <2> QED  BY <2>3, <2>4, <2>5, <2>6, <2>7 DEF ButtonAgreesWithMenu
  <1> QED  BY <1>6, <1>7

-----------------------------------------------------------------------------
(* The steps                                                               *)

LEMMA InitHolds == Init => IInv /\ ButtonAgreesWithMenu
  <1> SUFFICES ASSUME Init PROVE IInv /\ ButtonAgreesWithMenu
    OBVIOUS
  <1>1. Types
    <2>1. NoPoll \in [asked : BOOLEAN, read : Reads]
      BY DEF NoPoll, Reads, Unread
    <2> QED  BY <2>1 DEF Init, Types, Statuses
  <1>2. Times /\ AnnouncedUnlessRaced
    BY DEF Init, Times, AnnouncedUnlessRaced
  <1>3. ButtonAgreesWithMenu
    <2>1. button = Idle /\ visible = {}
      BY DEF Init
    <2>2. button.running = 0
      BY <2>1, IdleCounts
    <2>3. ~(button.running > 0)
      BY <2>2
    <2> QED  BY <2>1, <2>3 DEF ButtonAgreesWithMenu
  <1> QED  BY <1>1, <1>2, <1>3 DEF IInv

LEMMA ChangeKeeps ==
    ASSUME IInv, NEW j \in Jobs, NEW s \in Statuses, Change(j, s)
    PROVE  IInv'
  <1>1. /\ status' = [status EXCEPT ![j] = s]
        /\ finished' = [finished EXCEPT ![j] = IF s = "SUCCESS" THEN now ELSE @]
        /\ alerted' = [alerted EXCEPT ![j] = 0] /\ raced' = [raced EXCEPT ![j] = FALSE]
        /\ now' = now /\ poll' = poll /\ lastchecked' = lastchecked /\ cookie' = cookie
    BY DEF Change
  <1>2. Types'
    BY <1>1 DEF IInv, Types
  <1>3. Times'
    BY <1>1 DEF IInv, Types, Times
  <1>4. AnnouncedUnlessRaced'
    <2> SUFFICES ASSUME NEW k \in Jobs, status'[k] = "SUCCESS", finished'[k] < lastchecked'
                 PROVE  alerted'[k] > 0 \/ raced'[k]
      BY DEF AnnouncedUnlessRaced
    <2>1. k # j
      <3>1. k = j => s = "SUCCESS" /\ finished'[k] = now
        BY <1>1 DEF IInv, Types
      <3>2. ~(now < lastchecked)
        BY DEF IInv, Types, Times
      <3> QED  BY <1>1, <3>1, <3>2
    <2>2. status[k] = "SUCCESS" /\ finished[k] < lastchecked /\ alerted'[k] = alerted[k] /\ raced'[k] = raced[k]
      BY <1>1, <2>1 DEF IInv, Types
    <2> QED  BY <2>2 DEF IInv, AnnouncedUnlessRaced
  <1> QED  BY <1>2, <1>3, <1>4 DEF IInv

LEMMA AnswerKeeps ==
    ASSUME IInv, NEW p \in Polls, Answer(p)
    PROVE  /\ IInv' /\ ButtonAgreesWithMenu'
           /\ \A j \in Jobs : alerted[j] > 0 /\ alerted'[j] > alerted[j] => finished[j] = lastchecked
  <1> DEFINE read == poll[p].read
  <1>1. PICK jobs \in Answers(read) :
          /\ UpdateMenu(jobs)
          /\ alerted' = [j \in Jobs |->
                 IF IsTold(read, jobs["SUCCESS"], j) /\ IsRecent(read[j].finished) /\ alerted[j] < 2
                 THEN alerted[j] + 1 ELSE alerted[j]]
          /\ raced' = [j \in Jobs |->
                 raced[j] \/ (status[j] = "SUCCESS" /\ ~IsTold(read, jobs["SUCCESS"], j))]
    BY DEF Answer
  <1>2. /\ poll' = [poll EXCEPT ![p] = NoPoll] /\ button' = ButtonOf(Totals(read))
        /\ lastchecked' = now /\ cookie' = now
        /\ now' = now /\ status' = status /\ finished' = finished
    BY DEF Answer, SetLastchecked, recordVars
  <1>3. read \in Reads
    BY DEF IInv, Types
  <1> HIDE DEF read
  <1> DEFINE Told(j) == IsTold(read, jobs["SUCCESS"], j)
             Recent(j) == IsRecent(read[j].finished)
  <1>4. ASSUME NEW j \in Jobs, Told(j)
        PROVE  status[j] = "SUCCESS" /\ (Recent(j) <=> finished[j] >= lastchecked)
    BY <1>4 DEF IsTold, IsRecent
  <1>5. ASSUME NEW j \in Jobs
        PROVE  /\ alerted'[j] = IF Told(j) /\ Recent(j) /\ alerted[j] < 2 THEN alerted[j] + 1 ELSE alerted[j]
               /\ raced'[j] = (raced[j] \/ (status[j] = "SUCCESS" /\ ~Told(j)))
    BY <1>1
  <1>6. Types'
    <2>1. NoPoll \in [asked : BOOLEAN, read : Reads]
      BY DEF NoPoll, Reads, Unread
    <2>2. alerted' \in [Jobs -> Nat]
      BY <1>1 DEF IInv, Types
    <2>3. raced' \in [Jobs -> BOOLEAN]
      BY <1>1 DEF IInv, Types
    <2> QED  BY <1>2, <2>1, <2>2, <2>3 DEF IInv, Types
  <1>7. Times'
    BY <1>2, <1>6 DEF IInv, Types, Times
  <1> HIDE DEF Told, Recent
  <1>8. AnnouncedUnlessRaced'
    <2> SUFFICES ASSUME NEW j \in Jobs, status[j] = "SUCCESS"
                 PROVE  finished[j] < now => alerted'[j] > 0 \/ raced'[j]
      BY <1>2 DEF AnnouncedUnlessRaced
    <2>0. alerted[j] \in Nat /\ raced[j] \in BOOLEAN /\ finished[j] \in Nat /\ lastchecked \in Nat
      BY DEF IInv, Types
    <2>1. CASE ~Told(j)
      BY <1>5, <2>1
    <2>2. CASE Told(j) /\ Recent(j)
      <3>1. alerted'[j] = IF alerted[j] < 2 THEN alerted[j] + 1 ELSE alerted[j]
        BY <1>5, <2>2
      <3> QED  BY <2>0, <3>1
    <2>3. CASE Told(j) /\ ~Recent(j)
      <3>1. finished[j] < lastchecked
        BY <1>4, <2>0, <2>3
      <3>2. alerted[j] > 0 \/ raced[j]
        BY <3>1 DEF IInv, AnnouncedUnlessRaced
      <3>3. alerted'[j] = alerted[j] /\ (raced[j] => raced'[j])
        BY <1>5, <2>3
      <3> QED  BY <3>2, <3>3
    <2> QED  BY <2>1, <2>2, <2>3
  <1>9. ASSUME NEW j \in Jobs, alerted[j] > 0, alerted'[j] > alerted[j]
        PROVE  finished[j] = lastchecked
    <2>0. alerted[j] \in Nat /\ finished[j] \in Nat /\ lastchecked \in Nat
      BY DEF IInv, Types
    <2>1. Told(j) /\ Recent(j)
      BY <1>5, <1>9, <2>0
    <2>2. finished[j] >= lastchecked
      BY <1>4, <2>1
    <2>3. finished[j] <= lastchecked
      BY <1>9 DEF IInv, Times
    <2> QED  BY <2>0, <2>2, <2>3
  <1>10. ButtonAgreesWithMenu'
    BY <1>1, <1>2, <1>3, AnswerAgrees
  <1> QED  BY <1>6, <1>7, <1>8, <1>9, <1>10 DEF IInv

\* Every other step leaves the announcements, the records, and the times but for the
\* clock; the page is left as it is or new.
LEMMA OtherKeeps ==
    ASSUME IInv,
           \/ Tick \/ Reload \/ Pause
           \/ \E p \in Polls : Poll(p) \/ Lose(p) \/ Resume(p) \/ \E j \in Jobs : Read(p, j)
    PROVE  /\ IInv' /\ alerted' = alerted
           /\ UNCHANGED <<button, visible, store>> \/ (button' = Idle /\ visible' = {})
  <1>1. /\ status' = status /\ finished' = finished /\ alerted' = alerted /\ raced' = raced
        /\ cookie' = cookie /\ (now' = now \/ now' = now + 1)
        /\ lastchecked' = lastchecked \/ lastchecked' = cookie
        /\ UNCHANGED <<button, visible, store>> \/ (button' = Idle /\ visible' = {})
    BY DEF Tick, Reload, Pause, Poll, Lose, Resume, Read, recordVars, pageVars, historyVars
  <1>2. poll' \in [Polls -> [asked : BOOLEAN, read : Reads]]
    <2>0. NoPoll \in [asked : BOOLEAN, read : Reads]
      BY DEF NoPoll, Reads, Unread
    <2>1. ASSUME NEW p \in Polls, NEW j \in Jobs, Read(p, j)
          PROVE  poll' \in [Polls -> [asked : BOOLEAN, read : Reads]]
      <3> DEFINE r == [status |-> status[j], finished |-> finished[j]]
                 new == [poll[p].read EXCEPT ![j] = r]
      <3>1. poll' = [poll EXCEPT ![p].read[j] = r]
        BY <2>1 DEF Read
      <3>2. poll[p].read \in Reads /\ poll[p].asked \in BOOLEAN
        BY DEF IInv, Types
      <3>3. r \in [status : Statuses \cup {"unread"}, finished : Nat]
        BY DEF IInv, Types
      <3> HIDE DEF r
      <3>4. new \in Reads
        BY <3>2, <3>3 DEF Reads
      <3>5. poll' = [poll EXCEPT ![p] = [@ EXCEPT !.read = new]]
        BY <3>1
      <3> HIDE DEF new
      <3> QED  BY <3>2, <3>4, <3>5 DEF IInv, Types
    <2>2. ASSUME NEW p \in Polls, Poll(p) \/ Resume(p)
          PROVE  poll' \in [Polls -> [asked : BOOLEAN, read : Reads]]
      BY <2>2 DEF Poll, Resume, IInv, Types
    <2>3. ASSUME NEW p \in Polls, Lose(p)
          PROVE  poll' \in [Polls -> [asked : BOOLEAN, read : Reads]]
      BY <2>0, <2>3 DEF Lose, IInv, Types
    <2>4. CASE Reload
      BY <2>0, <2>4 DEF Reload
    <2>5. CASE Tick \/ Pause
      BY <2>5 DEF Tick, Pause, IInv, Types
    <2> QED  BY <2>1, <2>2, <2>3, <2>4, <2>5
  <1>3. now \in Nat /\ now' \in Nat /\ now <= now' /\ lastchecked' = lastchecked
    BY <1>1 DEF IInv, Types, Times
  <1>4. Types'
    BY <1>1, <1>2, <1>3 DEF IInv, Types
  <1>5. Times'
    <2>1. lastchecked <= now' /\ \A j \in Jobs : finished[j] <= now'
      BY <1>3 DEF IInv, Types, Times
    <2> QED  BY <1>1, <1>3, <2>1 DEF IInv, Times
  <1>6. AnnouncedUnlessRaced'
    BY <1>1, <1>3 DEF IInv, AnnouncedUnlessRaced
  <1> QED  BY <1>1, <1>4, <1>5, <1>6 DEF IInv

\* A step keeps the invariant, and announces no success again.
LEMMA NextKeeps ==
    ASSUME IInv, ButtonAgreesWithMenu, [Next]_vars
    PROVE  /\ IInv' /\ ButtonAgreesWithMenu'
           /\ \A j \in Jobs : alerted[j] > 0 /\ alerted'[j] > alerted[j] => finished[j] = lastchecked
  <1>0. \A j \in Jobs : alerted[j] \in Nat
    BY DEF IInv, Types
  <1>1. ASSUME NEW j \in Jobs, NEW s \in Statuses, Change(j, s)
        PROVE  /\ IInv' /\ ButtonAgreesWithMenu'
               /\ \A k \in Jobs : ~(alerted'[k] > alerted[k])
    <2>1. IInv'
      BY <1>1, ChangeKeeps
    <2>2. ButtonAgreesWithMenu'
      BY <1>1 DEF Change, pageVars, ButtonAgreesWithMenu
    <2>3. \A k \in Jobs : alerted'[k] = 0 \/ alerted'[k] = alerted[k]
      BY <1>1 DEF Change, IInv, Types
    <2> QED  BY <1>0, <2>1, <2>2, <2>3
  <1>2. ASSUME NEW p \in Polls, Answer(p)
        PROVE  /\ IInv' /\ ButtonAgreesWithMenu'
               /\ \A j \in Jobs : alerted[j] > 0 /\ alerted'[j] > alerted[j] => finished[j] = lastchecked
    BY <1>2, AnswerKeeps
  <1>3. CASE \/ Tick \/ Reload \/ Pause
             \/ \E p \in Polls : Poll(p) \/ Lose(p) \/ Resume(p) \/ \E j \in Jobs : Read(p, j)
    <2>1. /\ IInv' /\ alerted' = alerted
          /\ UNCHANGED <<button, visible, store>> \/ (button' = Idle /\ visible' = {})
      BY <1>3, OtherKeeps
    <2>2. ButtonAgreesWithMenu'
      <3>1. CASE UNCHANGED <<button, visible, store>>
        BY <3>1 DEF ButtonAgreesWithMenu
      <3>2. CASE button' = Idle /\ visible' = {}
        <4>1. button'.running = 0
          BY <3>2, IdleCounts
        <4>2. ~(button'.running > 0)
          BY <4>1
        <4> QED  BY <3>2, <4>2 DEF ButtonAgreesWithMenu
      <3> QED  BY <2>1, <3>1, <3>2
    <2> QED  BY <1>0, <2>1, <2>2
  <1>4. CASE UNCHANGED vars
    <2>1. IInv' /\ ButtonAgreesWithMenu' /\ alerted' = alerted
      BY <1>4 DEF vars, recordVars, pageVars, historyVars, IInv, Types, Times, AnnouncedUnlessRaced,
                  ButtonAgreesWithMenu
    <2> QED  BY <1>0, <2>1
  <1> QED  BY <1>0, <1>1, <1>2, <1>3, <1>4 DEF Next

-----------------------------------------------------------------------------
(* The theorems                                                            *)

\* Whatever requests are answered, lost or overtaken, records change and pages are left
\* (JobsWidget.js, update; jobs.py, userjobs), times and grids stay consistent.
THEOREM WidgetInvariantHolds == Spec => [](IInv /\ ButtonAgreesWithMenu)
  <1>1. Init => IInv /\ ButtonAgreesWithMenu
    BY InitHolds
  <1>2. (IInv /\ ButtonAgreesWithMenu) /\ [Next]_vars => (IInv /\ ButtonAgreesWithMenu)'
    BY NextKeeps
  <1> QED  BY <1>1, <1>2, PTL DEF Spec

\* A success is announced unless an answer came too early to tell of it
\* (JobsWidget.js, check_for_recently_finished).
THEOREM SuccessesAreAnnounced == Spec => []AnnouncedUnlessRaced
  <1>1. IInv => AnnouncedUnlessRaced
    BY DEF IInv
  <1> QED  BY <1>1, WidgetInvariantHolds, PTL

\* The button and the menu say the same (update_button, update_menu).
THEOREM ButtonAndMenuAgree == Spec => []ButtonAgreesWithMenu
  BY WidgetInvariantHolds, PTL

\* No success is announced twice, but on the very time an answer was handled.
THEOREM SuccessesAreAnnouncedOnce == Spec => NoSecondAlert
  <1>1. (IInv /\ ButtonAgreesWithMenu) /\ [Next]_vars =>
           [\A j \in Jobs : (alerted[j] > 0 /\ alerted'[j] > alerted[j]) => finished[j] = lastchecked]_vars
    BY NextKeeps
  <1> QED  BY <1>1, WidgetInvariantHolds, PTL DEF Spec, NoSecondAlert
=============================================================================
