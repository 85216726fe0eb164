---------------------- MODULE WorkerPoolExecutor_proofs ----------------------
(***************************************************************************)
(* Proofs about WorkerPoolExecutor, for any calls, priorities, weighted    *)
(* cycle, sessions and number of retries: types, where calls are, the      *)
(* dispatch loop, attempts, the refinement of ServiceCalls, then sessions  *)
(* and workers, and the order of retries.                                  *)
(***************************************************************************)
EXTENDS WorkerPoolExecutor, SequenceTheorems, TLAPS

-----------------------------------------------------------------------------
(* Type correctness                                                        *)

\* The position in the cycle stays in the cycle.
LEMMA AdvanceType ==
    ASSUME NEW t \in Nat, NEW k \in Nat
    PROVE  Advance(Cycle, t, k) \in 0..(Len(Cycle) - 1)
  <1>1. Len(Cycle) \in Nat \ {0}  BY PrioritiesAssumption
  <1> QED  BY <1>1 DEF Advance

\* What hire does with the availability queue
LEMMA HireFromType ==
    ASSUME NEW avail \in Seq(Sessions), HireFrom(avail)
    PROVE  /\ available' \in Seq(Sessions)
           /\ hirer' \in {"waiting", "pinging"}
           /\ pinged' \in SUBSET Sessions
  BY DEF HireFrom

\* Whether or not a hire waits for the session that is offered
LEMMA OfferType ==
    ASSUME TypeOK, NEW avail \in Seq(Sessions), Offer(avail)
    PROVE  /\ available' \in Seq(Sessions)
           /\ hirer' \in {"none", "waiting", "pinging"}
           /\ pinged' \in SUBSET Sessions
  BY HireFromType DEF Offer, TypeOK

\* A pop leaves queues of calls and a position in the cycle.
LEMMA PopFromType ==
    ASSUME TypeOK, NEW q \in [Priorities -> Seq(Calls)], NEW c, PopFrom(q, c)
    PROVE  /\ queues' \in [Priorities -> Seq(Calls)]
           /\ turn' \in 0..(Len(Cycle) - 1)
  <1>1. PICK k \in 1..Len(Cycle) :
          LET p == Slot(Cycle, turn, k)
          IN  /\ Turns(Cycle, turn, NonEmpty(q), k)
              /\ queues' = [q EXCEPT ![p] = Tail(@)]
              /\ turn' = Advance(Cycle, turn, k)
    BY DEF PopFrom
  <1>2. Slot(Cycle, turn, k) \in Priorities /\ q[Slot(Cycle, turn, k)] # <<>>
    BY <1>1 DEF Turns, NonEmpty, Available
  <1>3. queues' \in [Priorities -> Seq(Calls)]
    BY <1>1, <1>2
  <1>4. turn' \in 0..(Len(Cycle) - 1)
    BY <1>1, AdvanceType, PrioritiesAssumption DEF TypeOK
  <1> QED  BY <1>3, <1>4

\* The variables that a round of the dispatch loop changes
DispatchType == /\ queues \in [Priorities -> Seq(Calls)]
                /\ turn \in 0..(Len(Cycle) - 1)
                /\ paused \in BOOLEAN
                /\ waiting \in BOOLEAN
                /\ available \in Seq(Sessions)
                /\ hirer \in {"none", "waiting", "pinging"}
                /\ pinged \in SUBSET Sessions
                /\ hand \in SUBSET Calls

\* A request for an item, granted or not, keeps the types of what it changes.
LEMMA RequestType ==
    ASSUME TypeOK,
           NEW q \in [Priorities -> Seq(Calls)], NEW avail \in Seq(Sessions),
           Request(q, avail)
    PROVE  DispatchType'
  <1>1. CASE HasItem(q)
    <2>1. PICK c \in Calls : PopFrom(q, c) /\ hand' = {c}
      BY <1>1 DEF Request
    <2>2. HireFrom(avail) /\ waiting' = FALSE /\ paused' = paused
      BY <1>1 DEF Request
    <2> QED  BY <2>1, <2>2, PopFromType, HireFromType DEF DispatchType, TypeOK
  <1>2. CASE ~HasItem(q)
    <2>1. /\ waiting' = TRUE /\ queues' = q
          /\ turn' = turn /\ paused' = paused /\ hand' = hand
          /\ Offer(avail)
      BY <1>2 DEF Request
    <2> QED  BY <2>1, OfferType DEF DispatchType, TypeOK
  <1> QED  BY <1>1, <1>2

\* So does a push, whether or not a request waits for it.
LEMMA NotifyType ==
    ASSUME TypeOK,
           NEW q \in [Priorities -> Seq(Calls)], NEW avail \in Seq(Sessions),
           Notify(q, avail)
    PROVE  DispatchType'
  <1>1. CASE waiting
    BY <1>1, RequestType DEF Notify
  <1>2. CASE ~waiting
    <2>1. /\ waiting' = waiting /\ queues' = q
          /\ turn' = turn /\ paused' = paused /\ hand' = hand
          /\ Offer(avail)
      BY <1>2 DEF Notify
    <2> QED  BY <2>1, OfferType DEF DispatchType, TypeOK
  <1> QED  BY <1>1, <1>2 DEF TypeOK

\* The two ends at which a call enters its queue
LEMMA PushedType ==
    ASSUME TypeOK, NEW c \in Calls
    PROVE  /\ Pushed(PriorityOf[c], c) \in [Priorities -> Seq(Calls)]
           /\ PushedFront(PriorityOf[c], c) \in [Priorities -> Seq(Calls)]
  <1>1. PriorityOf[c] \in Priorities  BY ExecutorAssumption
  <1>2. /\ Append(queues[PriorityOf[c]], c) \in Seq(Calls)
        /\ <<c>> \o queues[PriorityOf[c]] \in Seq(Calls)
    BY <1>1 DEF TypeOK
  <1> QED  BY <1>1, <1>2 DEF TypeOK, Pushed, PushedFront

\* What becomes of the availability queue
LEMMA AvailableType ==
    ASSUME TypeOK, NEW s \in Sessions
    PROVE  /\ Added(s) \in Seq(Sessions)
           /\ LaidOff(s) \in Seq(Sessions)
           /\ Discarded(s) \in Seq(Sessions)
  <1>1. available \in Seq(Sessions) /\ Len(available) \in Nat
    BY DEF TypeOK
  <1>2. Added(s) \in Seq(Sessions)
    BY <1>1 DEF Added
  <1>3. ASSUME NEW i \in DOMAIN available
        PROVE  Without(i) \in Seq(Sessions)
    <2>1. DOMAIN available = 1..Len(available)  BY <1>1
    <2>2. Len(available) - 1 \in Nat  BY <1>1, <1>3, <2>1
    <2>3. ASSUME NEW j \in 1..(Len(available) - 1)
          PROVE  (IF j < i THEN available[j] ELSE available[j + 1]) \in Sessions
      <3>1. j \in 1..Len(available) /\ j + 1 \in 1..Len(available)
        BY <1>1, <2>2
      <3> QED  BY <3>1, <1>1, ElementOfSeq
    <2>4. Without(i) \in [1..(Len(available) - 1) -> Sessions]
      BY <2>3 DEF Without
    <2> QED  BY <2>2, <2>4, SeqDef
  <1>4. Discarded(s) \in Seq(Sessions)
    BY <1>1, <1>3 DEF Discarded
  <1> QED  BY <1>1, <1>2, <1>4 DEF LaidOff

\* Nothing is queued, and no worker known, at first.
LEMMA InitType == Init => TypeOK
  <1> SUFFICES ASSUME Init PROVE TypeOK  OBVIOUS
  <1>1. Len(Cycle) \in Nat \ {0}  BY PrioritiesAssumption
  <1>2. queues \in [Priorities -> Seq(Calls)] /\ available \in Seq(Sessions)
    BY EmptySeq DEF Init, WorklistInit, PoolInit
  <1>3. turn \in 0..(Len(Cycle) - 1)
    BY <1>1 DEF Init, WorklistInit
  <1>4. waiting \in BOOLEAN /\ paused \in BOOLEAN
    BY DEF Init, WorklistInit
  <1> QED  BY <1>2, <1>3, <1>4 DEF Init, PoolInit, TypeOK, Answers

\* No handler breaks a type: one step for each action.
LEMMA NextType == TypeOK /\ [Next]_vars => TypeOK'
  <1> SUFFICES ASSUME TypeOK, [Next]_vars PROVE TypeOK'  OBVIOUS
  <1>1. CASE Start
    BY <1>1, RequestType DEF Start, TypeOK, DispatchType, taskVars
  <1>2. CASE Dispatch
    BY <1>2, RequestType DEF Dispatch, TypeOK, DispatchType, taskVars
  <1>3. CASE Stop
    BY <1>3 DEF Stop, TypeOK, worklistVars, poolVars, taskVars
  <1>4. CASE Pause
    BY <1>4 DEF Pause, TogglePause, TypeOK, poolVars, taskVars
  <1>5. ASSUME NEW c \in Calls, Submit(c) PROVE TypeOK'
    <2>1. Pushed(PriorityOf[c], c) \in [Priorities -> Seq(Calls)]
      BY PushedType
    <2>2. Notify(Pushed(PriorityOf[c], c), available) /\ available \in Seq(Sessions)
      BY <1>5 DEF Submit, TypeOK
    <2>3. DispatchType'  BY <2>1, <2>2, NotifyType
    <2> QED  BY <1>5, <2>3 DEF Submit, TypeOK, DispatchType
  <1>6. ASSUME NEW c \in Calls, Refuse(c) PROVE TypeOK'
    BY <1>6 DEF Refuse, TypeOK, Answers, worklistVars, poolVars
  <1>7. ASSUME NEW s \in Sessions, Report(s) PROVE TypeOK'
    <2>1. Added(s) \in Seq(Sessions)  BY AvailableType
    <2>2. Offer(Added(s))  BY <1>7 DEF Report
    <2> QED  BY <1>7, <2>1, <2>2, OfferType DEF Report, TypeOK, worklistVars, taskVars
  <1>8. ASSUME NEW s \in Sessions, Hired(s) PROVE TypeOK'
    BY <1>8 DEF Hired, TypeOK, worklistVars, taskVars
  <1>9. ASSUME NEW s \in Sessions, PingFails(s) PROVE TypeOK'
    <2>1. HireFrom(available) /\ available \in Seq(Sessions)
      BY <1>9 DEF PingFails, TypeOK
    <2> QED  BY <1>9, <2>1, HireFromType DEF PingFails, Unregister, TypeOK, worklistVars, taskVars
  <1>10. ASSUME NEW s \in Sessions, Disconnect(s) PROVE TypeOK'
    <2>1. /\ registered' \in SUBSET Sessions /\ gone' \in SUBSET Sessions
          /\ phase' = phase /\ received' = received /\ scheduled' = scheduled
          /\ attempt' = attempt /\ answer' = answer
      BY <1>10 DEF Disconnect, Unregister, TypeOK
    <2>2. CASE LosePinged(s)
      <3>1. HireFrom(available) /\ available \in Seq(Sessions)
        BY <2>2 DEF LosePinged, TypeOK
      <3> QED  BY <2>1, <2>2, <3>1, HireFromType DEF LosePinged, TypeOK
    <2>3. ASSUME NEW c \in Calls, LoseExecuting(s, c) PROVE TypeOK'
      <3>1. PushedFront(PriorityOf[c], c) \in [Priorities -> Seq(Calls)]
        BY PushedType
      <3>2. /\ Notify(PushedFront(PriorityOf[c], c), available)
            /\ available \in Seq(Sessions)
        BY <2>3 DEF LoseExecuting, TypeOK
      <3>3. DispatchType'  BY <3>1, <3>2, NotifyType
      <3> QED  BY SMTT(30), <2>1, <2>3, <3>3 DEF LoseExecuting, TypeOK, DispatchType
    <2>4. CASE LoseIdle(s)
      BY <2>1, <2>4, AvailableType DEF LoseIdle, TypeOK
    <2> QED  BY <1>10, <2>2, <2>3, <2>4 DEF Disconnect
  <1>11. ASSUME NEW s \in Sessions, NEW c \in Calls, Execute(s, c) PROVE TypeOK'
    <2>1. /\ scheduled' \in SUBSET (Sessions \X Calls)
          /\ attempt' \in [Calls -> Nat]
          /\ executing' \in SUBSET (Sessions \X Calls)
          /\ answer' \in [Calls -> Answers]
      <3>1. scheduled' \in SUBSET (Sessions \X Calls)
        BY <1>11 DEF Execute, TypeOK
      <3>2. attempt' \in [Calls -> Nat]
        BY <1>11 DEF Execute, TypeOK
      <3>3. executing' \in SUBSET (Sessions \X Calls)
        BY <1>11 DEF Execute, TypeOK
      <3>4. answer' \in [Calls -> Answers]
        BY <1>11 DEF Execute, TypeOK, Answers
      <3> QED  BY <3>1, <3>2, <3>3, <3>4
    <2>2. /\ UNCHANGED <<queues, turn, paused, waiting>>
          /\ UNCHANGED <<registered, gone, available, hirer, pinged>>
          /\ UNCHANGED <<phase, received, hand, lost>>
      BY <1>11 DEF Execute, worklistVars, poolVars
    <2> QED  BY <2>1, <2>2 DEF TypeOK
  <1>12. ASSUME NEW s \in Sessions, NEW c \in Calls, NEW a \in Answers,
                Complete(s, c, a)
         PROVE  TypeOK'
    <2>1. LaidOff(s) \in Seq(Sessions)  BY AvailableType
    <2>2. Offer(LaidOff(s))  BY <1>12 DEF Complete
    <2> QED  BY <1>12, <2>1, <2>2, OfferType DEF Complete, TypeOK, worklistVars
  <1>13. ASSUME NEW s \in Sessions, NEW c \in Calls, Retry(s, c) PROVE TypeOK'
    <2>1. PushedFront(PriorityOf[c], c) \in [Priorities -> Seq(Calls)]
      BY PushedType
    <2>2. LaidOff(s) \in Seq(Sessions)  BY AvailableType
    <2>3. Notify(PushedFront(PriorityOf[c], c), LaidOff(s))  BY <1>13 DEF Retry
    <2>4. DispatchType'  BY <2>1, <2>2, <2>3, NotifyType
    <2> QED  BY <1>13, <2>4 DEF Retry, TypeOK, DispatchType, taskVars
  <1>14. CASE UNCHANGED vars
    BY <1>14 DEF vars, TypeOK, worklistVars, poolVars, taskVars
  <1>15. ASSUME NEW s \in Sessions, NEW c \in Calls,
                Answered(s, c) \/ Exhausted(s, c)
         PROVE  TypeOK'
    BY <1>12, <1>15 DEF Answered, Exhausted, Answers
  <1> QED
    BY <1>1, <1>2, <1>3, <1>4, <1>5, <1>6, <1>7, <1>8, <1>9, <1>10, <1>11, <1>13,
       <1>14, <1>15 DEF Next

\* In every behaviour of the executor its variables have their types.
THEOREM TypeCorrect == Spec => []TypeOK
  <1>1. Init => TypeOK  BY InitType
  <1>2. TypeOK /\ [Next]_vars => TypeOK'  BY NextType
  <1> QED  BY <1>1, <1>2, PTL DEF Spec

-----------------------------------------------------------------------------
(* The queues.  In(q, c) says that the call c is in the queues q; tidy      *)
(* queues hold every call once, under its priority.                         *)

In(q, c) == \E i \in DOMAIN q[PriorityOf[c]] : q[PriorityOf[c]][i] = c

Tidy(q) == \A p \in Priorities :
              /\ \A i, j \in DOMAIN q[p] : q[p][i] = q[p][j] => i = j
              /\ \A i \in DOMAIN q[p] : PriorityOf[q[p][i]] = p

\* A call that is not queued is added by a push, at either end.
LEMMA PushedTidy ==
    ASSUME TypeOK, Tidy(queues), NEW c \in Calls, ~In(queues, c),
           NEW q \in {Pushed(PriorityOf[c], c), PushedFront(PriorityOf[c], c)}
    PROVE  /\ Tidy(q)
           /\ \A d \in Calls : In(q, d) <=> In(queues, d) \/ d = c
  <1> DEFINE p == PriorityOf[c]
             s == queues[p]
  <1>1. p \in Priorities /\ s \in Seq(Calls) /\ Len(s) \in Nat
    BY ExecutorAssumption DEF TypeOK
  <1>2. PICK n \in {0, 1} :
          /\ q = [queues EXCEPT ![p] = q[p]]
          /\ DOMAIN q[p] = 1..(Len(s) + 1)
          /\ q[p] \in Seq(Calls)
          /\ \A i \in 1..Len(s) : q[p][i + n] = s[i]
          /\ q[p][IF n = 0 THEN Len(s) + 1 ELSE 1] = c
    <2>1. CASE q = Pushed(p, c)
      <3>1. q[p] = Append(s, c) /\ q = [queues EXCEPT ![p] = q[p]]
        BY <1>1, <2>1 DEF Pushed, TypeOK
      <3>2. /\ DOMAIN q[p] = 1..(Len(s) + 1)
            /\ q[p] \in Seq(Calls)
            /\ \A i \in 1..Len(s) : q[p][i] = s[i]
            /\ q[p][Len(s) + 1] = c
        BY <1>1, <3>1
      <3>3. WITNESS 0 \in {0, 1}
      <3> QED  BY <3>1, <3>2
    <2>2. CASE q = PushedFront(p, c)
      <3>1. q[p] = <<c>> \o s /\ q = [queues EXCEPT ![p] = q[p]]
        BY <1>1, <2>2 DEF PushedFront, TypeOK
      <3>2. /\ DOMAIN q[p] = 1..(Len(s) + 1)
            /\ q[p] \in Seq(Calls)
            /\ \A i \in 1..Len(s) : q[p][i + 1] = s[i]
            /\ q[p][1] = c
        BY <1>1, <3>1
      <3>3. WITNESS 1 \in {0, 1}
      <3> QED  BY <3>1, <3>2
    <2> QED  BY <2>1, <2>2
  <1> DEFINE pos == IF n = 0 THEN Len(s) + 1 ELSE 1
  <1>3. ASSUME NEW j \in DOMAIN q[p], j # pos
        PROVE  j - n \in 1..Len(s) /\ q[p][j] = s[j - n]
    BY <1>1, <1>2, <1>3
  <1>4. \A i \in 1..Len(s) : s[i] # c /\ PriorityOf[s[i]] = p
    BY <1>1 DEF In, Tidy
  <1>5. \A r \in Priorities : r # p => q[r] = queues[r]
    BY <1>1, <1>2 DEF TypeOK
  <1>6. pos \in DOMAIN q[p] /\ q[p][pos] = c
    BY <1>1, <1>2
  <1>7. ASSUME NEW i \in DOMAIN q[p], NEW j \in DOMAIN q[p], q[p][i] = q[p][j]
        PROVE  i = j
    <2>1. CASE i = pos \/ j = pos
      BY <1>3, <1>4, <1>6, <1>7, <2>1
    <2>2. CASE i # pos /\ j # pos
      <3>1. i - n \in 1..Len(s) /\ j - n \in 1..Len(s) /\ s[i - n] = s[j - n]
        BY <1>3, <1>7, <2>2
      <3>2. i - n = j - n  BY <1>1, <3>1 DEF Tidy
      <3> QED  BY <3>2, <1>1, <1>2
    <2> QED  BY <2>1, <2>2
  <1>8. ASSUME NEW i \in DOMAIN q[p] PROVE PriorityOf[q[p][i]] = p
    BY <1>3, <1>4, <1>6
  <1>9. Tidy(q)
    BY <1>5, <1>7, <1>8 DEF Tidy
  <1>10. ASSUME NEW d \in Calls PROVE In(q, d) <=> In(queues, d) \/ d = c
    <2>1. PriorityOf[d] \in Priorities  BY ExecutorAssumption
    <2>2. CASE PriorityOf[d] # p
      BY <1>5, <2>1, <2>2 DEF In
    <2>3. CASE PriorityOf[d] = p
      <3>1. ASSUME NEW i \in 1..Len(s) PROVE i + n \in DOMAIN q[p] /\ q[p][i + n] = s[i]
        BY <1>1, <1>2
      <3>2. In(queues, d) => In(q, d)  BY <1>1, <2>3, <3>1 DEF In
      <3>3. d = c => In(q, d)  BY <1>6, <2>3 DEF In
      <3>4. In(q, d) => In(queues, d) \/ d = c  BY <1>1, <1>3, <1>6, <2>3 DEF In
      <3> QED  BY <3>2, <3>3, <3>4
    <2> QED  BY <2>2, <2>3
  <1> QED  BY <1>9, <1>10

\* A pop takes one call from tidy queues.
LEMMA PopFromTidy ==
    ASSUME TypeOK, NEW q \in [Priorities -> Seq(Calls)], Tidy(q),
           NEW c \in Calls, PopFrom(q, c)
    PROVE  /\ Tidy(queues')
           /\ In(q, c)
           /\ \A d \in Calls : In(queues', d) <=> In(q, d) /\ d # c
  <1>1. PICK k \in 1..Len(Cycle) :
          LET p == Slot(Cycle, turn, k)
          IN  /\ Turns(Cycle, turn, NonEmpty(q), k)
              /\ c = Head(q[p])
              /\ queues' = [q EXCEPT ![p] = Tail(@)]
    BY DEF PopFrom
  <1> DEFINE p == Slot(Cycle, turn, k)
             s == q[p]
  <1>2. p \in Priorities /\ s # <<>> /\ s \in Seq(Calls)
    BY <1>1 DEF Turns, NonEmpty, Available
  <1> HIDE DEF p
  <1>3. /\ Len(s) \in Nat \ {0}
        /\ s[1] = c
        /\ queues'[p] = Tail(s)
        /\ \A r \in Priorities : r # p => queues'[r] = q[r]
    BY <1>1, <1>2 DEF p
  <1>4. /\ DOMAIN queues'[p] = 1..(Len(s) - 1)
        /\ \A i \in 1..(Len(s) - 1) : queues'[p][i] = s[i + 1]
    BY <1>2, <1>3
  <1>5. PriorityOf[c] = p
    BY <1>2, <1>3 DEF Tidy
  <1>6. Tidy(queues')
    <2>1. ASSUME NEW i \in DOMAIN queues'[p], NEW j \in DOMAIN queues'[p],
                 queues'[p][i] = queues'[p][j]
          PROVE  i = j
      <3>1. i + 1 \in DOMAIN s /\ j + 1 \in DOMAIN s /\ s[i + 1] = s[j + 1]
        BY <1>2, <1>3, <1>4, <2>1
      <3>2. i + 1 = j + 1  BY <1>2, <3>1 DEF Tidy
      <3> QED  BY <3>2, <1>3, <1>4
    <2>2. ASSUME NEW i \in DOMAIN queues'[p] PROVE PriorityOf[queues'[p][i]] = p
      <3>1. i + 1 \in DOMAIN s /\ queues'[p][i] = s[i + 1]  BY <1>2, <1>3, <1>4
      <3>2. PriorityOf[s[i + 1]] = p  BY <1>2, <3>1 DEF Tidy
      <3> QED  BY <3>1, <3>2
    <2> QED  BY <1>3, <2>1, <2>2 DEF Tidy
  <1>7. In(q, c)
    BY <1>2, <1>3, <1>5 DEF In
  <1>8. ASSUME NEW d \in Calls PROVE In(queues', d) <=> In(q, d) /\ d # c
    <2>1. PriorityOf[d] \in Priorities  BY ExecutorAssumption
    <2>2. CASE PriorityOf[d] # p
      BY <1>3, <1>5, <2>1, <2>2 DEF In
    <2>3. CASE PriorityOf[d] = p
      <3>1. In(queues', d) => In(q, d)
        <4>1. ASSUME NEW i \in DOMAIN queues'[p], queues'[p][i] = d
              PROVE  i + 1 \in DOMAIN s /\ s[i + 1] = d
          BY <1>2, <1>3, <1>4, <4>1
        <4> QED  BY <2>3, <4>1 DEF In
      <3>2. In(queues', d) => d # c
        <4>1. ASSUME NEW i \in DOMAIN queues'[p], queues'[p][i] = c
              PROVE  FALSE
          <5>1. i + 1 \in DOMAIN s /\ 1 \in DOMAIN s /\ s[i + 1] = s[1]
            BY <1>2, <1>3, <1>4, <4>1
          <5>2. i + 1 = 1  BY <1>2, <5>1 DEF Tidy
          <5> QED  BY <5>2, <1>3, <1>4
        <4> QED  BY <2>3, <4>1 DEF In
      <3>3. In(q, d) /\ d # c => In(queues', d)
        <4>1. ASSUME NEW i \in DOMAIN s, s[i] = d, d # c
              PROVE  i - 1 \in DOMAIN queues'[p] /\ queues'[p][i - 1] = d
          BY <1>2, <1>3, <1>4, <4>1
        <4> QED  BY <2>3, <4>1 DEF In
      <3> QED  BY <3>1, <3>2, <3>3
    <2> QED  BY <2>2, <2>3
  <1> QED  BY <1>6, <1>7, <1>8

-----------------------------------------------------------------------------
(* The dispatch loop.  A call waits while it is queued or in the hand of    *)
(* the loop, and works while it is scheduled or executing.                  *)

Waits(d) == In(queues, d) \/ d \in hand

Apart == /\ Tidy(queues)
         /\ \A d \in Calls : ~(In(queues, d) /\ d \in hand)
         /\ \A c, d \in hand : c = d

LoopInv == DispatchInStep /\ (phase = "created" => hirer = "none" /\ ~waiting)

\* A hire ends with a ping, or with a wait for a session when there is none.
LEMMA HireFromLoop ==
    ASSUME NEW avail \in Seq(Sessions), HireFrom(avail)
    PROVE  /\ hirer' # "none"
           /\ hirer' = "pinging" <=> pinged' # {}
           /\ hirer' = "waiting" => available' = <<>>
  BY DEF HireFrom

\* A session that is offered neither starts nor ends a hire.
LEMMA OfferLoop ==
    ASSUME TypeOK, LoopInv, NEW avail \in Seq(Sessions), Offer(avail)
    PROVE  /\ hirer' # "none" <=> hirer # "none"
           /\ hirer' = "pinging" <=> pinged' # {}
           /\ hirer' = "waiting" => available' = <<>>
  <1>1. CASE hirer = "waiting"
    BY <1>1, HireFromLoop DEF Offer
  <1>2. CASE hirer # "waiting"
    BY <1>2 DEF Offer, LoopInv, DispatchInStep
  <1> QED  BY <1>1, <1>2

\* A request moves at most one call from the queues to the hand of the loop, and
\* then the loop hires; no call gets lost.
LEMMA RequestKeeps ==
    ASSUME TypeOK, LoopInv, hirer = "none",
           NEW q \in [Priorities -> Seq(Calls)], Tidy(q),
           NEW avail \in Seq(Sessions), Request(q, avail)
    PROVE  /\ Apart'
           /\ DispatchInStep'
           /\ \A d \in Calls : Waits(d)' <=> In(q, d)
  <1>1. hand = {} /\ pinged = {}
    BY DEF LoopInv, DispatchInStep
  <1>2. CASE HasItem(q)
    <2>1. PICK c \in Calls : PopFrom(q, c) /\ hand' = {c}
      BY <1>2 DEF Request
    <2>2. waiting' = FALSE /\ HireFrom(avail)
      BY <1>2 DEF Request
    <2>3. /\ Tidy(queues')
          /\ In(q, c)
          /\ \A d \in Calls : In(queues', d) <=> In(q, d) /\ d # c
      BY <2>1, PopFromTidy
    <2>4. Apart'  BY <2>1, <2>3 DEF Apart, Tidy, In
    <2>5. DispatchInStep'  BY <2>1, <2>2, HireFromLoop DEF DispatchInStep
    <2>6. ASSUME NEW d \in Calls PROVE Waits(d)' <=> In(q, d)
      BY <2>1, <2>3 DEF Waits, In
    <2> QED  BY <2>4, <2>5, <2>6
  <1>3. CASE ~HasItem(q)
    <2>1. queues' = q /\ hand' = {} /\ waiting' = TRUE /\ Offer(avail)
      BY <1>1, <1>3 DEF Request
    <2>2. Apart'  BY <2>1 DEF Apart, Tidy, In
    <2>3. DispatchInStep'  BY <2>1, OfferLoop DEF DispatchInStep
    <2>4. ASSUME NEW d \in Calls PROVE Waits(d)' <=> In(q, d)
      BY <2>1 DEF Waits, In
    <2> QED  BY <2>2, <2>3, <2>4
  <1> QED  BY <1>2, <1>3

\* A push that wakes the dispatch loop loses no call either.
LEMMA NotifyKeeps ==
    ASSUME TypeOK, LoopInv, Apart,
           NEW q \in [Priorities -> Seq(Calls)], Tidy(q),
           \A d \in hand : ~In(q, d),
           NEW avail \in Seq(Sessions), Notify(q, avail)
    PROVE  /\ Apart'
           /\ DispatchInStep'
           /\ phase = "created" => hirer' = "none" /\ ~waiting'
           /\ \A d \in Calls : Waits(d)' <=> In(q, d) \/ d \in hand
  <1>1. CASE waiting
    <2>1. hirer = "none" /\ hand = {}
      BY <1>1 DEF LoopInv, DispatchInStep
    <2>2. Request(q, avail) /\ phase # "created"  BY <1>1 DEF Notify, LoopInv
    <2> QED  BY <2>1, <2>2, RequestKeeps
  <1>2. CASE ~waiting
    <2>1. queues' = q /\ hand' = hand /\ waiting' = waiting /\ Offer(avail)
      BY <1>2 DEF Notify
    <2>2. Apart'  BY <2>1 DEF Apart, Tidy, In
    <2>3. DispatchInStep'
      BY <1>2, <2>1, OfferLoop DEF DispatchInStep, LoopInv
    <2>4. ASSUME NEW d \in Calls PROVE Waits(d)' <=> In(q, d) \/ d \in hand
      BY <2>1 DEF Waits, In
    <2>5. phase = "created" => hirer' = "none" /\ ~waiting'
      BY <1>2, <2>1, OfferLoop DEF LoopInv
    <2> QED  BY <2>2, <2>3, <2>4, <2>5
  <1> QED  BY <1>1, <1>2 DEF TypeOK

-----------------------------------------------------------------------------
(* The inductive invariant: a call that is received and not answered waits  *)
(* or works, not both, and works for one session at a time.                 *)

Works(d) == \E s \in Sessions : <<s, d>> \in scheduled \cup executing

WorkApart ==
    /\ scheduled \cap executing = {}
    /\ \A d \in Calls, s, t \in Sessions :
          <<s, d>> \in scheduled \cup executing /\ <<t, d>> \in scheduled \cup executing
             => s = t

Kept == \A d \in Calls :
           /\ ~(Waits(d) /\ Works(d))
           /\ Waits(d) \/ Works(d) <=> d \in received /\ answer[d] = "none"

IInv == TypeOK /\ LoopInv /\ Apart /\ WorkApart /\ Kept

\* With no call and no worker everything is in its place.
LEMMA InitIInv == Init => IInv
  <1> SUFFICES ASSUME Init PROVE IInv  OBVIOUS
  <1>1. TypeOK  BY InitType
  <1>2. \A p \in Priorities : queues[p] = <<>>
    BY DEF Init, WorklistInit
  <1>3. \A p \in Priorities : DOMAIN queues[p] = {}
    BY <1>2
  <1>4. LoopInv
    BY DEF Init, WorklistInit, PoolInit, LoopInv, DispatchInStep
  <1>5. Apart /\ \A d \in Calls : ~Waits(d)
    BY <1>3, ExecutorAssumption DEF Init, Apart, Tidy, Waits, In
  <1>6. WorkApart /\ \A d \in Calls : ~Works(d)
    BY DEF Init, WorkApart, Works
  <1>7. Kept
    BY <1>5, <1>6 DEF Init, Kept
  <1> QED  BY <1>1, <1>4, <1>5, <1>6, <1>7 DEF IInv

\* A step that neither moves a call between waiting and working nor accepts or
\* answers one
LEMMA SamePlaces ==
    ASSUME IInv, UNCHANGED <<scheduled, executing, received, answer>>,
           \A d \in Calls : Waits(d)' <=> Waits(d)
    PROVE  WorkApart' /\ Kept'
  BY DEF IInv, WorkApart, Kept, Works

\* A step that leaves the queues and the hand of the loop alone
LEMMA SameQueues ==
    ASSUME IInv, UNCHANGED <<queues, hand>>
    PROVE  Apart' /\ \A d \in Calls : Waits(d)' <=> Waits(d)
  BY DEF IInv, Apart, Tidy, Waits, In

\* A working call goes back to the front of its queue, and the loop is notified.
LEMMA WorkReturns ==
    ASSUME IInv, TypeOK', NEW s \in Sessions, NEW c \in Calls, <<s, c>> \in executing,
           executing' = executing \ {<<s, c>>},
           UNCHANGED <<phase, scheduled, received, answer>>,
           NEW avail \in Seq(Sessions),
           Notify(PushedFront(PriorityOf[c], c), avail)
    PROVE  IInv'
  <1> DEFINE q == PushedFront(PriorityOf[c], c)
  <1>1. Works(c) /\ ~Waits(c)
    BY DEF IInv, Works, Kept
  <1>2. /\ Tidy(q)
        /\ \A d \in Calls : In(q, d) <=> In(queues, d) \/ d = c
        /\ q \in [Priorities -> Seq(Calls)]
    BY <1>1, PushedTidy, PushedType DEF IInv, Apart, Waits
  <1>3. \A d \in hand : ~In(q, d)
    BY <1>1, <1>2 DEF IInv, TypeOK, Apart, Waits
  <1>4. /\ Apart'
        /\ DispatchInStep'
        /\ phase = "created" => hirer' = "none" /\ ~waiting'
        /\ \A d \in Calls : Waits(d)' <=> In(q, d) \/ d \in hand
    BY <1>2, <1>3, NotifyKeeps DEF IInv
  <1>5. \A d \in Calls : Waits(d)' <=> Waits(d) \/ d = c
    BY <1>2, <1>4 DEF Waits
  <1>6. WorkApart'
    BY DEF IInv, WorkApart
  <1>7. \A d \in Calls : Works(d)' <=> Works(d) /\ d # c
    BY DEF IInv, Works, WorkApart, TypeOK
  <1>8. Kept'
    BY <1>1, <1>5, <1>7 DEF IInv, Kept
  <1>9. LoopInv'
    BY <1>4 DEF LoopInv
  <1> QED  BY <1>4, <1>6, <1>8, <1>9 DEF IInv

\* Every handler keeps the inductive invariant: one step for each action.
LEMMA NextIInv == IInv /\ [Next]_vars => IInv'
  <1> SUFFICES ASSUME IInv, [Next]_vars PROVE IInv'  OBVIOUS
  <1>t. TypeOK'  BY NextType DEF IInv
  <1>a. available \in Seq(Sessions)  BY DEF IInv, TypeOK
  <1>b. queues \in [Priorities -> Seq(Calls)] /\ Tidy(queues)
    BY DEF IInv, TypeOK, Apart
  <1>r. ASSUME Request(queues, available), hirer = "none", phase' # "created",
               UNCHANGED <<scheduled, executing, received, answer>>
        PROVE  IInv'
    <2>1. Apart' /\ DispatchInStep' /\ \A d \in Calls : Waits(d)' <=> In(queues, d)
      BY <1>a, <1>b, <1>r, RequestKeeps DEF IInv
    <2>2. hand = {}
      BY <1>r DEF IInv, LoopInv, DispatchInStep
    <2>3. WorkApart' /\ Kept'
      BY <1>r, <2>1, <2>2, SamePlaces DEF Waits
    <2> QED  BY <1>r, <1>t, <2>1, <2>3 DEF IInv, LoopInv
  <1>q. ASSUME UNCHANGED <<queues, hand, scheduled, executing, received, answer>>,
               LoopInv'
        PROVE  IInv'
    BY <1>q, <1>t, SameQueues, SamePlaces DEF IInv
  <1>1. CASE Start
    <2>1. Request(queues, available) /\ phase' = "running" /\ hirer = "none"
      BY <1>1 DEF Start, IInv, LoopInv
    <2> QED  BY <1>r, <1>1, <2>1 DEF Start, taskVars
  <1>2. CASE Dispatch
    BY <1>r, <1>2 DEF Dispatch, taskVars
  <1>3. CASE Stop
    <2>1. LoopInv'
      BY <1>3 DEF Stop, IInv, LoopInv, DispatchInStep, worklistVars, poolVars
    <2> QED  BY <1>3, <1>q, <2>1 DEF Stop, worklistVars, taskVars
  <1>4. CASE Pause
    <2>1. LoopInv'
      BY <1>4 DEF Pause, TogglePause, IInv, LoopInv, DispatchInStep, poolVars
    <2> QED  BY <1>4, <1>q, <2>1 DEF Pause, TogglePause, taskVars
  <1>5. ASSUME NEW c \in Calls, Submit(c) PROVE IInv'
    <2> DEFINE q == Pushed(PriorityOf[c], c)
    <2>1. /\ c \notin received /\ answer[c] = "none"
          /\ received' = received \cup {c}
          /\ UNCHANGED <<scheduled, executing, answer, phase>>
          /\ Notify(q, available)
      BY <1>5 DEF Submit, Fresh
    <2>2. ~Waits(c) /\ ~Works(c)
      BY <2>1 DEF IInv, Kept
    <2>3. /\ Tidy(q)
          /\ \A d \in Calls : In(q, d) <=> In(queues, d) \/ d = c
          /\ q \in [Priorities -> Seq(Calls)]
      BY <2>2, PushedTidy, PushedType DEF IInv, Apart, Waits
    <2>4. \A d \in hand : ~In(q, d)
      BY <2>2, <2>3 DEF IInv, TypeOK, Apart, Waits
    <2>5. /\ Apart'
          /\ DispatchInStep'
          /\ phase = "created" => hirer' = "none" /\ ~waiting'
          /\ \A d \in Calls : Waits(d)' <=> In(q, d) \/ d \in hand
      BY <1>a, <2>1, <2>3, <2>4, NotifyKeeps DEF IInv
    <2>6. \A d \in Calls : Waits(d)' <=> Waits(d) \/ d = c
      BY <2>3, <2>5 DEF Waits
    <2>7. WorkApart' /\ \A d \in Calls : Works(d)' <=> Works(d)
      BY <2>1 DEF IInv, WorkApart, Works
    <2>8. Kept'
      BY <2>1, <2>2, <2>6, <2>7 DEF IInv, Kept
    <2> QED  BY <1>t, <2>1, <2>5, <2>7, <2>8 DEF IInv, LoopInv
  <1>6. ASSUME NEW c \in Calls, Refuse(c) PROVE IInv'
    <2>1. /\ c \notin received /\ answer' = [answer EXCEPT ![c] = "not ready"]
          /\ UNCHANGED <<queues, hand, scheduled, executing, received>>
      BY <1>6 DEF Refuse, Fresh, worklistVars
    <2>2. LoopInv'
      BY <1>6 DEF Refuse, IInv, LoopInv, DispatchInStep, worklistVars, poolVars
    <2>3. Apart' /\ \A d \in Calls : Waits(d)' <=> Waits(d)
      BY <2>1, SameQueues
    <2>4. WorkApart' /\ \A d \in Calls : Works(d)' <=> Works(d)
      BY <2>1 DEF IInv, WorkApart, Works
    <2>5. \A d \in Calls : d # c => answer'[d] = answer[d]
      BY <2>1 DEF IInv, TypeOK
    <2>6. Kept'
      BY <2>1, <2>3, <2>4, <2>5 DEF IInv, Kept
    <2> QED  BY <1>t, <2>2, <2>3, <2>4, <2>6 DEF IInv
  <1>7. ASSUME NEW s \in Sessions, Report(s) PROVE IInv'
    <2>1. Offer(Added(s)) /\ Added(s) \in Seq(Sessions)
      BY <1>7, AvailableType DEF Report, IInv
    <2>2. LoopInv'
      BY <1>7, <2>1, OfferLoop DEF Report, IInv, LoopInv, DispatchInStep, worklistVars
    <2> QED  BY <1>7, <1>q, <2>2 DEF Report, worklistVars, taskVars
  <1>8. ASSUME NEW s \in Sessions, Hired(s) PROVE IInv'
    <2>1. /\ scheduled' = scheduled \cup {<<s, c>> : c \in hand}
          /\ hirer' = "none" /\ pinged' = {} /\ hand' = {}
          /\ UNCHANGED <<queues, waiting, phase, executing, received, answer>>
      BY <1>8 DEF Hired, worklistVars, taskVars
    <2>2. LoopInv'
      BY <2>1 DEF IInv, LoopInv, DispatchInStep
    <2>3. Apart'
      BY <2>1 DEF IInv, Apart, Tidy, In
    <2>4. hand \in SUBSET Calls /\ \A c \in hand : ~Works(c)
      BY DEF IInv, TypeOK, Kept, Waits
    <2>5. WorkApart'
      BY <2>1, <2>4 DEF IInv, Apart, WorkApart, Works
    <2>6. ASSUME NEW d \in Calls
          PROVE  /\ Waits(d)' <=> In(queues, d)
                 /\ Works(d)' <=> Works(d) \/ d \in hand
      <3>1. Waits(d)' <=> In(queues, d)  BY <2>1 DEF Waits, In
      <3>2. Works(d)' <=> Works(d) \/ d \in hand  BY <2>1 DEF Works
      <3> QED  BY <3>1, <3>2
    <2>7. Kept'
      BY <2>1, <2>4, <2>6 DEF IInv, Kept, Waits, Apart
    <2> QED  BY <1>t, <2>2, <2>3, <2>5, <2>7 DEF IInv
  <1>h. ASSUME NEW s \in pinged, HireFrom(available),
               UNCHANGED <<queues, hand, scheduled, executing, received, answer,
                           waiting, phase>>
        PROVE  IInv'
    <2>1. hirer = "pinging"  BY <1>h DEF IInv, LoopInv, DispatchInStep
    <2>2. LoopInv'
      BY <1>a, <1>h, <2>1, HireFromLoop DEF IInv, LoopInv, DispatchInStep
    <2> QED  BY <1>h, <1>q, <2>2
  <1>9. ASSUME NEW s \in Sessions, PingFails(s) PROVE IInv'
    BY <1>9, <1>h DEF PingFails, worklistVars, taskVars
  <1>10. ASSUME NEW s \in Sessions, Disconnect(s) PROVE IInv'
    <2>1. UNCHANGED <<phase, received, scheduled, attempt, answer>>
      BY <1>10 DEF Disconnect
    <2>2. CASE LosePinged(s)
      BY <1>h, <2>1, <2>2 DEF LosePinged
    <2>3. ASSUME NEW c \in Calls, LoseExecuting(s, c) PROVE IInv'
      BY <1>a, <1>t, <2>1, <2>3, WorkReturns DEF LoseExecuting
    <2>4. CASE LoseIdle(s)
      <3>1. available = <<>> => available' = <<>>
        BY <2>4, <1>a DEF LoseIdle, Discarded
      <3>2. LoopInv'
        BY <2>1, <2>4, <3>1 DEF LoseIdle, IInv, LoopInv, DispatchInStep
      <3> QED  BY <1>q, <2>1, <2>4, <3>2 DEF LoseIdle
    <2> QED  BY <1>10, <2>2, <2>3, <2>4 DEF Disconnect
  <1>11. ASSUME NEW s \in Sessions, NEW c \in Calls, Execute(s, c) PROVE IInv'
    <2>1. /\ <<s, c>> \in scheduled
          /\ scheduled' = scheduled \ {<<s, c>>}
          /\ UNCHANGED <<queues, hand, received>>
      BY <1>11 DEF Execute, worklistVars
    <2>2. LoopInv'
      BY <1>11 DEF Execute, IInv, LoopInv, DispatchInStep, worklistVars, poolVars
    <2>3. Apart' /\ \A d \in Calls : Waits(d)' <=> Waits(d)
      BY <2>1, SameQueues
    <2>4. CASE /\ executing' = executing \cup {<<s, c>>}
               /\ answer' = answer
      <3>1. WorkApart'
        BY <2>1, <2>4 DEF IInv, WorkApart
      <3>2. \A d \in Calls : Works(d)' <=> Works(d)
        BY <2>1, <2>4 DEF Works
      <3> QED  BY <1>t, <2>1, <2>2, <2>3, <2>4, <3>1, <3>2 DEF IInv, Kept
    <2>5. CASE /\ executing' = executing
               /\ answer' = [answer EXCEPT ![c] = "done"]
      <3>1. WorkApart'
        BY <2>1, <2>5 DEF IInv, WorkApart
      <3>2. \A d \in Calls : Works(d)' <=> Works(d) /\ d # c
        BY <2>1, <2>5 DEF IInv, WorkApart, Works
      <3>3. Works(c) /\ ~Waits(c)  BY <2>1 DEF IInv, Works, Kept
      <3>4. answer'[c] = "done" /\ \A d \in Calls : d # c => answer'[d] = answer[d]
        BY <2>5 DEF IInv, TypeOK
      <3>5. Kept'
        BY <2>1, <2>3, <3>2, <3>3, <3>4 DEF IInv, Kept
      <3> QED  BY <1>t, <2>2, <2>3, <3>1, <3>5 DEF IInv
    <2> QED  BY <1>11, <2>4, <2>5 DEF Execute
  <1>12. ASSUME NEW s \in Sessions, NEW c \in Calls, NEW a \in Answers \ {"none"},
                Complete(s, c, a)
         PROVE  IInv'
    <2>1. /\ <<s, c>> \in executing
          /\ executing' = executing \ {<<s, c>>}
          /\ answer' = [answer EXCEPT ![c] = a]
          /\ UNCHANGED <<queues, hand, received, scheduled, waiting, phase>>
          /\ Offer(LaidOff(s))
      BY <1>12 DEF Complete, worklistVars
    <2>2. LaidOff(s) \in Seq(Sessions)  BY AvailableType DEF IInv
    <2>3. LoopInv'
      BY <2>1, <2>2, OfferLoop DEF IInv, LoopInv, DispatchInStep
    <2>4. Apart' /\ \A d \in Calls : Waits(d)' <=> Waits(d)
      BY <2>1, SameQueues
    <2>5. WorkApart'
      BY <2>1 DEF IInv, WorkApart
    <2>6. \A d \in Calls : Works(d)' <=> Works(d) /\ d # c
      BY <2>1 DEF IInv, WorkApart, Works
    <2>7. Works(c) /\ ~Waits(c)  BY <2>1 DEF IInv, Works, Kept
    <2>8. answer'[c] = a /\ \A d \in Calls : d # c => answer'[d] = answer[d]
      BY <2>1 DEF IInv, TypeOK
    <2>9. Kept'
      BY <2>1, <2>4, <2>6, <2>7, <2>8 DEF IInv, Kept
    <2> QED  BY <1>t, <2>3, <2>4, <2>5, <2>9 DEF IInv
  <1>13. ASSUME NEW s \in Sessions, NEW c \in Calls, Retry(s, c) PROVE IInv'
    <2>1. LaidOff(s) \in Seq(Sessions)  BY AvailableType DEF IInv
    <2> QED  BY <1>13, <1>t, <2>1, WorkReturns DEF Retry, taskVars
  <1>14. CASE UNCHANGED vars
    <2>1. LoopInv'
      BY <1>14 DEF vars, IInv, LoopInv, DispatchInStep, worklistVars, poolVars
    <2> QED  BY <1>14, <1>q, <2>1 DEF vars, worklistVars, taskVars
  <1>15. ASSUME NEW s \in Sessions, NEW c \in Calls,
                Answered(s, c) \/ Exhausted(s, c)
         PROVE  IInv'
    BY <1>12, <1>15 DEF Answered, Exhausted, Answers
  <1> QED
    BY <1>1, <1>2, <1>3, <1>4, <1>5, <1>6, <1>7, <1>8, <1>9, <1>10, <1>11, <1>13,
       <1>14, <1>15 DEF Next

\* The inductive invariant holds throughout every behaviour of the executor.
LEMMA IInvHolds == Spec => []IInv
  <1>1. Init => IInv  BY InitIInv
  <1>2. IInv /\ [Next]_vars => IInv'  BY NextIInv
  <1> QED  BY <1>1, <1>2, PTL DEF Spec

-----------------------------------------------------------------------------
(* What follows from it                                                    *)

\* No call is lost: at every moment, whatever workers come, go and fail, the calls
\* that are queued, in the hand of the dispatch loop, scheduled or executing are
\* exactly those that were accepted and have no answer.
THEOREM CallsAreNotLost == Spec => []NothingLost
  <1>1. IInv => NothingLost
    BY DEF IInv, Kept, NothingLost, Pending, Queued, InHand, Scheduled, Executing,
           Waits, Works, In
  <1> QED  BY <1>1, IInvHolds, PTL

\* A call is in one place, once: never queued twice, nor queued while it executes,
\* nor executed by two workers.
THEOREM CallsAreInOnePlace == Spec => []OnePlace
  <1>1. IInv => OnePlace
    <2> SUFFICES ASSUME IInv PROVE OnePlace  OBVIOUS
    <2>1. \A p \in Priorities :
             /\ \A i, j \in DOMAIN queues[p] : queues[p][i] = queues[p][j] => i = j
             /\ \A i \in DOMAIN queues[p] : PriorityOf[queues[p][i]] = p
      BY DEF IInv, Apart, Tidy
    <2>2. ASSUME NEW c \in Calls
          PROVE  /\ Queued(c) => ~InHand(c) /\ ~Scheduled(c) /\ ~Executing(c)
                 /\ InHand(c) => ~Scheduled(c) /\ ~Executing(c)
                 /\ Scheduled(c) => ~Executing(c)
      <3>1. /\ Queued(c) <=> In(queues, c)
            /\ InHand(c) <=> c \in hand
        BY DEF Queued, InHand, In
      <3>2. Scheduled(c) \/ Executing(c) => Works(c)
        BY DEF Scheduled, Executing, Works
      <3>3. Scheduled(c) => ~Executing(c)
        BY DEF IInv, WorkApart, Scheduled, Executing
      <3>4. ~(Waits(c) /\ Works(c)) /\ ~(In(queues, c) /\ c \in hand)
        BY DEF IInv, Kept, Apart
      <3> QED  BY <3>1, <3>2, <3>3, <3>4 DEF Waits
    <2>3. ASSUME NEW x \in scheduled \cup executing, NEW y \in scheduled \cup executing,
                 x[2] = y[2]
          PROVE  x = y
      <3>1. PICK s \in Sessions, t \in Sessions, c \in Calls :
              x = <<s, c>> /\ y = <<t, c>>
        BY <2>3 DEF IInv, TypeOK
      <3> QED  BY <3>1 DEF IInv, WorkApart
    <2>4. \A c, d \in hand : c = d
      BY DEF IInv, Apart
    <2> QED  BY <2>1, <2>2, <2>3, <2>4 DEF OnePlace
  <1> QED  BY <1>1, IInvHolds, PTL

\* The dispatch loop and `hire' are in step: a worker is asked for exactly while
\* there is a call to run on it.
THEOREM LoopStaysInStep == Spec => []DispatchInStep
  <1>1. IInv => DispatchInStep  BY DEF IInv, LoopInv
  <1> QED  BY <1>1, IInvHolds, PTL

\* The deferred of a call fires once: no step changes an answer that was given, or
\* attempts the call again.
THEOREM AnswersAreFinal == Spec => AnswerIsFinal
  <1> DEFINE Final == \A c \in Calls : answer[c] # "none" =>
                         answer'[c] = answer[c] /\ attempt'[c] = attempt[c]
  <1>1. IInv /\ [Next]_vars => Final
    <2> SUFFICES ASSUME IInv, [Next]_vars PROVE Final  OBVIOUS
    <2>k. ASSUME UNCHANGED <<answer, attempt>> PROVE Final
      BY <2>k
    <2>w. \A c \in Calls : Works(c) => answer[c] = "none"
      BY DEF IInv, Kept
    <2>1. CASE Start \/ Dispatch \/ Stop \/ Pause \/ UNCHANGED vars
      BY <2>1, <2>k DEF Start, Dispatch, Stop, Pause, vars, taskVars
    <2>2. ASSUME NEW c \in Calls, Submit(c) PROVE Final
      BY <2>2, <2>k DEF Submit
    <2>3. ASSUME NEW c \in Calls, Refuse(c) PROVE Final
      BY <2>3 DEF Refuse, Fresh, IInv, TypeOK
    <2>4. ASSUME NEW s \in Sessions,
                 Report(s) \/ Hired(s) \/ PingFails(s) \/ Disconnect(s)
          PROVE  Final
      BY <2>4, <2>k DEF Report, Hired, PingFails, Disconnect, taskVars
    <2>5. ASSUME NEW s \in Sessions, NEW c \in Calls, Execute(s, c) PROVE Final
      <3>1. Works(c)  BY <2>5 DEF Execute, Works
      <3>2. \A d \in Calls : d # c => answer'[d] = answer[d] /\ attempt'[d] = attempt[d]
        BY <2>5 DEF Execute, IInv, TypeOK
      <3> QED  BY <2>w, <3>1, <3>2
    <2>6. ASSUME NEW s \in Sessions, NEW c \in Calls, NEW a \in Answers,
                 Complete(s, c, a)
          PROVE  Final
      <3>1. Works(c)  BY <2>6 DEF Complete, Works
      <3>2. attempt' = attempt /\ \A d \in Calls : d # c => answer'[d] = answer[d]
        BY <2>6 DEF Complete, IInv, TypeOK
      <3> QED  BY <2>w, <3>1, <3>2
    <2>7. ASSUME NEW s \in Sessions, NEW c \in Calls, Retry(s, c) PROVE Final
      BY <2>7, <2>k DEF Retry, taskVars
    <2>8. ASSUME NEW s \in Sessions, NEW c \in Calls,
                 Answered(s, c) \/ Exhausted(s, c)
          PROVE  Final
      BY <2>6, <2>8 DEF Answered, Exhausted, Answers
    <2> QED  BY <2>1, <2>2, <2>3, <2>4, <2>5, <2>7, <2>8 DEF Next
  <1>2. IInv /\ [Next]_vars => [Final]_vars
    BY <1>1
  <1> QED  BY <1>2, IInvHolds, PTL DEF Spec, AnswerIsFinal

-----------------------------------------------------------------------------
(* Attempts.  A call that may still be attempted has an attempt left.       *)

HasAttemptLeft(c) == ~Executing(c) /\ answer[c] = "none"
                        => attempt[c] < MaxRetries + lost[c]

AttemptsInv == AttemptsBounded /\ \A c \in Calls : HasAttemptLeft(c)

\* A step that begins or ends no attempt keeps the bound.
LEMMA SameAttempts ==
    ASSUME IInv, AttemptsInv, UNCHANGED <<attempt, lost, executing>>,
           \A c \in Calls : answer'[c] = "none" => answer[c] = "none"
    PROVE  AttemptsInv'
  BY DEF AttemptsInv, AttemptsBounded, HasAttemptLeft, Executing

\* Every handler keeps the bound on attempts: one step for each action.
LEMMA NextAttempts == IInv /\ AttemptsInv /\ [Next]_vars => AttemptsInv'
  <1> SUFFICES ASSUME IInv, AttemptsInv, [Next]_vars PROVE AttemptsInv'  OBVIOUS
  <1>t. /\ attempt \in [Calls -> Nat] /\ lost \in [Calls -> Nat] /\ MaxRetries \in Nat
        /\ answer \in [Calls -> Answers]
    BY ExecutorAssumption DEF IInv, TypeOK
  <1>k. ASSUME UNCHANGED <<attempt, lost, executing, answer>> PROVE AttemptsInv'
    BY <1>k, SameAttempts
  <1>1. CASE Start \/ Dispatch \/ Stop \/ Pause \/ UNCHANGED vars
    BY <1>1, <1>k DEF Start, Dispatch, Stop, Pause, vars, taskVars
  <1>2. ASSUME NEW c \in Calls, Submit(c) PROVE AttemptsInv'
    BY <1>2, <1>k DEF Submit
  <1>3. ASSUME NEW c \in Calls, Refuse(c) PROVE AttemptsInv'
    BY <1>3, <1>t, SameAttempts DEF Refuse
  <1>4. ASSUME NEW s \in Sessions, Report(s) \/ Hired(s) \/ PingFails(s)
        PROVE  AttemptsInv'
    BY <1>4, <1>k DEF Report, Hired, PingFails, taskVars
  <1>5. ASSUME NEW s \in Sessions, Disconnect(s) PROVE AttemptsInv'
    <2>1. CASE LosePinged(s) \/ LoseIdle(s)
      BY <1>5, <2>1, <1>k DEF Disconnect, LosePinged, LoseIdle
    <2>2. ASSUME NEW c \in Calls, LoseExecuting(s, c) PROVE AttemptsInv'
      <3>1. /\ executing' = executing \ {<<s, c>>}
            /\ lost' = [lost EXCEPT ![c] = @ + 1]
            /\ attempt' = attempt /\ answer' = answer
        BY <1>5, <2>2 DEF Disconnect, LoseExecuting
      <3>2. /\ lost'[c] = lost[c] + 1
            /\ \A d \in Calls : d # c => lost'[d] = lost[d] /\ Executing(d)' = Executing(d)
        BY <1>t, <3>1 DEF Executing
      <3>3. ASSUME NEW d \in Calls
            PROVE  attempt'[d] <= MaxRetries + lost'[d] /\ HasAttemptLeft(d)'
        <4>1. CASE d = c
          BY <1>t, <3>1, <3>2, <4>1 DEF AttemptsInv, AttemptsBounded, HasAttemptLeft
        <4>2. CASE d # c
          BY <1>t, <3>1, <3>2, <4>2 DEF AttemptsInv, AttemptsBounded, HasAttemptLeft
        <4> QED  BY <4>1, <4>2
      <3> QED  BY <3>3 DEF AttemptsInv, AttemptsBounded
    <2> QED  BY <1>5, <2>1, <2>2 DEF Disconnect
  <1>6. ASSUME NEW s \in Sessions, NEW c \in Calls, Execute(s, c) PROVE AttemptsInv'
    <2>1. <<s, c>> \in scheduled /\ lost' = lost
      BY <1>6 DEF Execute
    <2>2. /\ attempt'[c] = attempt[c] + 1
          /\ \A d \in Calls : d # c => attempt'[d] = attempt[d] /\ answer'[d] = answer[d]
      BY <1>6, <1>t DEF Execute
    <2>3. ~Executing(c) /\ answer[c] = "none"
      BY <2>1 DEF IInv, WorkApart, Kept, Works, Executing
    <2>4. attempt[c] < MaxRetries + lost[c]
      BY <2>3 DEF AttemptsInv, HasAttemptLeft
    <2>5. Executing(c)' \/ answer'[c] # "none"
      BY <1>6, <1>t DEF Execute, Executing
    <2>6. \A d \in Calls : d # c => Executing(d)' = Executing(d)
      BY <1>6 DEF Execute, Executing
    <2>7. ASSUME NEW d \in Calls
          PROVE  attempt'[d] <= MaxRetries + lost'[d] /\ HasAttemptLeft(d)'
      <3>1. CASE d = c
        BY <1>t, <2>1, <2>2, <2>4, <2>5, <3>1 DEF HasAttemptLeft
      <3>2. CASE d # c
        BY <2>1, <2>2, <2>6, <3>2 DEF AttemptsInv, AttemptsBounded, HasAttemptLeft
      <3> QED  BY <3>1, <3>2
    <2> QED  BY <2>7 DEF AttemptsInv, AttemptsBounded
  <1>7. ASSUME NEW s \in Sessions, NEW c \in Calls, NEW a \in Answers \ {"none"},
               Complete(s, c, a)
        PROVE  AttemptsInv'
    <2>1. /\ executing' = executing \ {<<s, c>>}
          /\ attempt' = attempt /\ lost' = lost
          /\ answer'[c] # "none"
          /\ \A d \in Calls : d # c => answer'[d] = answer[d]
      BY <1>7, <1>t DEF Complete
    <2>2. \A d \in Calls : d # c => Executing(d)' = Executing(d)
      BY <2>1 DEF Executing
    <2> QED  BY <2>1, <2>2 DEF AttemptsInv, AttemptsBounded, HasAttemptLeft
  <1>8. ASSUME NEW s \in Sessions, NEW c \in Calls, Retry(s, c) PROVE AttemptsInv'
    <2>1. /\ executing' = executing \ {<<s, c>>}
          /\ attempt' = attempt /\ lost' = lost /\ answer' = answer
          /\ attempt[c] < MaxRetries
      BY <1>8 DEF Retry, taskVars
    <2>2. attempt[c] < MaxRetries + lost[c]
      BY <1>t, <2>1
    <2>3. \A d \in Calls : d # c => Executing(d)' = Executing(d)
      BY <2>1 DEF Executing
    <2> QED  BY <2>1, <2>2, <2>3 DEF AttemptsInv, AttemptsBounded, HasAttemptLeft
  <1>9. ASSUME NEW s \in Sessions, NEW c \in Calls, Answered(s, c) \/ Exhausted(s, c)
        PROVE  AttemptsInv'
    BY <1>7, <1>9 DEF Answered, Exhausted, Answers
  <1> QED
    BY <1>1, <1>2, <1>3, <1>4, <1>5, <1>6, <1>7, <1>8, <1>9 DEF Next

\* Retries end: lost connections apart, no call is attempted more often than
\* task_max_retries times.
THEOREM AttemptsAreBounded == Spec => []AttemptsBounded
  <1>1. Init => AttemptsInv
    BY ExecutorAssumption DEF Init, AttemptsInv, AttemptsBounded, HasAttemptLeft
  <1>2. IInv /\ AttemptsInv /\ [Next]_vars => AttemptsInv'  BY NextAttempts
  <1>3. AttemptsInv => AttemptsBounded  BY DEF AttemptsInv
  <1> QED  BY <1>1, <1>2, <1>3, IInvHolds, PTL DEF Spec

-----------------------------------------------------------------------------
(* The executor implements ServiceCalls.                                    *)

Running == {c \in Calls : Executing(c)}

\* A session ends its work on a call, which no other session works on.
LEMMA RunEnds ==
    ASSUME IInv, NEW s \in Sessions, NEW c \in Calls, <<s, c>> \in executing,
           executing' = executing \ {<<s, c>>}
    PROVE  /\ c \in Running /\ Running' = Running \ {c}
           /\ c \in received /\ answer[c] = "none"
  <1>1. Executing(c) /\ Works(c)  BY DEF Executing, Works
  <1>2. c \in received /\ answer[c] = "none"  BY <1>1 DEF IInv, Kept
  <1>3. \A d \in Calls : Executing(d)' <=> Executing(d) /\ d # c
    BY DEF IInv, WorkApart, Executing
  <1> QED  BY <1>1, <1>2, <1>3 DEF Running

\* Every step is one of ServiceCalls, or changes nothing that clients can see.
LEMMA NextImplements ==
    IInv /\ [Next]_vars => [Promise!CallsNext]_<<received, Running, answer>>
  <1> SUFFICES ASSUME IInv, [Next]_vars
               PROVE  Promise!CallsNext \/ UNCHANGED <<received, Running, answer>>
    OBVIOUS
  <1> DEFINE R == Answers \ {"none"}
  <1>t. answer \in [Calls -> Answers]  BY DEF IInv, TypeOK
  <1>k. ASSUME UNCHANGED <<received, executing, answer>>
        PROVE  UNCHANGED <<received, Running, answer>>
    BY <1>k DEF Running, Executing
  <1>1. CASE Start \/ Dispatch \/ Stop \/ Pause \/ UNCHANGED vars
    BY <1>1, <1>k DEF Start, Dispatch, Stop, Pause, vars, taskVars
  <1>2. ASSUME NEW s \in Sessions, Report(s) \/ Hired(s) \/ PingFails(s)
        PROVE  UNCHANGED <<received, Running, answer>>
    BY <1>2, <1>k DEF Report, Hired, PingFails, taskVars
  <1>3. ASSUME NEW c \in Calls, Submit(c) PROVE Promise!Accept(c)
    <2>1. Running' = Running  BY <1>3 DEF Submit, Running, Executing
    <2> QED  BY <1>3, <2>1 DEF Submit, Fresh, Promise!Accept, Promise!Unanswered, Running
  <1>4. ASSUME NEW c \in Calls, Refuse(c) PROVE Promise!Refused(c)
    <2>1. Running' = Running  BY <1>4 DEF Refuse, Running, Executing
    <2>2. answer' = [answer EXCEPT ![c] = "not ready"] /\ "not ready" \in R
      BY <1>4 DEF Refuse, Answers
    <2> QED
      BY <1>4, <2>1, <2>2 DEF Refuse, Fresh, Promise!Refused, Promise!Unanswered, Running
  <1>5. ASSUME NEW s \in Sessions, NEW c \in Calls, <<s, c>> \in executing,
               executing' = executing \ {<<s, c>>}, UNCHANGED <<received, answer>>
        PROVE  Promise!TryAgain(c)
    BY <1>5, RunEnds DEF Promise!TryAgain, Running
  <1>6. ASSUME NEW s \in Sessions, Disconnect(s)
        PROVE  \/ \E c \in Calls : Promise!TryAgain(c)
               \/ UNCHANGED <<received, Running, answer>>
    <2>1. UNCHANGED <<received, answer>>  BY <1>6 DEF Disconnect
    <2>2. CASE LosePinged(s) \/ LoseIdle(s)
      BY <2>1, <2>2, <1>k DEF LosePinged, LoseIdle
    <2>3. ASSUME NEW c \in Calls, LoseExecuting(s, c) PROVE Promise!TryAgain(c)
      BY <2>1, <2>3, <1>5 DEF LoseExecuting
    <2> QED  BY <1>6, <2>2, <2>3 DEF Disconnect
  <1>7. ASSUME NEW s \in Sessions, NEW c \in Calls, Retry(s, c)
        PROVE  Promise!TryAgain(c)
    BY <1>5, <1>7 DEF Retry, taskVars
  <1>8. ASSUME NEW s \in Sessions, NEW c \in Calls, Execute(s, c)
        PROVE  Promise!Run(c) \/ Promise!Reply(c)
    <2>1. <<s, c>> \in scheduled /\ received' = received
      BY <1>8 DEF Execute
    <2>2. c \in received /\ answer[c] = "none" /\ ~Executing(c)
      BY <2>1 DEF IInv, WorkApart, Kept, Works, Executing
    <2>3. CASE executing' = executing \cup {<<s, c>>} /\ answer' = answer
      <3>1. Running' = Running \cup {c}  BY <2>3 DEF Running, Executing
      <3> QED  BY <2>1, <2>2, <2>3, <3>1 DEF Promise!Run, Promise!Unanswered, Running
    <2>4. CASE /\ executing' = executing
               /\ answer' = [answer EXCEPT ![c] = "done"]
      <3>1. Running' = Running \ {c}  BY <2>2, <2>4 DEF Running, Executing
      <3>2. "done" \in R  BY DEF Answers
      <3> QED  BY <2>1, <2>2, <2>4, <3>1, <3>2 DEF Promise!Reply, Promise!Unanswered, Running
    <2> QED  BY <1>8, <2>3, <2>4 DEF Execute
  <1>9. ASSUME NEW s \in Sessions, NEW c \in Calls, NEW a \in R, Complete(s, c, a)
        PROVE  Promise!Reply(c)
    <2>1. /\ <<s, c>> \in executing /\ executing' = executing \ {<<s, c>>}
          /\ received' = received
          /\ answer' = [answer EXCEPT ![c] = a]
      BY <1>9 DEF Complete
    <2> QED  BY <1>9, <2>1, RunEnds DEF Promise!Reply, Promise!Unanswered, Running
  <1>10. ASSUME NEW s \in Sessions, NEW c \in Calls, Answered(s, c) \/ Exhausted(s, c)
         PROVE  Promise!Reply(c)
    BY <1>9, <1>10 DEF Answered, Exhausted, Answers
  <1> QED
    BY <1>1, <1>2, <1>3, <1>4, <1>6, <1>7, <1>8, <1>10 DEF Next, Promise!CallsNext

\* WorkerPoolExecutor implements ServiceCalls: queues, priorities, retries, worker
\* churn and pauses never show a client more than accept, run, try again, answer.
THEOREM ExecutorImplementsServiceCalls == Spec => ImplementsServiceCalls
  <1>1. Init => Promise!CallsInit
    BY DEF Init, Promise!CallsInit, Executing
  <1>2. IInv /\ [Next]_vars => [Promise!CallsNext]_<<received, {c \in Calls : Executing(c)}, answer>>
    BY NextImplements DEF Running
  <1> QED
    BY <1>1, <1>2, IInvHolds, PTL
    DEF Spec, ImplementsServiceCalls, Promise!CallsSpec, Promise!callVars

-----------------------------------------------------------------------------
(* The availability queue                                                  *)

Has(q, s) == \E i \in DOMAIN q : q[i] = s

Once(q) == \A i, j \in DOMAIN q : q[i] = q[j] => i = j

\* A session that is added is in the queue once, whether or not it was there.
LEMMA AddedOnce ==
    ASSUME available \in Seq(Sessions), Once(available), NEW s \in Sessions
    PROVE  /\ Added(s) \in Seq(Sessions)
           /\ Once(Added(s))
           /\ \A t \in Sessions : Has(Added(s), t) <=> Has(available, t) \/ t = s
  <1>1. CASE Has(available, s)
    BY <1>1 DEF Added, Has
  <1>2. CASE ~Has(available, s)
    <2>1. Added(s) = Append(available, s)
      BY <1>2 DEF Added, Has
    <2>2. /\ Len(available) \in Nat
          /\ DOMAIN available = 1..Len(available)
          /\ DOMAIN Added(s) = 1..(Len(available) + 1)
          /\ Added(s)[Len(available) + 1] = s
          /\ \A i \in 1..Len(available) : Added(s)[i] = available[i]
      BY <2>1
    <2>3. Once(Added(s))
      BY <1>2, <2>2 DEF Once, Has
    <2>4. \A t \in Sessions : Has(Added(s), t) <=> Has(available, t) \/ t = s
      BY <2>2 DEF Has
    <2> QED  BY <2>1, <2>3, <2>4
  <1> QED  BY <1>1, <1>2

\* A session that is discarded is not in the queue any more, and the others are.
LEMMA DiscardedOnce ==
    ASSUME available \in Seq(Sessions), Once(available), NEW s \in Sessions
    PROVE  /\ Once(Discarded(s))
           /\ \A t \in Sessions : Has(Discarded(s), t) <=> Has(available, t) /\ t # s
  <1>1. CASE ~Has(available, s)
    BY <1>1 DEF Discarded, Has
  <1>2. CASE Has(available, s)
    <2>1. PICK i \in DOMAIN available : available[i] = s /\ Discarded(s) = Without(i)
      BY <1>2 DEF Discarded, Has
    <2> DEFINE n == Len(available)
    <2>2. n \in Nat /\ DOMAIN available = 1..n /\ i \in 1..n
      BY <2>1
    <2>3. /\ DOMAIN Discarded(s) = 1..(n - 1)
          /\ \A j \in 1..(n - 1) : Discarded(s)[j] = IF j < i THEN available[j] ELSE available[j + 1]
      BY <2>1 DEF Without
    <2> HIDE DEF n
    <2>4. ASSUME NEW j \in 1..(n - 1), NEW k \in 1..(n - 1), Discarded(s)[j] = Discarded(s)[k]
          PROVE  j = k
      <3> DEFINE at(m) == IF m < i THEN m ELSE m + 1
      <3>1. at(j) \in DOMAIN available /\ at(k) \in DOMAIN available
        BY <2>2
      <3>2. available[at(j)] = available[at(k)]
        BY <2>3, <2>4
      <3>3. at(j) = at(k)
        BY <3>1, <3>2 DEF Once
      <3> QED  BY <2>2, <3>3
    <2>5. ASSUME NEW t \in Sessions, Has(Discarded(s), t) PROVE Has(available, t) /\ t # s
      <3>1. PICK j \in 1..(n - 1) : Discarded(s)[j] = t
        BY <2>3, <2>5 DEF Has
      <3>2. PICK k \in 1..n : k # i /\ available[k] = t
        BY <2>2, <2>3, <3>1
      <3> QED  BY <2>1, <2>2, <3>2 DEF Has, Once
    <2>6. ASSUME NEW t \in Sessions, Has(available, t), t # s PROVE Has(Discarded(s), t)
      <3>1. PICK k \in 1..n : available[k] = t /\ k # i
        BY <2>1, <2>2, <2>6 DEF Has
      <3>2. CASE k < i
        <4>1. k \in 1..(n - 1)  BY <2>2, <3>2
        <4> QED  BY <2>3, <3>1, <3>2, <4>1 DEF Has
      <3>3. CASE k > i
        <4>1. k - 1 \in 1..(n - 1) /\ ~(k - 1 < i) /\ (k - 1) + 1 = k  BY <2>2, <3>3
        <4> QED  BY <2>3, <3>1, <4>1 DEF Has
      <3> QED  BY <2>2, <3>1, <3>2, <3>3
    <2> QED  BY <2>3, <2>4, <2>5, <2>6 DEF Once
  <1> QED  BY <1>1, <1>2

-----------------------------------------------------------------------------
(* A session is free when it is available or pinged, and busy when a call   *)
(* is scheduled or executed on it.                                          *)

Free(s) == s \in pinged \/ Has(available, s)

Busy(s) == \E c \in Calls : <<s, c>> \in scheduled \cup executing

FreeOnce == /\ Once(available)
            /\ \A s \in pinged : ~Has(available, s)
            /\ \A s, t \in pinged : s = t

BusyOnce == \A s \in Sessions, c, d \in Calls :
               <<s, c>> \in scheduled \cup executing /\ <<s, d>> \in scheduled \cup executing
                  => c = d

\* The step puts the sessions of avail, and the one that is pinged, in place.
Placed(avail) == /\ FreeOnce'
                 /\ \A s \in Sessions : Free(s)' <=> s \in pinged \/ Has(avail, s)

\* A hire takes the first session of the queue, if there is one.
LEMMA HireFromPlaces ==
    ASSUME NEW avail \in Seq(Sessions), Once(avail), HireFrom(avail)
    PROVE  /\ FreeOnce'
           /\ \A s \in Sessions : Free(s)' <=> Has(avail, s)
  <1>1. CASE avail = <<>>
    <2>1. available' = avail /\ pinged' = {}
      BY <1>1 DEF HireFrom
    <2> QED  BY <2>1 DEF FreeOnce, Free, Once, Has
  <1>2. CASE avail # <<>>
    <2>1. available' = Tail(avail) /\ pinged' = {Head(avail)}
      BY <1>2 DEF HireFrom
    <2>2. /\ Len(avail) \in Nat /\ Len(avail) > 0
          /\ DOMAIN avail = 1..Len(avail)
          /\ Head(avail) = avail[1]
          /\ DOMAIN Tail(avail) = 1..(Len(avail) - 1)
          /\ \A i \in 1..(Len(avail) - 1) : Tail(avail)[i] = avail[i + 1]
      BY <1>2
    <2>3. Once(Tail(avail))
      BY <2>2 DEF Once
    <2>4. ~Has(Tail(avail), Head(avail))
      BY <2>2 DEF Once, Has
    <2>5. ASSUME NEW s \in Sessions PROVE Has(avail, s) <=> s = Head(avail) \/ Has(Tail(avail), s)
      <3>1. ASSUME Has(avail, s), s # Head(avail) PROVE Has(Tail(avail), s)
        <4>1. PICK i \in 1..Len(avail) : avail[i] = s /\ i # 1
          BY <2>2, <3>1 DEF Has
        <4>2. i - 1 \in 1..(Len(avail) - 1) /\ (i - 1) + 1 = i
          BY <2>2, <4>1
        <4> QED  BY <2>2, <4>1, <4>2 DEF Has
      <3>2. Has(Tail(avail), s) => Has(avail, s)
        BY <2>2 DEF Has
      <3>3. Has(avail, Head(avail))
        BY <2>2 DEF Has
      <3> QED  BY <3>1, <3>2, <3>3
    <2>6. Once(available)' /\ \A s \in Sessions : Has(available, s)' <=> Has(Tail(avail), s)
      BY <2>1, <2>3 DEF Once, Has
    <2>7. ~Has(available, Head(avail))'
      BY <2>1, <2>4 DEF Has
    <2>8. FreeOnce'
      BY <2>1, <2>4, <2>6 DEF FreeOnce, Has
    <2> QED  BY <2>1, <2>5, <2>6, <2>8 DEF Free
  <1> QED  BY <1>1, <1>2

\* Sessions that are offered become available, or one of them is hired.
LEMMA OfferPlaces ==
    ASSUME TypeOK, LoopInv, FreeOnce, NEW avail \in Seq(Sessions), Once(avail),
           \A s \in pinged : ~Has(avail, s), Offer(avail)
    PROVE  Placed(avail)
  <1>1. CASE hirer = "waiting"
    <2>1. HireFrom(avail) /\ pinged = {}
      BY <1>1 DEF Offer, LoopInv, DispatchInStep
    <2> QED  BY <2>1, HireFromPlaces DEF Placed
  <1>2. CASE hirer # "waiting"
    <2>1. available' = avail /\ pinged' = pinged
      BY <1>2 DEF Offer
    <2> QED  BY <2>1 DEF Placed, FreeOnce, Free, Once, Has
  <1> QED  BY <1>1, <1>2

\* So they do when the dispatch loop asks for an item in the same step,
LEMMA RequestPlaces ==
    ASSUME TypeOK, LoopInv, FreeOnce, hirer = "none", NEW q,
           NEW avail \in Seq(Sessions), Once(avail), Request(q, avail)
    PROVE  Placed(avail)
  <1>1. pinged = {}
    BY DEF LoopInv, DispatchInStep
  <1>2. CASE HireFrom(avail)
    BY <1>1, <1>2, HireFromPlaces DEF Placed
  <1>3. CASE Offer(avail)
    BY <1>1, <1>3, OfferPlaces
  <1> QED  BY <1>2, <1>3 DEF Request

\* or is notified of a call.
LEMMA NotifyPlaces ==
    ASSUME TypeOK, LoopInv, FreeOnce, NEW q,
           NEW avail \in Seq(Sessions), Once(avail),
           \A s \in pinged : ~Has(avail, s), Notify(q, avail)
    PROVE  Placed(avail)
  <1>1. CASE waiting
    BY <1>1, RequestPlaces DEF Notify, LoopInv, DispatchInStep
  <1>2. CASE ~waiting
    BY <1>2, OfferPlaces DEF Notify
  <1> QED  BY <1>1, <1>2 DEF TypeOK

-----------------------------------------------------------------------------
(* The invariant of the sessions.  A lost session may still have a call     *)
(* that is scheduled; it is gone, and never reports again.                  *)

SessionInv ==
    /\ FreeOnce
    /\ BusyOnce
    /\ registered \cap gone = {}
    /\ \A s \in Sessions :
          /\ ~(Free(s) /\ Busy(s))
          /\ s \in registered => Free(s) \/ Busy(s)
          /\ Free(s) \/ Working(s) => s \in registered
          /\ Busy(s) => s \in registered \cup gone

\* There is no session at first.
LEMMA InitSessions == Init => SessionInv
  <1> SUFFICES ASSUME Init PROVE SessionInv  OBVIOUS
  <1>1. available = <<>> /\ DOMAIN available = {} /\ pinged = {} /\ registered = {}
    BY DEF Init, PoolInit
  <1>2. FreeOnce /\ \A s \in Sessions : ~Free(s)
    BY <1>1 DEF FreeOnce, Once, Has, Free
  <1>3. BusyOnce /\ \A s \in Sessions : ~Busy(s) /\ ~Working(s)
    BY DEF Init, BusyOnce, Busy, Working
  <1> QED  BY <1>1, <1>2, <1>3 DEF SessionInv

\* A step that leaves all of them where they are
LEMMA SameSessions ==
    ASSUME SessionInv, Placed(available), UNCHANGED <<registered, gone, scheduled, executing>>
    PROVE  SessionInv'
  BY DEF SessionInv, Placed, Free, Busy, BusyOnce, Working

\* A call ends on a session that is not lost, and the session is laid off.
LEMMA LayoffKeeps ==
    ASSUME IInv, SessionInv, NEW s \in Sessions, NEW c \in Calls, <<s, c>> \in executing,
           executing' = executing \ {<<s, c>>}, UNCHANGED <<registered, gone, scheduled>>,
           Placed(LaidOff(s))
    PROVE  SessionInv'
  <1>1. s \in registered /\ Busy(s) /\ ~Free(s)
    BY DEF SessionInv, Working, Busy
  <1>2. \A t \in Sessions : Has(LaidOff(s), t) <=> Has(available, t) \/ t = s
    BY <1>1, AddedOnce DEF LaidOff, IInv, TypeOK, SessionInv, FreeOnce
  <1>3. \A t \in Sessions : Free(t)' <=> Free(t) \/ t = s
    BY <1>2 DEF Placed, Free
  <1>4. \A t \in Sessions : /\ Busy(t)' => Busy(t) /\ t # s
                            /\ Working(t)' => Working(t)
                            /\ Busy(t) /\ t # s => Busy(t)'
    BY DEF SessionInv, BusyOnce, Busy, Working, IInv, WorkApart
  <1>5. BusyOnce'
    BY DEF SessionInv, BusyOnce
  <1> QED  BY <1>1, <1>3, <1>4, <1>5 DEF SessionInv, Placed

\* The layoff is an offer of sessions that are in the queue once.
LEMMA LaidOffOnce ==
    ASSUME IInv, SessionInv, NEW s \in Sessions, NEW c \in Calls, <<s, c>> \in executing
    PROVE  LaidOff(s) \in Seq(Sessions) /\ Once(LaidOff(s)) /\ \A t \in pinged : ~Has(LaidOff(s), t)
  <1>1. s \in registered /\ s \notin pinged
    BY DEF SessionInv, Working, Busy, Free
  <1> QED  BY <1>1, AddedOnce DEF LaidOff, IInv, TypeOK, SessionInv, FreeOnce

\* A session is lost, and is neither free nor working any more.
LEMMA LossKeeps ==
    ASSUME SessionInv, NEW s \in Sessions, s \in registered, Unregister(s),
           scheduled' = scheduled,
           executing' \subseteq executing, \A c \in Calls : <<s, c>> \notin executing',
           \A t \in Sessions, c \in Calls : t # s /\ <<t, c>> \in executing => <<t, c>> \in executing',
           FreeOnce', \A t \in Sessions : Free(t)' <=> Free(t) /\ t # s
    PROVE  SessionInv'
  <1>1. registered' = registered \ {s} /\ gone' = gone \cup {s}
    BY DEF Unregister
  <1>2. \A t \in Sessions : /\ Busy(t)' => Busy(t)
                            /\ Working(t)' => Working(t) /\ t # s
                            /\ Busy(t) /\ t # s => Busy(t)'
    BY DEF Busy, Working
  <1>3. BusyOnce'
    BY DEF SessionInv, BusyOnce
  <1> QED  BY <1>1, <1>2, <1>3 DEF SessionInv

\* Every handler keeps the invariant of the sessions: one step for each action.
LEMMA NextSessions == IInv /\ SessionInv /\ [Next]_vars => SessionInv'
  <1> SUFFICES ASSUME IInv, SessionInv, [Next]_vars PROVE SessionInv'  OBVIOUS
  <1>0. /\ TypeOK /\ LoopInv /\ FreeOnce
        /\ available \in Seq(Sessions) /\ Once(available) /\ \A s \in pinged : ~Has(available, s)
    BY DEF IInv, TypeOK, SessionInv, FreeOnce
  <1>1. CASE Start
    <2>1. hirer = "none" /\ Request(queues, available)
      BY <1>0, <1>1 DEF Start, LoopInv
    <2> QED  BY <1>0, <1>1, <2>1, RequestPlaces, SameSessions DEF Start
  <1>2. CASE Dispatch
    BY <1>0, <1>2, RequestPlaces, SameSessions DEF Dispatch
  <1>3. CASE Stop \/ Pause \/ (\E c \in Calls : Refuse(c)) \/ UNCHANGED vars
    <2>1. UNCHANGED <<registered, gone, available, hirer, pinged, scheduled, executing>>
      BY <1>3 DEF Stop, Pause, Refuse, poolVars, vars
    <2>2. Placed(available)
      BY <1>0, <2>1 DEF Placed, FreeOnce, Free, Once, Has
    <2> QED  BY <2>1, <2>2, SameSessions
  <1>4. ASSUME NEW c \in Calls, Submit(c) PROVE SessionInv'
    BY <1>0, <1>4, NotifyPlaces, SameSessions DEF Submit
  <1>5. ASSUME NEW s \in Sessions, Report(s) PROVE SessionInv'
    <2>1. s \notin registered /\ s \notin gone /\ registered' = registered \cup {s}
          /\ Offer(Added(s)) /\ UNCHANGED <<gone, scheduled, executing>>
      BY <1>5 DEF Report
    <2>2. ~Free(s) /\ ~Busy(s)
      BY <2>1 DEF SessionInv
    <2>3. /\ Added(s) \in Seq(Sessions) /\ Once(Added(s))
          /\ \A t \in Sessions : Has(Added(s), t) <=> Has(available, t) \/ t = s
      BY <1>0, AddedOnce
    <2>4. \A t \in pinged : ~Has(Added(s), t)
      BY <1>0, <2>2, <2>3 DEF Free, TypeOK
    <2>5. Placed(Added(s))
      BY <1>0, <2>1, <2>3, <2>4, OfferPlaces
    <2>6. \A t \in Sessions : Free(t)' <=> Free(t) \/ t = s
      BY <2>3, <2>5 DEF Placed, Free
    <2>7. BusyOnce' /\ \A t \in Sessions : (Busy(t)' <=> Busy(t)) /\ (Working(t)' <=> Working(t))
      BY <2>1 DEF SessionInv, BusyOnce, Busy, Working
    <2> QED  BY <2>1, <2>2, <2>5, <2>6, <2>7 DEF SessionInv, Placed
  <1>6. ASSUME NEW s \in Sessions, Hired(s) PROVE SessionInv'
    <2>1. PICK c \in Calls : hand = {c}
      <3>1. hand # {} /\ \A c, d \in hand : c = d
        BY <1>6 DEF Hired, IInv, LoopInv, DispatchInStep, TypeOK, Apart
      <3>2. hand \subseteq Calls
        BY <1>0 DEF TypeOK
      <3> QED  BY <3>1, <3>2
    <2>2. /\ s \in pinged /\ pinged' = {} /\ scheduled' = scheduled \cup {<<s, c>>}
          /\ UNCHANGED <<registered, gone, available, executing>>
      BY <1>6, <2>1 DEF Hired
    <2>3. Free(s) /\ ~Busy(s) /\ s \in registered
      BY <2>2 DEF SessionInv, Free
    <2>4. FreeOnce' /\ \A t \in Sessions : Free(t)' <=> Free(t) /\ t # s
      BY <1>0, <2>2 DEF FreeOnce, Free, Once, Has
    <2>5. \A t \in Sessions : (Busy(t)' <=> Busy(t) \/ t = s) /\ (Working(t)' <=> Working(t))
      BY <2>2 DEF Busy, Working
    <2>6. BusyOnce'
      BY <2>2, <2>3 DEF SessionInv, BusyOnce, Busy
    <2> QED  BY <2>2, <2>3, <2>4, <2>5, <2>6 DEF SessionInv
  <1>7. ASSUME NEW s \in Sessions, s \in pinged, HireFrom(available)
        PROVE  FreeOnce' /\ s \in registered /\ (\A c \in Calls : <<s, c>> \notin executing)
               /\ \A t \in Sessions : Free(t)' <=> Free(t) /\ t # s
    <2>1. /\ Free(s) /\ ~Busy(s) /\ s \in registered
          /\ \A t \in Sessions : Free(t) <=> t = s \/ Has(available, t)
      BY <1>0, <1>7 DEF SessionInv, FreeOnce, Free
    <2>2. \A c \in Calls : <<s, c>> \notin executing
      BY <2>1 DEF Busy
    <2> QED  BY <1>0, <1>7, <2>1, <2>2, HireFromPlaces
  <1>8. ASSUME NEW s \in Sessions, PingFails(s) PROVE SessionInv'
    <2>1. s \in pinged /\ HireFrom(available) /\ Unregister(s)
          /\ UNCHANGED <<scheduled, executing>>
      BY <1>8 DEF PingFails
    <2> QED  BY <1>7, <2>1, LossKeeps
  <1>9. ASSUME NEW s \in Sessions, Disconnect(s) PROVE SessionInv'
    <2>1. s \in registered /\ Unregister(s) /\ scheduled' = scheduled
      BY <1>9 DEF Disconnect
    <2>2. CASE LosePinged(s)
      <3>1. s \in pinged /\ HireFrom(available) /\ executing' = executing
        BY <2>2 DEF LosePinged
      <3> QED  BY <1>7, <2>1, <3>1, LossKeeps
    <2>3. ASSUME NEW c \in Calls, LoseExecuting(s, c) PROVE SessionInv'
      <3>1. <<s, c>> \in executing /\ executing' = executing \ {<<s, c>>}
            /\ Notify(PushedFront(PriorityOf[c], c), available)
        BY <2>3 DEF LoseExecuting
      <3>2. Busy(s) /\ ~Free(s) /\ \A d \in Calls : <<s, d>> \in executing => d = c
        BY <3>1 DEF SessionInv, BusyOnce, Busy
      <3>3. Placed(available)
        BY <1>0, <3>1, NotifyPlaces
      <3>4. FreeOnce' /\ \A t \in Sessions : Free(t)' <=> Free(t) /\ t # s
        BY <3>2, <3>3 DEF Placed, Free
      <3>5. /\ \A d \in Calls : <<s, d>> \notin executing'
            /\ \A t \in Sessions, d \in Calls :
                  t # s /\ <<t, d>> \in executing => <<t, d>> \in executing'
        BY <3>1, <3>2
      <3> QED  BY <2>1, <3>1, <3>4, <3>5, LossKeeps
    <2>4. CASE LoseIdle(s)
      <3>1. /\ s \notin pinged /\ \A c \in Calls : <<s, c>> \notin executing
            /\ available' = Discarded(s) /\ pinged' = pinged /\ executing' = executing
        BY <2>4 DEF LoseIdle
      <3>2. /\ Once(Discarded(s))
            /\ \A t \in Sessions : Has(Discarded(s), t) <=> Has(available, t) /\ t # s
        BY <1>0, DiscardedOnce
      <3>3. Once(available)' /\ \A t \in Sessions : Has(available, t)' <=> Has(available, t) /\ t # s
        BY <3>1, <3>2 DEF Once, Has
      <3>4. FreeOnce' /\ \A t \in Sessions : Free(t)' <=> Free(t) /\ t # s
        BY <1>0, <3>1, <3>3 DEF FreeOnce, Free, TypeOK
      <3> QED  BY <2>1, <3>1, <3>4, LossKeeps
    <2> QED  BY <1>9, <2>2, <2>3, <2>4 DEF Disconnect
  <1>10. ASSUME NEW s \in Sessions, NEW c \in Calls, Execute(s, c) PROVE SessionInv'
    <2>1. /\ <<s, c>> \in scheduled /\ scheduled' = scheduled \ {<<s, c>>}
          /\ UNCHANGED <<registered, gone, available, pinged>>
          /\ \/ s \in registered /\ executing' = executing \cup {<<s, c>>}
             \/ s \notin registered /\ executing' = executing
      BY <1>10 DEF Execute, poolVars
    <2>2. FreeOnce' /\ \A t \in Sessions : Free(t)' <=> Free(t)
      BY <1>0, <2>1 DEF FreeOnce, Free, Once, Has
    <2>3. BusyOnce'
      BY <2>1 DEF SessionInv, BusyOnce
    <2>4. \A t \in Sessions : /\ Busy(t)' => Busy(t)
                              /\ Busy(t) => Busy(t)' \/ (t = s /\ s \notin registered)
                              /\ Working(t)' => Working(t) \/ (t = s /\ s \in registered)
      BY <2>1 DEF Busy, Working
    <2> QED  BY <2>1, <2>2, <2>3, <2>4 DEF SessionInv
  <1>11. ASSUME NEW s \in Sessions, NEW c \in Calls, NEW a, Complete(s, c, a) PROVE SessionInv'
    <2>1. /\ <<s, c>> \in executing /\ executing' = executing \ {<<s, c>>}
          /\ Offer(LaidOff(s)) /\ UNCHANGED <<registered, gone, scheduled>>
      BY <1>11 DEF Complete
    <2>2. Placed(LaidOff(s))
      BY <1>0, <2>1, LaidOffOnce, OfferPlaces
    <2> QED  BY <2>1, <2>2, LayoffKeeps
  <1>12. ASSUME NEW s \in Sessions, NEW c \in Calls, Retry(s, c) PROVE SessionInv'
    <2>1. /\ <<s, c>> \in executing /\ executing' = executing \ {<<s, c>>}
          /\ Notify(PushedFront(PriorityOf[c], c), LaidOff(s))
          /\ UNCHANGED <<registered, gone, scheduled>>
      BY <1>12 DEF Retry
    <2>2. Placed(LaidOff(s))
      BY <1>0, <2>1, LaidOffOnce, NotifyPlaces
    <2> QED  BY <2>1, <2>2, LayoffKeeps
  <1> QED
    BY <1>1, <1>2, <1>3, <1>4, <1>5, <1>6, <1>8, <1>9, <1>10, <1>11, <1>12
    DEF Next, Answered, Exhausted

\* The two invariants hold together.
LEMMA SessionsHold == Spec => [](IInv /\ SessionInv)
  <1>1. Init => IInv /\ SessionInv  BY InitIInv, InitSessions
  <1>2. (IInv /\ SessionInv) /\ [Next]_vars => (IInv /\ SessionInv)'  BY NextIInv, NextSessions
  <1> QED  BY <1>1, <1>2, PTL DEF Spec

\* A worker is never hired for two calls (WorkerPool.hire, layoff): it is in one
\* place at most, and once.
THEOREM WorkersHaveOneCall == Spec => []OneCallPerWorker
  <1>1. IInv /\ SessionInv => OneCallPerWorker
    <2> SUFFICES ASSUME IInv, SessionInv PROVE OneCallPerWorker  OBVIOUS
    <2>1. \A s \in Sessions :
             /\ Free(s) <=> Hiring(s) \/ IsAvailable(s)
             /\ Busy(s) <=> Assigned(s) \/ Working(s)
      BY DEF Free, Busy, Hiring, IsAvailable, Assigned, Working, Has
    <2>2. \A s \in Sessions : /\ ~(IsAvailable(s) /\ Hiring(s))
                              /\ ~(Assigned(s) /\ Working(s))
      <3>1. \A s \in Sessions : ~(IsAvailable(s) /\ Hiring(s))
        BY DEF SessionInv, FreeOnce, IsAvailable, Hiring, Has
      <3>2. \A s \in Sessions : ~(Assigned(s) /\ Working(s))
        BY DEF SessionInv, BusyOnce, Assigned, Working, IInv, WorkApart
      <3> QED  BY <3>1, <3>2
    <2>3. ASSUME NEW x \in scheduled \cup executing, NEW y \in scheduled \cup executing, x[1] = y[1]
          PROVE  x = y
      <3>1. x \in Sessions \X Calls /\ y \in Sessions \X Calls
        BY DEF IInv, TypeOK
      <3>2. x = <<x[1], x[2]>> /\ y = <<y[1], y[2]>> /\ x[1] \in Sessions /\ x[2] \in Calls /\ y[2] \in Calls
        BY <3>1
      <3>3. x[2] = y[2]
        BY <2>3, <3>2 DEF SessionInv, BusyOnce
      <3> QED  BY <2>3, <3>2, <3>3
    <2> QED  BY <2>1, <2>2, <2>3 DEF OneCallPerWorker, SessionInv, FreeOnce, Once
  <1> QED  BY <1>1, SessionsHold, PTL

\* No worker is forgotten, and nothing waits for one that was removed from the
\* pool (WorkerPool.add, remove, hire, layoff).
THEOREM WorkersAreNotLost == Spec => []NoWorkerLost
  <1>1. SessionInv => NoWorkerLost
    BY DEF SessionInv, NoWorkerLost, Free, Busy, Hiring, IsAvailable, Assigned, Working, Has
  <1> QED  BY <1>1, SessionsHold, PTL

-----------------------------------------------------------------------------
(* The order of retried calls                                              *)

\* In the sequence s, with the attempts a, no attempted call is behind one that was not,
InOrder(s, a) == \A i, j \in DOMAIN s : i < j /\ a[s[i]] = 0 => a[s[j]] = 0

\* and so in every one of the queues q.
Sorted(q) == \A p \in Priorities : InOrder(q[p], attempt)

\* A call is attempted only once it was accepted, and is attempted while it executes.
Attempted == /\ \A c \in Calls : c \notin received => attempt[c] = 0
             /\ \A s \in Sessions, c \in Calls : <<s, c>> \in executing => attempt[c] > 0

RetryInv == Sorted(queues) /\ Attempted

\* A new call goes to the end,
LEMMA AppendInOrder ==
    ASSUME NEW s \in Seq(Calls), NEW a, InOrder(s, a), NEW c \in Calls, a[c] = 0
    PROVE  InOrder(Append(s, c), a)
  <1>1. SUFFICES ASSUME NEW i \in DOMAIN Append(s, c), NEW j \in DOMAIN Append(s, c),
                        i < j, a[Append(s, c)[i]] = 0
                 PROVE  a[Append(s, c)[j]] = 0
    BY DEF InOrder
  <1>2. /\ Len(s) \in Nat /\ DOMAIN s = 1..Len(s) /\ DOMAIN Append(s, c) = 1..(Len(s) + 1)
        /\ Append(s, c)[Len(s) + 1] = c
        /\ \A n \in 1..Len(s) : Append(s, c)[n] = s[n]
    OBVIOUS
  <1>3. CASE j = Len(s) + 1
    BY <1>2, <1>3
  <1>4. CASE j # Len(s) + 1
    <2>1. i \in 1..Len(s) /\ j \in 1..Len(s)
      BY <1>1, <1>2, <1>4
    <2>2. Append(s, c)[i] = s[i] /\ Append(s, c)[j] = s[j]
      BY <1>2, <2>1
    <2> QED  BY <1>1, <1>2, <2>1, <2>2 DEF InOrder
  <1> QED  BY <1>3, <1>4

\* one that was attempted goes to the front,
LEMMA PrependInOrder ==
    ASSUME NEW s \in Seq(Calls), NEW a, InOrder(s, a), NEW c \in Calls, a[c] # 0
    PROVE  InOrder(<<c>> \o s, a)
  <1>1. SUFFICES ASSUME NEW i \in DOMAIN (<<c>> \o s), NEW j \in DOMAIN (<<c>> \o s),
                        i < j, a[(<<c>> \o s)[i]] = 0
                 PROVE  a[(<<c>> \o s)[j]] = 0
    BY DEF InOrder
  <1>2. /\ Len(s) \in Nat /\ DOMAIN s = 1..Len(s) /\ DOMAIN (<<c>> \o s) = 1..(Len(s) + 1)
        /\ (<<c>> \o s)[1] = c
        /\ \A n \in 2..(Len(s) + 1) : (<<c>> \o s)[n] = s[n - 1]
    OBVIOUS
  <1>3. i \in 2..(Len(s) + 1) /\ j \in 2..(Len(s) + 1)
    BY <1>1, <1>2
  <1>4. (<<c>> \o s)[i] = s[i - 1] /\ (<<c>> \o s)[j] = s[j - 1]
    BY <1>2, <1>3
  <1>5. i - 1 \in DOMAIN s /\ j - 1 \in DOMAIN s /\ i - 1 < j - 1
    BY <1>1, <1>2, <1>3
  <1> QED  BY <1>1, <1>4, <1>5 DEF InOrder

\* and a pop takes the first.
LEMMA TailInOrder ==
    ASSUME NEW s \in Seq(Calls), s # <<>>, NEW a, InOrder(s, a)
    PROVE  InOrder(Tail(s), a)
  <1>1. SUFFICES ASSUME NEW i \in DOMAIN Tail(s), NEW j \in DOMAIN Tail(s),
                        i < j, a[Tail(s)[i]] = 0
                 PROVE  a[Tail(s)[j]] = 0
    BY DEF InOrder
  <1>2. /\ Len(s) \in Nat /\ DOMAIN s = 1..Len(s) /\ DOMAIN Tail(s) = 1..(Len(s) - 1)
        /\ \A n \in 1..(Len(s) - 1) : Tail(s)[n] = s[n + 1]
    OBVIOUS
  <1>3. /\ i + 1 \in DOMAIN s /\ j + 1 \in DOMAIN s /\ i + 1 < j + 1
        /\ Tail(s)[i] = s[i + 1] /\ Tail(s)[j] = s[j + 1]
    BY <1>1, <1>2
  <1> QED  BY <1>1, <1>3 DEF InOrder

LEMMA PushedSorted ==
    ASSUME TypeOK, Sorted(queues), NEW c \in Calls, attempt[c] = 0
    PROVE  Sorted(Pushed(PriorityOf[c], c))
  <1>1. SUFFICES ASSUME NEW r \in Priorities
                 PROVE  InOrder(Pushed(PriorityOf[c], c)[r], attempt)
    BY DEF Sorted
  <1>2. /\ queues \in [Priorities -> Seq(Calls)] /\ queues[r] \in Seq(Calls)
        /\ InOrder(queues[r], attempt)
    BY <1>1 DEF TypeOK, Sorted
  <1>3. CASE r = PriorityOf[c]
    <2>1. Pushed(PriorityOf[c], c)[r] = Append(queues[r], c)
      BY <1>2, <1>3 DEF Pushed
    <2> QED  BY <1>2, <2>1, AppendInOrder
  <1>4. CASE r # PriorityOf[c]
    BY <1>2, <1>4 DEF Pushed
  <1> QED  BY <1>3, <1>4

LEMMA PushedFrontSorted ==
    ASSUME TypeOK, Sorted(queues), NEW c \in Calls, attempt[c] > 0
    PROVE  Sorted(PushedFront(PriorityOf[c], c))
  <1>1. SUFFICES ASSUME NEW r \in Priorities
                 PROVE  InOrder(PushedFront(PriorityOf[c], c)[r], attempt)
    BY DEF Sorted
  <1>2. /\ queues \in [Priorities -> Seq(Calls)] /\ queues[r] \in Seq(Calls)
        /\ InOrder(queues[r], attempt) /\ attempt[c] # 0
    BY <1>1 DEF TypeOK, Sorted
  <1>3. CASE r = PriorityOf[c]
    <2>1. PushedFront(PriorityOf[c], c)[r] = <<c>> \o queues[r]
      BY <1>2, <1>3 DEF PushedFront
    <2> QED  BY <1>2, <2>1, PrependInOrder
  <1>4. CASE r # PriorityOf[c]
    BY <1>2, <1>4 DEF PushedFront
  <1> QED  BY <1>3, <1>4

LEMMA PopFromSorted ==
    ASSUME NEW q \in [Priorities -> Seq(Calls)], Sorted(q), NEW c, PopFrom(q, c), attempt' = attempt
    PROVE  Sorted(queues)'
  <1>1. PICK k \in 1..Len(Cycle) :
          LET p == Slot(Cycle, turn, k)
          IN  /\ Turns(Cycle, turn, NonEmpty(q), k)
              /\ queues' = [q EXCEPT ![p] = Tail(@)]
    BY DEF PopFrom
  <1> DEFINE p == Slot(Cycle, turn, k)
  <1>2. p \in Priorities /\ q[p] # <<>> /\ queues' = [q EXCEPT ![p] = Tail(@)]
    BY <1>1 DEF Turns, NonEmpty, Available
  <1> HIDE DEF p
  <1>3. ASSUME NEW r \in Priorities
        PROVE  InOrder(queues'[r], attempt')
    <2>1. q[r] \in Seq(Calls) /\ InOrder(q[r], attempt)
      BY <1>3 DEF Sorted
    <2>2. CASE r = p
      <3>1. queues'[r] = Tail(q[r]) /\ q[r] # <<>>
        BY <1>2, <2>2
      <3> QED  BY <2>1, <3>1, TailInOrder
    <2>3. CASE r # p
      BY <1>2, <2>1, <2>3
    <2> QED  BY <2>2, <2>3
  <1> QED  BY <1>3 DEF Sorted

\* A request leaves the queues sorted, with or without a pop,
LEMMA RequestSorted ==
    ASSUME NEW q \in [Priorities -> Seq(Calls)], Sorted(q), NEW avail, Request(q, avail),
           attempt' = attempt
    PROVE  Sorted(queues)'
  <1>1. CASE queues' = q
    BY <1>1 DEF Sorted
  <1> QED  BY <1>1, PopFromSorted DEF Request

\* and so does a push that notifies the request.
LEMMA NotifySorted ==
    ASSUME NEW q \in [Priorities -> Seq(Calls)], Sorted(q), NEW avail, Notify(q, avail),
           attempt' = attempt
    PROVE  Sorted(queues)'
  <1>1. CASE queues' = q
    BY <1>1 DEF Sorted
  <1> QED  BY <1>1, RequestSorted DEF Notify

\* A step that changes neither the queues nor the attempts, and starts none
LEMMA SameOrder ==
    ASSUME RetryInv, UNCHANGED <<queues, attempt>>, received \subseteq received', executing' \subseteq executing
    PROVE  RetryInv'
  BY DEF RetryInv, Sorted, Attempted

\* Every handler keeps the order: one step for each action.
LEMMA NextRetryInv == IInv /\ RetryInv /\ [Next]_vars => RetryInv'
  <1> SUFFICES ASSUME IInv, RetryInv, [Next]_vars PROVE RetryInv'  OBVIOUS
  <1>0. /\ TypeOK /\ Sorted(queues) /\ Attempted /\ queues \in [Priorities -> Seq(Calls)]
        /\ attempt \in [Calls -> Nat]
    BY DEF IInv, TypeOK, RetryInv
  <1>1. CASE Start \/ Dispatch
    <2>1. Request(queues, available) /\ UNCHANGED <<attempt, received, executing>>
      BY <1>1 DEF Start, Dispatch, taskVars
    <2> QED  BY <1>0, <2>1, RequestSorted DEF RetryInv, Attempted
  <1>2. CASE Stop \/ Pause \/ UNCHANGED vars
    BY <1>2, SameOrder DEF Stop, Pause, TogglePause, vars, worklistVars, taskVars
  <1>3. ASSUME NEW c \in Calls, Submit(c) PROVE RetryInv'
    <2>1. attempt[c] = 0
      BY <1>0, <1>3 DEF Submit, Fresh, Attempted
    <2>2. Sorted(queues)'
      BY <1>0, <1>3, <2>1, PushedSorted, PushedType, NotifySorted DEF Submit
    <2> QED  BY <1>0, <1>3, <2>2 DEF Submit, RetryInv, Attempted
  <1>4. ASSUME NEW c \in Calls, Refuse(c) PROVE RetryInv'
    BY <1>4, SameOrder DEF Refuse, worklistVars
  <1>5. ASSUME NEW s \in Sessions, Report(s) \/ Hired(s) \/ PingFails(s) PROVE RetryInv'
    BY <1>5, SameOrder DEF Report, Hired, PingFails, worklistVars, taskVars
  <1>6. ASSUME NEW s \in Sessions, NEW c \in Calls, <<s, c>> \in executing,
               executing' = executing \ {<<s, c>>}, NEW avail,
               Notify(PushedFront(PriorityOf[c], c), avail), UNCHANGED <<attempt, received>>
        PROVE  RetryInv'
    <2>1. attempt[c] > 0
      BY <1>0, <1>6 DEF Attempted
    <2>2. Sorted(queues)'
      BY <1>0, <1>6, <2>1, PushedFrontSorted, PushedType, NotifySorted
    <2> QED  BY <1>0, <1>6, <2>2 DEF RetryInv, Attempted
  <1>7. ASSUME NEW s \in Sessions, Disconnect(s) PROVE RetryInv'
    <2>1. attempt' = attempt /\ received' = received
      BY <1>7 DEF Disconnect
    <2>2. CASE LosePinged(s) \/ LoseIdle(s)
      BY <2>1, <2>2, SameOrder DEF LosePinged, LoseIdle
    <2>3. ASSUME NEW c \in Calls, LoseExecuting(s, c) PROVE RetryInv'
      BY <1>6, <2>1, <2>3 DEF LoseExecuting
    <2> QED  BY <1>7, <2>2, <2>3 DEF Disconnect
  <1>8. ASSUME NEW s \in Sessions, NEW c \in Calls, Execute(s, c) PROVE RetryInv'
    <2>1. /\ <<s, c>> \in scheduled /\ queues' = queues /\ received' = received
          /\ attempt' = [attempt EXCEPT ![c] = @ + 1]
          /\ executing' \subseteq executing \cup {<<s, c>>}
      BY <1>8 DEF Execute, worklistVars
    <2>2. ~In(queues, c) /\ c \in received
      BY <2>1 DEF IInv, Kept, Works, Waits
    <2>3. /\ attempt'[c] = attempt[c] + 1 /\ attempt[c] \in Nat
          /\ \A d \in Calls : d # c => attempt'[d] = attempt[d]
      BY <1>0, <2>1
    <2>4. ASSUME NEW p \in Priorities, NEW i \in DOMAIN queues[p]
          PROVE  attempt'[queues[p][i]] = attempt[queues[p][i]]
      <3>1. queues[p][i] \in Calls
        BY <1>0, ElementOfSeq
      <3>2. PriorityOf[queues[p][i]] = p
        BY DEF IInv, Apart, Tidy
      <3>3. queues[p][i] # c
        BY <2>2, <3>2 DEF In
      <3> QED  BY <2>3, <3>1, <3>3
    <2>5. Sorted(queues)'
      <3>1. ASSUME NEW p \in Priorities PROVE InOrder(queues[p], attempt')
        BY <1>0, <2>4, <3>1 DEF Sorted, InOrder
      <3> QED  BY <2>1, <3>1 DEF Sorted
    <2>6. Attempted'
      BY <1>0, <2>1, <2>2, <2>3 DEF Attempted
    <2> QED  BY <2>5, <2>6 DEF RetryInv
  <1>9. ASSUME NEW s \in Sessions, NEW c \in Calls, NEW a, Complete(s, c, a) PROVE RetryInv'
    BY <1>9, SameOrder DEF Complete, worklistVars
  <1>10. ASSUME NEW s \in Sessions, NEW c \in Calls, Retry(s, c) PROVE RetryInv'
    BY <1>6, <1>10 DEF Retry, taskVars
  <1> QED
    BY <1>1, <1>2, <1>3, <1>4, <1>5, <1>7, <1>8, <1>9, <1>10 DEF Next, Answered, Exhausted

\* A retried call is not delayed by calls that came after it: it waits before all
\* calls of its priority that were not attempted yet (pushfront in _handle_error).
THEOREM RetriesGoFirst == Spec => []RetriesFirst
  <1>1. Init => RetryInv
    <2> SUFFICES ASSUME Init PROVE RetryInv  OBVIOUS
    <2>1. \A p \in Priorities : DOMAIN queues[p] = {}
      BY DEF Init, WorklistInit
    <2> QED  BY <2>1 DEF Init, RetryInv, Sorted, InOrder, Attempted
  <1>2. IInv /\ RetryInv /\ [Next]_vars => RetryInv'  BY NextRetryInv
  <1>3. RetryInv => RetriesFirst  BY DEF RetryInv, Sorted, InOrder, RetriesFirst
  <1> QED  BY <1>1, <1>2, <1>3, IInvHolds, PTL DEF Spec
=============================================================================
