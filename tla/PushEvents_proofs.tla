--------------------------- MODULE PushEvents_proofs ---------------------------
(***************************************************************************)
(* What flushing keeps true of the queues of events, for any queue length, *)
(* chunk size, high water mark and number of events and failures: the      *)
(* invariant of EventQueueManager, of whose steps those of PushEvents are  *)
(* composed, and the one of the throttle.                                  *)
(***************************************************************************)
EXTENDS PushEvents, EventQueueManager_proofs

\* Only the call of pushEvents that is past the check has a flush under way.
OneFlushes == pushing # "sending" => ~flushing

PInv == IInv /\ OneFlushes /\ releasing \in Nat /\ ThrottleJustified

-----------------------------------------------------------------------------
(* Sizes                                                                   *)

LEMMA AppendKeepsLength ==
    ASSUME NEW s \in Seq(AnyEntry), Len(s) <= MaxQueueLen, NEW ev \in AnyEvent
    PROVE  Len(s) <= Len(Append1(s, ev).queue)
  <1>1. Len(s) \in Nat /\ MaxQueueLen \in Nat \ {0} /\ DOMAIN s = 1..Len(s)
    BY LenProperties, EventAssumption
  <1>2. CASE Filed(s, ev) # {}
    <2> DEFINE i == CHOOSE i \in Filed(s, ev) : TRUE
               x == [key |-> Fingerprint(ev), event |-> [ev EXCEPT !.count = s[i].event.count + 1]]
    <2>1. i \in 1..Len(s)
      BY <1>1, <1>2 DEF Filed
    <2> HIDE DEF i
    <2>2. RemoveAt(s, i) \in Seq(AnyEntry) /\ Len(RemoveAt(s, i)) = Len(s) - 1
      BY <2>1, RemoveAtProperties
    <2> HIDE DEF x
    <2>3. Append1(s, ev).queue = Append(RemoveAt(s, i), x)
      BY <1>2 DEF Append1, i, x
    <2>4. Len(Append(RemoveAt(s, i), x)) = Len(RemoveAt(s, i)) + 1
      <3> DEFINE r == RemoveAt(s, i)
      <3>1. r \in Seq(AnyEntry)
        BY <2>2
      <3> HIDE DEF r
      <3>2. Len(Append(r, x)) = Len(r) + 1
        BY <3>1
      <3> QED  BY <3>2 DEF r
    <2> QED  BY <1>1, <2>2, <2>3, <2>4
  <1>3. CASE Filed(s, ev) = {}
    <2> DEFINE t == IF Len(s) = MaxQueueLen THEN Tail(s) ELSE s
    <2>1. t \in Seq(AnyEntry) /\ Len(t) >= Len(s) - 1
      <3>1. CASE Len(s) = MaxQueueLen
        <4>1. s # <<>>
          BY <1>1, <3>1
        <4>2. Tail(s) \in Seq(AnyEntry) /\ Len(Tail(s)) = Len(s) - 1
          BY <4>1, HeadTailProperties
        <4> QED  BY <1>1, <3>1, <4>2
      <3>2. CASE Len(s) # MaxQueueLen
        <4>1. t = s
          BY <3>2
        <4>2. Len(s) >= Len(s) - 1
          BY <1>1
        <4> HIDE DEF t
        <4> QED  BY <4>1, <4>2
      <3> QED  BY <3>1, <3>2
    <2>2. Append1(s, ev).queue = Append(t, Entry(ev))
      BY <1>3 DEF Append1
    <2> HIDE DEF t
    <2>3. Len(Append(t, Entry(ev))) = Len(t) + 1 /\ Len(t) \in Nat
      BY <2>1
    <2> QED  BY <1>1, <2>1, <2>2, <2>3
  <1> QED  BY <1>2, <1>3

LEMMA SizeType ==
    ASSUME NEW hb \in Nat, NEW qs \in [Queues -> Seq(AnyEntry)]
    PROVE  /\ Size(hb, qs) \in Nat
           /\ Size(hb, qs) = 0 => hb = 0 /\ qs = Empty
  <1>1. qs["perf"] \in Seq(AnyEntry) /\ qs["event"] \in Seq(AnyEntry)
    BY DEF Queues
  <1>2. Len(qs["perf"]) \in Nat /\ Len(qs["event"]) \in Nat
    BY <1>1, LenProperties
  <1> DEFINE a == Len(qs["perf"])
             b == Len(qs["event"])
  <1>3. Size(hb, qs) = hb + a + b /\ a \in Nat /\ b \in Nat
    BY <1>2 DEF Size
  <1> HIDE DEF a, b
  <1>4. Size(hb, qs) \in Nat /\ (Size(hb, qs) = 0 => hb = 0 /\ a = 0 /\ b = 0)
    BY <1>3
  <1>5. ASSUME a = 0, b = 0 PROVE qs = Empty
    <2>1. qs["perf"] = <<>> /\ qs["event"] = <<>>
      BY <1>1, <1>5, EmptySeq DEF a, b
    <2> QED  BY <2>1 DEF Empty, Queues
  <1> QED  BY <1>4, <1>5

\* There is nothing to send of empty queues.
LEMMA EmptyChunk == ChunkOf(0, Empty) = NoChunk
  <1>1. Empty \in [Queues -> Seq(AnyEntry)] /\ 0 \in {0, 1}
    BY EmptyLines DEF Empty
  <1>2. ASSUME NEW q \in Queues PROVE ChunkOf(0, Empty)[q] = <<>>
    <2> DEFINE c == ChunkOf(0, Empty)[q]
               r == Events(RestOf(0, Empty)[q])
    <2>1. c \in Seq(AnyEvent) /\ c \o r = <<>> /\ RestOf(0, Empty)[q] \in Seq(AnyEntry)
      BY <1>1, ChunkProperties, EmptyLines
    <2>2. r \in Seq(AnyEvent)
      BY <2>1, EventsType
    <2> HIDE DEF c, r
    <2>3. Len(c) \in Nat /\ Len(r) \in Nat /\ Len(c \o r) = Len(c) + Len(r)
      BY <2>1, <2>2, Concat
    <2>4. Len(c) = 0
      BY <2>1, <2>3
    <2> QED  BY <2>1, <2>4, EmptySeq DEF c
  <1>3. ChunkOf(0, Empty).perf = <<>> /\ ChunkOf(0, Empty).event = <<>> /\ ChunkOf(0, Empty).heartbeat = 0
    BY <1>1, <1>2, ChunkProperties DEF Queues
  <1> QED  BY <1>3 DEF ChunkOf, NoChunk

-----------------------------------------------------------------------------
(* The parts of the steps                                                  *)

\* A flush takes over the queues qs and sends the first of them.
LEMMA TakenKeeps ==
    ASSUME NEW qs, heartbeat \in {0, 1}, lastId' <= MaxEvents, TakeOver(heartbeat, qs),
           Good(qs, NoChunk, Empty, sent', discarded', lastId', dropped', clearCount', lastProblem'),
           pushing' = IF Size(heartbeat, qs) > 0 THEN "sending" ELSE "no"
    PROVE  IInv' /\ OneFlushes'
  <1>1. queue' = Empty /\ heartbeat' = 0 /\ SendNext(heartbeat, qs)
    BY DEF TakeOver
  <1>2. chunk' = ChunkOf(heartbeat, qs) /\ prev' = RestOf(heartbeat, qs)
        /\ flushing' = (ChunkOf(heartbeat, qs) # NoChunk)
    BY <1>1 DEF SendNext
  <1>3. qs \in [Queues -> Seq(AnyEntry)]
    BY DEF Good, Fine
  <1>4. GoodNow'
    BY <1>1, <1>2, GoodTaken DEF GoodNow
  <1>5. Resting'
    BY <1>1, <1>3, NextRests DEF Resting
  <1>6. OneFlushes'
    <2> SUFFICES ASSUME pushing' # "sending" PROVE ~flushing'
      BY DEF OneFlushes
    <2>1. Size(heartbeat, qs) = 0
      BY <1>3, SizeType
    <2>2. heartbeat = 0 /\ qs = Empty
      BY <1>3, <2>1, SizeType
    <2> QED  BY <1>2, <2>2, EmptyChunk
  <1> QED  BY <1>4, <1>5, <1>6 DEF IInv

\* What holds when pushEvents is called, or when a flush ends, and the queues are qs
Ready(qs) ==
    /\ Good(qs, chunk, prev, sent', discarded', lastId', dropped', clearCount', lastProblem')
    /\ lastId' <= MaxEvents /\ Resting /\ OneFlushes /\ releasing \in Nat

LEMMA PushKeeps ==
    ASSUME NEW qs, Ready(qs), sent' = sent, Push(qs)
    PROVE  PInv'
  <1>0. /\ Good(qs, chunk, prev, sent', discarded', lastId', dropped', clearCount', lastProblem')
        /\ lastId' <= MaxEvents /\ releasing \in Nat
        /\ heartbeat \in {0, 1} /\ chunk.heartbeat \in {0, 1} /\ flushing \in BOOLEAN
        /\ ~flushing => chunk = NoChunk /\ prev = Empty
        /\ pushing # "sending" => ~flushing
    BY DEF Ready, Resting, OneFlushes
  <1>1. CASE service /\ pushing = "no" /\ Flush(qs)
    <2>1. /\ TakeOver(heartbeat, qs)
          /\ pushing' = IF Size(heartbeat, qs) > 0 THEN "sending" ELSE "no"
          /\ throttled' = (Size(heartbeat, qs) > 0 /\ (throttled \/ High(heartbeat, qs)))
          /\ releasing' = releasing
      BY <1>1 DEF Flush
    <2>2. IInv' /\ OneFlushes'
      BY <1>0, <1>1, <2>1, TakenKeeps
    <2>3. ThrottleJustified'
      BY <2>1 DEF ThrottleJustified
    <2> QED  BY <1>0, <2>1, <2>2, <2>3 DEF PInv
  <1>2. CASE /\ service => pushing # "no"
             /\ throttled' = (throttled \/ High(heartbeat, qs))
             /\ IF service THEN UNCHANGED releasing
                ELSE /\ releasing < MaxReleasing
                     /\ releasing' = releasing + 1
             /\ queue' = qs
             /\ UNCHANGED <<heartbeat, flush, pushing>>
    <2>1. /\ queue' = qs /\ heartbeat' = heartbeat /\ pushing' = pushing
          /\ flushing' = flushing /\ prev' = prev /\ chunk' = chunk
      BY <1>2 DEF flush
    <2>2. GoodNow'
      BY <1>0, <2>1 DEF GoodNow
    <2>3. Resting' /\ OneFlushes'
      BY <1>0, <2>1 DEF Resting, OneFlushes
    <2>4. releasing' \in Nat /\ (service \/ releasing' > 0)
      BY <1>0, <1>2
    <2>5. ThrottleJustified'
      BY <1>2, <2>1, <2>4 DEF ThrottleJustified
    <2> QED  BY <1>0, <2>2, <2>3, <2>4, <2>5 DEF PInv, IInv
  <1> QED  BY <1>1, <1>2 DEF Push

LEMMA FinishKeeps ==
    ASSUME Good(queue, NoChunk, Empty, sent', discarded', lastId', dropped', clearCount', lastProblem'),
           lastId' <= MaxEvents, Resting, releasing \in Nat, Finish
    PROVE  PInv'
  <1> DEFINE size   == Size(heartbeat, queue)
             repush == size >= ChunkSize
             pushes == (IF repush THEN 1 ELSE 0) + (IF stop = "waiting" THEN 1 ELSE 0)
  <1>0. heartbeat \in {0, 1} /\ pushes \in Nat
    BY DEF Resting
  <1>1. CASE /\ TakeOver(heartbeat, queue)
             /\ pushing' = IF size > 0 THEN "sending" ELSE "no"
             /\ throttled' = FALSE
             /\ UNCHANGED releasing
    <2>1. IInv' /\ OneFlushes'
      BY <1>0, <1>1, TakenKeeps
    <2> QED  BY <1>1, <2>1 DEF PInv, ThrottleJustified
  <1>2. CASE /\ pushing' = "no"
             /\ throttled' = (High(heartbeat, queue) /\ (throttled \/ pushes > 0))
             /\ releasing + pushes <= MaxReleasing
             /\ releasing' = releasing + pushes
             /\ FlushEnds
             /\ UNCHANGED <<queue, heartbeat>>
    <2> HIDE DEF pushes
    <2>1. /\ queue' = queue /\ heartbeat' = heartbeat /\ flushing' = FALSE /\ prev' = Empty /\ chunk' = NoChunk
          /\ releasing' \in Nat
      BY <1>0, <1>2 DEF FlushEnds
    <2>2. GoodNow'
      BY <2>1 DEF GoodNow
    <2>3. Resting' /\ OneFlushes'
      BY <1>0, <2>1 DEF Resting, OneFlushes, NoChunk
    <2>4. ThrottleJustified'
      BY <1>2, <2>1 DEF ThrottleJustified
    <2> QED  BY <2>1, <2>2, <2>3, <2>4 DEF PInv, IInv
  <1> QED  BY <1>1, <1>2 DEF Finish

\* An event is filed, and the queues are ready for pushEvents.
LEMMA FilingReady ==
    ASSUME IInv, NEW q \in Queues, NEW kind \in Kinds, lastId < MaxEvents, Recorded(q, kind), sent' = sent
    PROVE  LET qs == Filing(q, kind).queue
           IN  /\ Good(qs, chunk, prev, sent', discarded', lastId', dropped', clearCount', lastProblem')
               /\ lastId' <= MaxEvents
               /\ High(heartbeat, queue) => High(heartbeat, qs)
  <1> DEFINE qs == Filing(q, kind).queue
             r == Append1(queue[q], NewEvent(kind, lastId))
  <1>0. /\ queue \in [Queues -> Seq(AnyEntry)] /\ lastId \in Nat /\ heartbeat \in {0, 1}
        /\ \A p \in Queues : Len(queue[p]) <= MaxQueueLen
    BY StateTypes DEF IInv, Resting
  <1>1. Good(qs, chunk, prev, sent', discarded', lastId', dropped', clearCount', lastProblem')
    BY GoodAdded DEF IInv, GoodNow
  <1>2. lastId' <= MaxEvents
    <2>1. lastId' = lastId + 1
      BY DEF Recorded
    <2> QED  BY <1>0, <2>1, EventAssumption
  <1>3. IF IsSuperfluous(kind) THEN qs = queue ELSE qs = [queue EXCEPT ![q] = r.queue]
    BY DEF Filing, NewEvent
  <1>4. Len(queue[q]) <= Len(r.queue)
    <2>1. NewEvent(kind, lastId) \in AnyEvent
      BY <1>0 DEF NewEvent, AnyEvent
    <2>2. queue[q] \in Seq(AnyEntry)
      BY <1>0
    <2> QED  BY <1>0, <2>1, <2>2, AppendKeepsLength
  <1>5. qs \in [Queues -> Seq(AnyEntry)]
    BY <1>1 DEF Good, Fine
  <1> HIDE DEF qs, r
  <1>6. \A p \in Queues : Len(queue[p]) <= Len(qs[p]) /\ Len(queue[p]) \in Nat /\ Len(qs[p]) \in Nat
    <2>1. ASSUME NEW p \in Queues PROVE Len(queue[p]) \in Nat /\ Len(qs[p]) \in Nat
      <3>1. queue[p] \in Seq(AnyEntry) /\ qs[p] \in Seq(AnyEntry)
        BY <1>0, <1>5
      <3> QED  BY <3>1, LenProperties
    <2>2. ASSUME NEW p \in Queues PROVE Len(queue[p]) <= Len(qs[p])
      <3>1. IsSuperfluous(kind) \/ p # q => qs[p] = queue[p]
        BY <1>0, <1>3
      <3>2. ~IsSuperfluous(kind) /\ p = q => qs[p] = r.queue
        BY <1>0, <1>3
      <3> QED  BY <1>4, <2>1, <3>1, <3>2
    <2> QED  BY <2>1, <2>2
  <1>7. High(heartbeat, queue) => High(heartbeat, qs)
    <2> DEFINE a == Len(queue["perf"])
               b == Len(queue["event"])
               c == Len(qs["perf"])
               d == Len(qs["event"])
    <2>1. a <= c /\ b <= d /\ a \in Nat /\ b \in Nat /\ c \in Nat /\ d \in Nat
      BY <1>6 DEF Queues
    <2>2. Size(heartbeat, queue) = heartbeat + a + b /\ Size(heartbeat, qs) = heartbeat + c + d
      BY DEF Size
    <2> HIDE DEF a, b, c, d
    <2>3. Size(heartbeat, queue) <= Size(heartbeat, qs)
          /\ Size(heartbeat, queue) \in Nat /\ Size(heartbeat, qs) \in Nat
      BY <1>0, <2>1, <2>2
    <2> QED  BY <2>3, PushAssumption DEF High
  <1> QED  BY <1>1, <1>2, <1>7 DEF qs

-----------------------------------------------------------------------------
(* The steps                                                               *)

LEMMA StepSendEvent ==
    ASSUME PInv, NEW kind \in Kinds, SendEvent(kind)
    PROVE  PInv'
  <1> DEFINE new == Filing("event", kind).queue
  <1>0. "event" \in Queues /\ lastId < MaxEvents /\ Recorded("event", kind) /\ sent' = sent
    BY DEF SendEvent, Queues
  <1>1. /\ Good(new, chunk, prev, sent', discarded', lastId', dropped', clearCount', lastProblem')
        /\ lastId' <= MaxEvents
        /\ High(heartbeat, queue) => High(heartbeat, new)
    BY <1>0, FilingReady DEF PInv
  <1>2. Ready(new)
    BY <1>1 DEF Ready, PInv, IInv
  <1>3. CASE /\ throttled \/ ~High(heartbeat, new)
             /\ queue' = new
             /\ UNCHANGED <<heartbeat, flush, pushing, releasing, throttled>>
    <2>1. /\ queue' = new /\ heartbeat' = heartbeat /\ pushing' = pushing /\ releasing' = releasing
          /\ throttled' = throttled /\ flushing' = flushing /\ prev' = prev /\ chunk' = chunk
      BY <1>3 DEF flush
    <2> HIDE DEF new
    <2>2. GoodNow'
      BY <1>1, <2>1 DEF GoodNow
    <2>3. Resting' /\ OneFlushes' /\ releasing' \in Nat
      BY <2>1 DEF PInv, IInv, Resting, OneFlushes
    <2>4. ThrottleJustified'
      BY <1>1, <2>1 DEF PInv, ThrottleJustified
    <2> QED  BY <1>1, <2>2, <2>3, <2>4 DEF PInv, IInv
  <1>4. CASE Push(new)
    BY <1>0, <1>2, <1>4, PushKeeps
  <1> QED  BY <1>3, <1>4 DEF SendEvent

LEMMA StepBeat ==
    ASSUME PInv, Heartbeat
    PROVE  PInv'
  <1>1. AddHeartbeatEvent /\ UNCHANGED daemonVars
    BY DEF Heartbeat
  <1>2. heartbeat' = 1 /\ queue' = queue /\ flushing' = flushing
    BY <1>1 DEF AddHeartbeatEvent, flush
  <1>3. pushing' = pushing /\ releasing' = releasing /\ throttled' = throttled
    BY <1>1 DEF daemonVars
  <1>4. IInv'
    BY <1>1, StepHeartbeat DEF PInv
  <1>5. High(heartbeat, queue) => High(1, queue)
    <2>1. queue \in [Queues -> Seq(AnyEntry)] /\ heartbeat \in {0, 1}
      BY StateTypes DEF PInv, IInv, Resting
    <2> DEFINE a == Len(queue["perf"])
               b == Len(queue["event"])
    <2>2. a \in Nat /\ b \in Nat
      <3>1. queue["perf"] \in Seq(AnyEntry) /\ queue["event"] \in Seq(AnyEntry)
        BY <2>1 DEF Queues
      <3> QED  BY <3>1, LenProperties
    <2>3. Size(heartbeat, queue) = heartbeat + a + b /\ Size(1, queue) = 1 + a + b
      BY DEF Size
    <2> HIDE DEF a, b
    <2> QED  BY <2>1, <2>2, <2>3, PushAssumption DEF High
  <1>6. ThrottleJustified'
    BY <1>2, <1>3, <1>5 DEF PInv, ThrottleJustified
  <1> QED  BY <1>2, <1>3, <1>4, <1>6 DEF PInv, OneFlushes

LEMMA StepLoop ==
    ASSUME PInv, PushLoop
    PROVE  PInv'
  <1>1. /\ Push(queue) /\ sent' = sent /\ discarded' = discarded /\ lastId' = lastId /\ dropped' = dropped
        /\ clearCount' = clearCount /\ lastProblem' = lastProblem
    BY DEF PushLoop, added
  <1>2. Ready(queue)
    BY <1>1 DEF Ready, PInv, IInv, GoodNow
  <1> QED  BY <1>1, <1>2, PushKeeps

LEMMA StepAnswer ==
    ASSUME PInv, Answer
    PROVE  PInv'
  <1>1. /\ Answered /\ pushing = "sending" /\ clearCount' = clearCount /\ discarded' = discarded
        /\ lastId' = lastId /\ dropped' = dropped /\ lastProblem' = lastProblem
    BY DEF Answer, added
  <1>2. Good(queue, NoChunk, prev, sent', discarded', lastId', dropped', clearCount', lastProblem')
    <2>1. Good(queue, NoChunk, prev, [q \in Queues |-> sent[q] \o chunk[q]], discarded, lastId, dropped,
               clearCount, lastProblem)
      BY GoodAnswered DEF PInv, IInv, GoodNow
    <2> QED  BY <1>1, <2>1 DEF Answered
  <1>3. prev \in [Queues -> Seq(AnyEntry)] /\ 0 \in {0, 1}
    BY StateTypes DEF PInv, IInv
  <1>4. CASE /\ SendNext(0, prev)
             /\ UNCHANGED <<queue, heartbeat, pushing, releasing, throttled, stop>>
    <2>1. Good(queue, ChunkOf(0, prev), RestOf(0, prev), sent', discarded', lastId', dropped',
               clearCount', lastProblem')
      BY <1>2, GoodNext
    <2>2. GoodNow'
      BY <1>4, <2>1 DEF GoodNow, SendNext
    <2>3. Resting'
      BY <1>3, <1>4, NextRests DEF PInv, IInv, Resting
    <2>4. OneFlushes' /\ ThrottleJustified'
      BY <1>1, <1>4 DEF OneFlushes, ThrottleJustified
    <2> QED  BY <1>1, <1>4, <2>2, <2>3, <2>4 DEF PInv, IInv
  <1>5. CASE ChunkOf(0, prev) = NoChunk /\ Finish
    <2>1. prev = Empty
      BY <1>3, <1>5, ChunkProperties
    <2>2. Good(queue, NoChunk, Empty, sent', discarded', lastId', dropped', clearCount', lastProblem')
      BY <1>2, <2>1
    <2>3. lastId' <= MaxEvents /\ Resting /\ releasing \in Nat
      BY <1>1 DEF PInv, IInv
    <2> QED  BY <1>5, <2>2, <2>3, FinishKeeps
  <1> QED  BY <1>4, <1>5 DEF Answer

LEMMA StepFlushFails ==
    ASSUME PInv, FlushFails
    PROVE  PInv'
  <1>1. /\ ChunkFailed /\ pushing' = "settling" /\ releasing' = releasing
    BY DEF FlushFails
  <1>2. IInv'
    BY <1>1, StepFailed DEF PInv
  <1>3. flushing' = FALSE
    BY <1>1 DEF ChunkFailed, FlushEnds
  <1> QED  BY <1>1, <1>2, <1>3 DEF PInv, OneFlushes, ThrottleJustified

LEMMA StepSettle ==
    ASSUME PInv, Settle
    PROVE  PInv'
  <1>1. /\ Finish /\ pushing = "settling" /\ sent' = sent /\ discarded' = discarded /\ lastId' = lastId
        /\ dropped' = dropped /\ clearCount' = clearCount /\ lastProblem' = lastProblem
    BY DEF Settle, added
  <1>2. chunk = NoChunk /\ prev = Empty
    BY <1>1 DEF PInv, OneFlushes, IInv, Resting
  <1>3. /\ Good(queue, NoChunk, Empty, sent', discarded', lastId', dropped', clearCount', lastProblem')
        /\ lastId' <= MaxEvents /\ Resting /\ releasing \in Nat
    BY <1>1, <1>2 DEF PInv, IInv, GoodNow
  <1> QED  BY <1>1, <1>3, FinishKeeps

LEMMA StepStop ==
    ASSUME PInv, Stop
    PROVE  PInv'
  <1>1. CASE UNCHANGED <<eqmVars, pushing, releasing, throttled>>
    BY <1>1 DEF PInv, IInv, GoodNow, Resting, OneFlushes, ThrottleJustified, eqmVars, flush, added
  <1>2. ASSUME lastId < MaxEvents, Recorded("event", StopKind), Push(Filing("event", StopKind).queue),
               sent' = sent
        PROVE  PInv'
    <2>1. "event" \in Queues /\ StopKind \in Kinds
      BY PushAssumption DEF Queues
    <2>2. Ready(Filing("event", StopKind).queue)
      BY <1>2, <2>1, FilingReady DEF Ready, PInv, IInv
    <2> QED  BY <1>2, <2>2, PushKeeps
  <1> QED  BY <1>1, <1>2 DEF Stop

-----------------------------------------------------------------------------
(* The invariant and what it implies                                       *)

\* All the callers of pushEvents together (PBDaemon.py:1071-1163) keep the invariant of
\* the queues: a flush starts only where the one before it is over.
THEOREM PushInvariantHolds == PushSpec => []PInv
  <1>1. PushInit => PInv
    <2> SUFFICES ASSUME PushInit PROVE PInv
      OBVIOUS
    <2>1. EQMInit /\ releasing = 0 /\ throttled = FALSE /\ flushing = FALSE
      BY DEF PushInit, EQMInit
    <2>2. 0 <= MaxEvents
      BY EventAssumption
    <2>3. IInv
      BY <2>1, <2>2, GoodInit DEF IInv
    <2> QED  BY <2>1, <2>3 DEF PInv, OneFlushes, ThrottleJustified
  <1>2. PInv /\ [PushNext]_vars => PInv'
    <2> SUFFICES ASSUME PInv, [PushNext]_vars PROVE PInv'
      OBVIOUS
    <2>1. ASSUME NEW kind \in Kinds \ {StopKind}, SendEvent(kind) PROVE PInv'
      BY <2>1, StepSendEvent
    <2>2. CASE Heartbeat
      BY <2>2, StepBeat
    <2>3. CASE PushLoop
      BY <2>3, StepLoop
    <2>4. CASE Release
      <3>1. releasing > 0 /\ releasing' = releasing - 1 /\ throttled' = FALSE /\ UNCHANGED <<eqmVars, pushing>>
        BY <2>4 DEF Release
      <3>2. IInv' /\ OneFlushes'
        BY <3>1 DEF PInv, IInv, GoodNow, Resting, OneFlushes, eqmVars, flush, added
      <3> QED  BY <3>1, <3>2 DEF PInv, ThrottleJustified
    <2>5. CASE Answer
      BY <2>5, StepAnswer
    <2>6. CASE FlushFails
      BY <2>6, StepFlushFails
    <2>7. CASE Settle
      BY <2>7, StepSettle
    <2>8. CASE Stop
      BY <2>8, StepStop
    <2>9. CASE UNCHANGED <<eqmVars, pushing, releasing, throttled>>
      BY <2>9 DEF PInv, IInv, GoodNow, Resting, OneFlushes, ThrottleJustified, eqmVars, flush, added
    <2>10. CASE Disconnect \/ Connect \/ UNCHANGED vars
      BY <2>9, <2>10 DEF Disconnect, Connect, vars, daemonVars
    <2> QED  BY <2>1, <2>2, <2>3, <2>4, <2>5, <2>6, <2>7, <2>8, <2>10 DEF PushNext
  <1> QED  BY <1>1, <1>2, PTL DEF PushSpec

\* The throttle is set only while the queue is above the mark or a call of pushEvents
\* will look at it again (PBDaemon.py:1079-1100, 1150-1163).
THEOREM ThrottleIsJustified == PushSpec => []ThrottleJustified
  <1>1. PInv => ThrottleJustified
    BY DEF PInv
  <1> QED  BY <1>1, PushInvariantHolds, PTL

\* Whatever flushes fail or overlap with calls of pushEvents that do nothing, the
\* queues stay within bounds,
THEOREM PushKeepsQueuesBounded == PushSpec => []QueueBounded
  <1>1. PInv => QueueBounded
    BY GoodBounded DEF PInv, IInv
  <1> QED  BY <1>1, PushInvariantHolds, PTL

\* no event goes to the hub twice, nor out of order without de-duplication,
THEOREM PushKeepsOrder == PushSpec => []OrderKept
  <1>1. PInv => OrderKept
    BY GoodOrder DEF PInv, IInv
  <1> QED  BY <1>1, PushInvariantHolds, PTL

\* and no occurrence is lost without de-duplication.
THEOREM PushLosesNothing ==
    ASSUME ~Deduplicate
    PROVE  PushSpec => []NoOccurrenceLost
  <1>1. PInv => NoOccurrenceLost
    BY GoodNotInvented DEF PInv, IInv
  <1> QED  BY <1>1, PushInvariantHolds, PTL
=============================================================================
