------------------------- MODULE EventQueueManager -------------------------
(***************************************************************************)
(* The queues of a collector daemon's outgoing events                      *)
(* (Products/ZenHub/PBDaemon.py, DequeEventQueue, DeDupingEventQueue and   *)
(* EventQueueManager): events are queued and de-duplicated, superfluous    *)
(* clear events are dropped, full queues discard their oldest events, and  *)
(* a flush sends what is queued in chunks and puts back what it could not  *)
(* send.                                                                   *)
(*                                                                         *)
(* An event is what its fingerprint tells apart, its kind and its `count'  *)
(* field (1 when it has none), with the order in which it was queued last  *)
(* as its id; times and the other fields are left out.  A queue is a       *)
(* sequence of entries, each an event and the fingerprint it was filed     *)
(* under (the key of the OrderedDict; DequeEventQueue does not use it).    *)
(***************************************************************************)
EXTENDS Integers, FiniteSets, Sequences, SequencesExt

CONSTANTS Kinds,                   \* what events there are
          Clears,                  \* those of severity Clear
          ClearFingerprint,        \* what an event is a clear, or a problem, of
          Deduplicate,             \* options.deduplicate_events
          AllowDuplicateClears,    \* options.allowduplicateclears
          DuplicateClearInterval,  \* options.duplicateclearinterval
          MaxQueueLen,             \* options.maxqueuelen
          ChunkSize,               \* options.eventflushchunksize
          MaxEvents                \* bound: events queued in a behaviour

ASSUME EventAssumption ==
    /\ Clears \subseteq Kinds
    /\ DOMAIN ClearFingerprint = Kinds
    /\ {Deduplicate, AllowDuplicateClears} \subseteq BOOLEAN
    /\ {DuplicateClearInterval, MaxEvents} \subseteq Nat
    /\ {MaxQueueLen, ChunkSize} \subseteq Nat \ {0}

VARIABLES queue,       \* event_queue and perf_event_queue
          heartbeat,   \* how many heartbeats are queued (deque of maxlen 1)
          clearCount,  \* clear_events_count, a partial function
          flushing,    \* a sendEvents is under way
          prev,        \* the queues it took over, as far as not yet sent
          chunk,       \* what the outstanding remote call sends
          discarded,   \* occurrences in all events ever counted in discarded_events
          lastId,      \* history: how many events were added,
          dropped,     \*   how many of them were superfluous clears,
          lastProblem, \*   the last problem of each clear fingerprint,
          sent         \*   the events of each queue the hub has answered for

added == <<clearCount, discarded, lastId, dropped, lastProblem>>
flush == <<flushing, prev, chunk>>
eqmVars == <<queue, heartbeat, flush, sent, added>>

Queues == {"perf", "event"}
ClearFingerprints == {ClearFingerprint[kind] : kind \in Kinds}
Empty == [q \in Queues |-> <<>>]
NoChunk == [perf |-> <<>>, event |-> <<>>, heartbeat |-> 0]

-----------------------------------------------------------------------------
(* The event queues                                                        *)

Fingerprint(ev) == <<ev.kind, ev.count>>

Entry(ev) == [key |-> Fingerprint(ev), event |-> ev]

\* The places of the queue q where ev would be merged
Filed(q, ev) == IF Deduplicate THEN {i \in DOMAIN q : q[i].key = Fingerprint(ev)}
                ELSE {}

\* append: an event with the fingerprint of a queued one replaces it, at the end
\* of the queue; otherwise a full queue discards its oldest event.
Append1(q, ev) ==
    IF Filed(q, ev) # {}
    THEN LET i == CHOOSE i \in Filed(q, ev) : TRUE
         IN  [queue |-> Append(RemoveAt(q, i),
                          [key |-> Fingerprint(ev),
                           event |-> [ev EXCEPT !.count = q[i].event.count + 1]]),
              discarded |-> <<>>]
    ELSE LET full == Len(q) = MaxQueueLen
         IN  [queue |-> Append(IF full THEN Tail(q) ELSE q, Entry(ev)),
              discarded |-> IF full THEN <<Head(q).event>> ELSE <<>>]

\* The elements of s at the places of the set I, in order
Picked(s, I) ==
    LET picked[n \in 0..Len(s)] == IF n = 0 THEN <<>>
                                   ELSE IF n \in I THEN Append(picked[n - 1], s[n])
                                   ELSE picked[n - 1]
    IN  picked[Len(s)]

\* The places of events that are filed where the i-th of evs is
Same(evs, i) == IF Deduplicate THEN {j \in DOMAIN evs : Fingerprint(evs[j]) = Fingerprint(evs[i])}
                ELSE {i}

\* Events put in an OrderedDict one after the other, under their fingerprints: a
\* later one takes the place of an earlier one that has the same.
FiledInOrder(evs) ==
    Picked([i \in DOMAIN evs |-> Entry(evs[Max(Same(evs, i))])],
           {i \in DOMAIN evs : \A j \in Same(evs, i) : i <= j})

\* The entries of q, each counting the events of evs that are merged into it
Merged(q, evs) == [i \in DOMAIN q |->
                     [q[i] EXCEPT !.event.count =
                        @ + Cardinality({j \in DOMAIN evs : i \in Filed(q, evs[j])})]]

\* The events of evs that are merged into none
Unmerged(q, evs) == Picked(evs, {j \in DOMAIN evs : Filed(q, evs[j]) = {}})

\* Mutants of ExtendLeft: the room taken by queued events is forgotten; the events
\* go behind the queued ones; events that were merged are put back too.
ExtendLeftTooFar(q, evs) ==
    LET add == Unmerged(q, evs)
        surplus == Max({0, Len(add) - MaxQueueLen})
    IN  [queue |-> FiledInOrder(SubSeq(add, surplus + 1, Len(add))) \o q,
         discarded |-> SubSeq(add, 1, surplus)]

ExtendRight(q, evs) ==
    LET surplus == Max({0, Len(evs) - (MaxQueueLen - Len(q))})
    IN  [queue |-> q \o FiledInOrder(SubSeq(evs, surplus + 1, Len(evs))),
         discarded |-> SubSeq(evs, 1, surplus)]

ExtendLeftTwice(q, evs) ==
    LET surplus == Max({0, Len(evs) - (MaxQueueLen - Len(q))})
    IN  [queue |-> FiledInOrder(SubSeq(evs, surplus + 1, Len(evs))) \o Merged(q, evs),
         discarded |-> SubSeq(evs, 1, surplus)]

\* extendleft: events of a failed flush are merged into queued ones that have the
\* same fingerprint, or go before them; those that do not fit, the oldest, are
\* returned to be discarded.
ExtendLeft(q, evs) ==
    LET add == Unmerged(q, evs)
        surplus == Max({0, Len(add) - (MaxQueueLen - Len(q))})
    IN  [queue |-> FiledInOrder(SubSeq(add, surplus + 1, Len(add))) \o Merged(q, evs),
         discarded |-> SubSeq(add, 1, surplus)]

-----------------------------------------------------------------------------
(* The state of clear events                                               *)

ClearsChecked == ~AllowDuplicateClears \/ DuplicateClearInterval > 0

CountOf(fp) == IF fp \in DOMAIN clearCount THEN clearCount[fp] ELSE 0

\* Mutant of CountedClear: a problem does not reset the count of its clears.
CountedClearForEver(kind) ==
    LET fp == ClearFingerprint[kind]
    IN  IF ClearsChecked /\ kind \in Clears
        THEN [f \in DOMAIN clearCount \cup {fp} |->
                IF f = fp THEN CountOf(fp) + 1 ELSE clearCount[f]]
        ELSE clearCount

\* clear_events_count after an event of this kind is added
CountedClear(kind) ==
    LET fp == ClearFingerprint[kind]
    IN  CASE ~ClearsChecked -> clearCount
          [] ClearsChecked /\ kind \in Clears ->
               [f \in DOMAIN clearCount \cup {fp} |->
                  IF f = fp THEN CountOf(fp) + 1 ELSE clearCount[f]]
          [] OTHER -> [f \in DOMAIN clearCount \ {fp} |-> clearCount[f]]

\* The event is not queued, because clears of its kind were added already.
IsSuperfluous(kind) ==
    LET n == CountOf(ClearFingerprint[kind])
    IN  /\ ClearsChecked
        /\ kind \in Clears
        /\ \/ ~AllowDuplicateClears /\ n # 0
           \/ DuplicateClearInterval > 0 /\ n % DuplicateClearInterval # 0

\* _removeDiscardedEventFromClearState, for each of the events evs
Uncounted(count, evs) ==
    LET gone(f) == Cardinality({i \in DOMAIN evs :
                      evs[i].kind \in Clears /\ ClearFingerprint[evs[i].kind] = f})
    IN  IF ~AllowDuplicateClears /\ DuplicateClearInterval = 0
        THEN [f \in DOMAIN count |-> count[f] - gone(f)]
        ELSE count

-----------------------------------------------------------------------------
\* What the events evs stand for, all together: the sum of their counts
Occurrences(evs) == Cardinality(UNION {{i} \X (1..evs[i].count) : i \in DOMAIN evs})

Events(q) == [i \in DOMAIN q |-> q[i].event]

EQMInit == /\ queue = Empty
           /\ heartbeat = 0
           /\ clearCount = <<>>
           /\ discarded = 0
           /\ flushing = FALSE
           /\ prev = Empty
           /\ chunk = NoChunk
           /\ lastId = 0
           /\ dropped = 0
           /\ lastProblem = [fp \in ClearFingerprints |-> 0]
           /\ sent = Empty

\* What addEvent and addPerformanceEvent make of the queues, and what a full queue
\* discards for it: nothing changes when the event is a superfluous clear.
Filing(q, kind) ==
    IF IsSuperfluous(kind) THEN [queue |-> queue, discarded |-> <<>>]
    ELSE LET r == Append1(queue[q], [id |-> lastId + 1, kind |-> kind, count |-> 1])
         IN  [queue |-> [queue EXCEPT ![q] = r.queue], discarded |-> r.discarded]

\* What they change besides the queues
Recorded(q, kind) ==
    LET out == Filing(q, kind).discarded
    IN  /\ clearCount' = Uncounted(CountedClear(kind), out)
        /\ discarded' = discarded + Occurrences(out)
        /\ lastId' = lastId + 1
        /\ dropped' = IF IsSuperfluous(kind) THEN dropped + 1 ELSE dropped
        /\ lastProblem' = IF kind \in Clears THEN lastProblem
                          ELSE [lastProblem EXCEPT ![ClearFingerprint[kind]] = lastId + 1]

AddEvent(q, kind) == /\ lastId < MaxEvents
                     /\ queue' = Filing(q, kind).queue
                     /\ Recorded(q, kind)
                     /\ UNCHANGED <<heartbeat, flush, sent>>

AddHeartbeatEvent == /\ heartbeat' = 1
                     /\ UNCHANGED <<queue, flush, sent, added>>

\* chunk_events: up to ChunkSize events of the queues taken over, heartbeats
\* first, then performance events.
FirstOf(q, n) == SubSeq(q, 1, Min({n, Len(q)}))

\* Mutant of AllBut: the last event of a chunk is left to the next one too.
AllButOneLess(q, n) == SubSeq(q, Max({1, Min({n, Len(q)})}), Len(q))

AllBut(q, n) == SubSeq(q, Min({n, Len(q)}) + 1, Len(q))

ChunkOf(hb, qs) ==
    LET room == ChunkSize - hb
    IN  [heartbeat |-> hb,
         perf  |-> Events(FirstOf(qs["perf"], room)),
         event |-> Events(FirstOf(qs["event"], room - Min({room, Len(qs["perf"])})))]

RestOf(hb, qs) ==
    LET room == ChunkSize - hb
    IN  [q \in Queues |->
           IF q = "perf" THEN AllBut(qs[q], room)
           ELSE AllBut(qs[q], room - Min({room, Len(qs["perf"])}))]

\* The next chunk is sent, or the flush is over.
SendNext(hb, qs) ==
    /\ chunk' = ChunkOf(hb, qs)
    /\ prev' = RestOf(hb, qs)
    /\ flushing' = (ChunkOf(hb, qs) # NoChunk)

\* sendEvents: new queues take the place of the queues qs and the heartbeats hb.
TakeOver(hb, qs) == /\ queue' = Empty
                    /\ heartbeat' = 0
                    /\ SendNext(hb, qs)

\* pushEvents, its only caller, sees to it that no flush is under way.
SendEvents == /\ ~flushing
              /\ TakeOver(heartbeat, queue)
              /\ UNCHANGED <<sent, added>>

FlushEnds == /\ flushing' = FALSE
             /\ prev' = Empty
             /\ chunk' = NoChunk

\* The hub has answered for the chunk.
Answered == sent' = [q \in Queues |-> sent[q] \o chunk[q]]

ChunkSent == /\ flushing
             /\ Answered
             /\ SendNext(0, prev)
             /\ UNCHANGED <<queue, heartbeat, added>>

\* The remote call fails: the chunk and all that was not sent go back, except
\* heartbeats.
ChunkFailed ==
    /\ flushing
    /\ LET back == [q \in Queues |->
                      ExtendLeft(queue[q], chunk[q] \o Events(prev[q]))]
           over == back["perf"].discarded \o back["event"].discarded
       IN  /\ queue' = [q \in Queues |-> back[q].queue]
           /\ discarded' = discarded + Occurrences(over)
           /\ clearCount' = Uncounted(clearCount, over)
    /\ FlushEnds
    /\ UNCHANGED <<heartbeat, sent, lastId, dropped, lastProblem>>

EQMNext == \/ \E q \in Queues, kind \in Kinds : AddEvent(q, kind)
           \/ AddHeartbeatEvent
           \/ SendEvents \/ ChunkSent \/ ChunkFailed

EQMSpec == EQMInit /\ [][EQMNext]_eqmVars

-----------------------------------------------------------------------------
(* Properties                                                              *)

Event == [id : 1..MaxEvents, kind : Kinds, count : 1..MaxEvents]

TypeOK ==
    /\ \A q \in Queues :
          /\ queue[q] \in Seq([key : Kinds \X (1..MaxEvents), event : Event])
          /\ prev[q] \in Seq([key : Kinds \X (1..MaxEvents), event : Event])
          /\ {chunk[q], sent[q]} \subseteq Seq(Event)
          /\ Deduplicate => IsInjective([i \in DOMAIN queue[q] |-> queue[q][i].key])
    /\ {heartbeat, chunk.heartbeat} \subseteq {0, 1}
    /\ DOMAIN clearCount \subseteq ClearFingerprints
    /\ \A fp \in DOMAIN clearCount : clearCount[fp] \in Int
    /\ {discarded, lastId, dropped} \subseteq 0..MaxEvents
    /\ flushing \in BOOLEAN
    /\ lastProblem \in [ClearFingerprints -> 0..MaxEvents]

\* All events of a queue that left it for good or are still with the daemon, in
\* the order in which the hub gets them if no call fails
InOrder(q) == sent[q] \o chunk[q] \o Events(prev[q]) \o Events(queue[q])

\* The queues stay within maxqueuelen, whatever is queued while a flush that
\* fails later is under way.
QueueBounded == \A q \in Queues : Len(queue[q]) <= MaxQueueLen

Accounted == Occurrences(InOrder("perf")) + Occurrences(InOrder("event")) + discarded

\* Every occurrence of an event that was queued is sent, on its way, queued, or
\* in an event that was counted as discarded, across any number of failed flushes.
NoOccurrenceLost == Accounted = lastId - dropped

\* No occurrence is counted twice: merging an event into one that is queued never
\* reports more occurrences than there were.
NoOccurrenceInvented == Accounted <= lastId - dropped

\* The hub gets each event of a queue once, and without de-duplication in the order in
\* which they were queued: what a failed flush puts back goes before what was queued
\* meanwhile.  With de-duplication it need not be the order: FiledInOrder keeps the later
\* of two events in the place of the earlier.
OrderKept == \A q \in Queues : \A i, j \in DOMAIN InOrder(q) :
                i < j => /\ InOrder(q)[i].id # InOrder(q)[j].id
                         /\ ~Deduplicate => InOrder(q)[i].id < InOrder(q)[j].id

\* Whenever the next clear of a problem would be dropped, one that was queued after
\* the problem is sent, on its way or queued.
AClearIsComing ==
    (~AllowDuplicateClears /\ DuplicateClearInterval = 0) =>
       \A fp \in ClearFingerprints : CountOf(fp) # 0 =>
          \E q \in Queues : \E i \in DOMAIN InOrder(q) :
             LET ev == InOrder(q)[i]
             IN  /\ ev.kind \in Clears
                 /\ ClearFingerprint[ev.kind] = fp
                 /\ ev.id > lastProblem[fp]

\* No problem stays open because all its clears were dropped, as long as no event
\* has been discarded: problems and clears of both queues may come in any order,
\* be merged, and be put back after a failed flush.
ClearsGetThrough == discarded = 0 => AClearIsComing

\* The comment of _removeDiscardedEventFromClearState (PBDaemon.py:474-489): clears
\* are not dropped for ever once a clear was discarded, since its state is removed.
ClearsSurviveDiscards == AClearIsComing
=============================================================================
