----------------------------- MODULE PushEvents -----------------------------
(***************************************************************************)
(* How a collector daemon flushes its events to ZenHub                     *)
(* (Products/ZenHub/PBDaemon.py, PBDaemon.sendEvent, pushEvents,           *)
(* pushEventsLoop and _stopPbDaemon), composed with the queues it flushes. *)
(*                                                                         *)
(* pushEvents is a coroutine.  At most one of its calls is past the check  *)
(* of _pushEventsDeferred; what the others do, they do at once, except     *)
(* that a call without a connection releases the throttle on the next      *)
(* turn of the reactor.  While the queue is above the high water mark,     *)
(* sendEvent makes its callers wait for the throttle instead of flushing.  *)
(*                                                                         *)
(* The daemon puts no event in the performance queue (no code of the       *)
(* repository calls addPerformanceEvent).                                  *)
(***************************************************************************)
EXTENDS EventQueueManager

CONSTANTS HighWaterMark,  \* options.maxqueuelen * options.queueHighWaterMark
          StopKind,       \* the kind of the stop event
          MaxFailures,    \* bound: flushes that fail and connections lost
          MaxReleasing    \* bound: calls without a connection at the same time

ASSUME PushAssumption == /\ HighWaterMark \in Nat \ {0}
                         /\ StopKind \in Kinds
                         /\ {MaxFailures, MaxReleasing} \subseteq Nat

VARIABLES service,    \* the EventService is in `services'
          pushing,    \* the call of pushEvents that flushes: "no", "sending" or
                      \* "settling" (the flush failed; the reactor's next turn)
          releasing,  \* how many calls without a connection are to go on
          throttled,  \* _eventHighWaterMark is set
          stop,       \* _stopPbDaemon: "no"; or it waits for the flush under way
                      \* ("waiting"), for its own flush ("flushing") or for a
                      \* call without connection ("releasing"); or "done"
          failures    \* how many flushes have failed or connections were lost

daemonVars == <<service, pushing, releasing, throttled, stop, failures>>
vars == <<eqmVars, daemonVars>>

Size(hb, qs) == hb + Len(qs["perf"]) + Len(qs["event"])

High(hb, qs) == Size(hb, qs) >= HighWaterMark

PushInit == /\ EQMInit
            /\ service = TRUE
            /\ pushing = "no"
            /\ releasing = 0
            /\ throttled = FALSE
            /\ stop = "no"
            /\ failures = 0

-----------------------------------------------------------------------------
\* The flush of the queues qs starts; one without events ends at once and
\* releases the throttle.
Flush(qs) == /\ TakeOver(heartbeat, qs)
             /\ pushing' = IF Size(heartbeat, qs) > 0 THEN "sending" ELSE "no"
             /\ throttled' = (Size(heartbeat, qs) > 0 /\ (throttled \/ High(heartbeat, qs)))
             /\ UNCHANGED releasing

\* Mutant of Push: _pushEventsDeferred is not looked at.
PushAnyway(qs) ==
    \/ /\ service
       /\ Flush(qs)
    \/ /\ ~service
       /\ throttled' = (throttled \/ High(heartbeat, qs))
       /\ releasing < MaxReleasing
       /\ releasing' = releasing + 1
       /\ queue' = qs
       /\ UNCHANGED <<heartbeat, flush, pushing>>

\* pushEvents is called when the queues are qs.
Push(qs) ==
    \/ /\ service
       /\ pushing = "no"
       /\ Flush(qs)
    \/ /\ service => pushing # "no"
       /\ throttled' = (throttled \/ High(heartbeat, qs))
       /\ IF service THEN UNCHANGED releasing
          ELSE /\ releasing < MaxReleasing
               /\ releasing' = releasing + 1
       /\ queue' = qs
       /\ UNCHANGED <<heartbeat, flush, pushing>>

\* Mutant of Finish: the throttle is not released.
FinishThrottled ==
    /\ pushing' = "no"
    /\ FlushEnds
    /\ UNCHANGED <<throttled, releasing, queue, heartbeat, stop>>

\* The end of a flush: `repush' starts another one when a chunk or more is queued,
\* a stop that waits flushes what is queued then, unless that was just done, and
\* the throttle is released when the queue is below the mark.
Finish ==
    LET size   == Size(heartbeat, queue)
        repush == size >= ChunkSize
        pushes == (IF repush THEN 1 ELSE 0) + (IF stop = "waiting" THEN 1 ELSE 0)
    IN  /\ IF service /\ pushes > 0
           THEN /\ TakeOver(heartbeat, queue)
                /\ pushing' = IF size > 0 THEN "sending" ELSE "no"
                /\ throttled' = FALSE
                /\ UNCHANGED releasing
           ELSE /\ pushing' = "no"
                /\ throttled' = (High(heartbeat, queue) /\ (throttled \/ pushes > 0))
                /\ releasing + pushes <= MaxReleasing
                /\ releasing' = releasing + pushes
                /\ FlushEnds
                /\ UNCHANGED <<queue, heartbeat>>
        /\ stop' = CASE stop = "flushing" -> "done"
                     [] stop = "waiting" /\ ~service -> "releasing"
                     [] stop = "waiting" /\ service ->
                          IF repush \/ size = 0 THEN "done" ELSE "flushing"
                     [] OTHER -> stop

-----------------------------------------------------------------------------
Running == stop # "done"

\* sendEvent
SendEvent(kind) ==
    /\ Running
    /\ lastId < MaxEvents
    /\ Recorded("event", kind)
    /\ LET new == Filing("event", kind).queue
       IN  \/ /\ throttled \/ ~High(heartbeat, new)
              /\ queue' = new
              /\ UNCHANGED <<heartbeat, flush, pushing, releasing, throttled>>
           \/ /\ ~throttled /\ High(heartbeat, new)
              /\ Push(new)
    /\ UNCHANGED <<sent, service, stop, failures>>

\* heartbeat
Heartbeat == /\ Running
             /\ AddHeartbeatEvent
             /\ UNCHANGED daemonVars

\* pushEventsLoop, every eventflushseconds
PushLoop == /\ Running
            /\ Push(queue)
            /\ UNCHANGED <<sent, added, service, stop, failures>>

\* Mutant of Release: the throttle is left as it is.
ReleaseNothing == /\ Running
                  /\ releasing > 0
                  /\ releasing' = releasing - 1
                  /\ stop' = IF stop = "releasing" THEN "done" ELSE stop
                  /\ UNCHANGED <<eqmVars, service, pushing, throttled, failures>>

\* A call without a connection goes on: "release throttle and let things queue".
Release == /\ Running
           /\ releasing > 0
           /\ releasing' = releasing - 1
           /\ throttled' = FALSE
           /\ \/ stop' = stop /\ ~(stop = "releasing" /\ releasing = 1)
              \/ stop = "releasing" /\ stop' = "done"
           /\ UNCHANGED <<eqmVars, service, pushing, failures>>

\* The hub answers for a chunk: the next one is sent, or the flush ends.
Answer == /\ Running
          /\ pushing = "sending"
          /\ Answered
          /\ \/ /\ ChunkOf(0, prev) # NoChunk
                /\ SendNext(0, prev)
                /\ UNCHANGED <<queue, heartbeat, pushing, releasing, throttled, stop>>
             \/ /\ ChunkOf(0, prev) = NoChunk
                /\ Finish
          /\ UNCHANGED <<added, service, failures>>

\* The remote call fails, because the hub answers with an error or because the
\* connection is lost; in the second case the service is removed right after.
FlushFails == /\ Running
              /\ pushing = "sending"
              /\ failures < MaxFailures
              /\ ChunkFailed
              /\ pushing' = "settling"
              /\ failures' = failures + 1
              /\ service' \in {TRUE, FALSE}
              /\ UNCHANGED <<releasing, throttled, stop>>

\* Mutant of Settle: a failed flush does not reset _pushEventsDeferred.
SettleNever == /\ Running
               /\ pushing = "settling"
               /\ UNCHANGED vars

\* The turn of the reactor after a failure
Settle == /\ Running
          /\ pushing = "settling"
          /\ Finish
          /\ UNCHANGED <<sent, added, service, failures>>

\* The connection is lost with no remote call outstanding, and made again.
Disconnect == /\ Running
              /\ service
              /\ pushing # "sending"
              /\ failures < MaxFailures
              /\ service' = FALSE
              /\ failures' = failures + 1
              /\ UNCHANGED <<eqmVars, pushing, releasing, throttled, stop>>

Connect == /\ Running
           /\ ~service
           /\ service' = TRUE
           /\ UNCHANGED <<eqmVars, pushing, releasing, throttled, stop, failures>>

\* _stopPbDaemon: the stop event is sent like any other, and a flush is awaited.
Stop ==
    /\ stop = "no"
    /\ \/ /\ ~service
          /\ stop' = "done"
          /\ UNCHANGED <<eqmVars, pushing, releasing, throttled>>
       \/ /\ service
          /\ lastId < MaxEvents
          /\ Recorded("event", StopKind)
          /\ LET new == Filing("event", StopKind).queue
             IN  /\ Push(new)
                 /\ stop' = IF pushing # "no" \/ (High(heartbeat, new) /\ ~throttled)
                            THEN "waiting" ELSE "flushing"
          /\ UNCHANGED sent
    /\ UNCHANGED <<service, failures>>

PushNext == \/ \E kind \in Kinds \ {StopKind} : SendEvent(kind)
            \/ Heartbeat \/ PushLoop \/ Release \/ Answer \/ FlushFails \/ Settle
            \/ Disconnect \/ Connect \/ Stop

PushSpec == PushInit /\ [][PushNext]_vars

\* The reactor keeps calling what is scheduled, and a remote call is answered or
\* fails.
PushFairness == /\ WF_vars(PushLoop) /\ WF_vars(Release) /\ WF_vars(Settle)
                /\ WF_vars(Answer)

LivePushSpec == PushSpec /\ PushFairness

-----------------------------------------------------------------------------
(* Properties                                                              *)

\* The throttle is not left set behind an emptied queue: while it is set, the queue
\* is above the high water mark, or a call that will look again is under way.
ThrottleJustified == throttled => \/ High(heartbeat, queue)
                                  \/ pushing # "no"
                                  \/ releasing > 0

\* The throttle is released in the end, with or without a connection: whoever waits
\* for the deferred that sendEvent returned goes on.
ThrottleReleased == throttled ~> (~throttled \/ stop = "done")

\* Every event that is queued is sent in the end, however often flushes failed or
\* the connection was lost before, if the daemon goes on and stays connected from
\* some time on and no event was discarded.
EventsDelivered == \A id \in 1..MaxEvents :
    (<>[]service /\ <>(lastId >= id)) =>
       <>(\/ \E i \in DOMAIN sent["event"] : sent["event"][i].id = id
          \/ discarded > 0
          \/ stop = "done")
=============================================================================
