----------------------------- MODULE WorkerPool -----------------------------
(***************************************************************************)
(* The pool of zenhubworkers an executor hires from                        *)
(* (Products/ZenHub/server/workerpool.py).  Each connection of a worker    *)
(* that reports for work gets a session (avatar.py, a new uuid each time), *)
(* and the pool keeps its workers by session.  A session is registered     *)
(* from its report until its connection is lost or a ping fails.           *)
(*                                                                         *)
(* `hire' takes the first available session and pings it.  Its only caller *)
(* is the executor's dispatch loop, one call at a time.  The operators     *)
(* below are steps that run inside the handlers of WorkerPoolExecutor.     *)
(***************************************************************************)
EXTENDS Integers, Sequences

CONSTANT Sessions   \* the sessions of all connections ever made

VARIABLES registered,  \* the keys of __workers and of __services
          gone,        \* sessions that were registered and are no more
          available,   \* the pending values of the WorkerAvailabilityQueue
          hirer,       \* where `hire' is: "none", "waiting" or "pinging"
          pinged       \* the session whose ping it waits for, if any

poolVars == <<registered, gone, available, hirer, pinged>>

PoolInit == /\ registered = {}
            /\ gone = {}
            /\ available = <<>>
            /\ hirer = "none"
            /\ pinged = {}

\* WorkerAvailabilityQueue.add and .discard as functions of the queue
Added(s) == IF \E i \in DOMAIN available : available[i] = s
            THEN available ELSE Append(available, s)

Without(i) == [j \in 1..(Len(available) - 1) |->
                 IF j < i THEN available[j] ELSE available[j + 1]]

Discarded(s) == IF \E i \in DOMAIN available : available[i] = s
                THEN Without(CHOOSE i \in DOMAIN available : available[i] = s)
                ELSE available

\* `hire' asks the queue `avail' for a session: it pings the first one, or waits.
HireFrom(avail) ==
    \/ /\ avail = <<>>
       /\ available' = avail
       /\ hirer' = "waiting"
       /\ pinged' = {}
    \/ /\ avail # <<>>
       /\ available' = Tail(avail)
       /\ hirer' = "pinging"
       /\ pinged' = {Head(avail)}

\* Mutant of Offer: a hire that waits is not told.
OfferSilently(avail) == /\ available' = avail
                        /\ UNCHANGED <<hirer, pinged>>

\* The availability queue becomes `avail': a hire that waits gets its head.
Offer(avail) ==
    \/ /\ hirer = "waiting"
       /\ HireFrom(avail)
    \/ /\ hirer # "waiting"
       /\ available' = avail
       /\ UNCHANGED <<hirer, pinged>>

\* What layoff makes of the availability queue: a session that is still
\* registered is available again, another one is retired.
LaidOff(s) == IF s \in registered THEN Added(s) ELSE available

\* __remove, without its effect on the availability queue
Unregister(s) == /\ registered' = registered \ {s}
                 /\ gone' = gone \cup {s}
=============================================================================
