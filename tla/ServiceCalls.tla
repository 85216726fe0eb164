---------------------------- MODULE ServiceCalls ----------------------------
(***************************************************************************)
(* What an executor of ZenHub promises the clients that submit service     *)
(* calls to it, without queues, priorities or workers: a call is accepted  *)
(* or refused; an accepted call runs on one worker at a time, possibly     *)
(* several times; it is answered once, and never runs after its answer.    *)
(* WorkerPoolExecutor implements it.                                       *)
(***************************************************************************)
CONSTANTS Calls, Replies, NoReply

VARIABLES accepted,  \* the calls that were accepted
          running,   \* those a worker runs now
          reply      \* what each call was answered with, if it was

callVars == <<accepted, running, reply>>

CallsInit == /\ accepted = {}
             /\ running = {}
             /\ reply = [c \in Calls |-> NoReply]

Unanswered(c) == reply[c] = NoReply

Accept(c) == /\ c \notin accepted
             /\ Unanswered(c)
             /\ accepted' = accepted \cup {c}
             /\ UNCHANGED <<running, reply>>

Refused(c) == /\ c \notin accepted
              /\ Unanswered(c)
              /\ \E r \in Replies : reply' = [reply EXCEPT ![c] = r]
              /\ UNCHANGED <<accepted, running>>

Run(c) == /\ c \in accepted \ running
          /\ Unanswered(c)
          /\ running' = running \cup {c}
          /\ UNCHANGED <<accepted, reply>>

\* The run ends without an answer; there will be another one.
TryAgain(c) == /\ c \in running
               /\ running' = running \ {c}
               /\ UNCHANGED <<accepted, reply>>

\* The call is answered; one that does not run is answered with an error.
Reply(c) == /\ c \in accepted
            /\ Unanswered(c)
            /\ \E r \in Replies : reply' = [reply EXCEPT ![c] = r]
            /\ running' = running \ {c}
            /\ UNCHANGED accepted

CallsNext == \E c \in Calls : Accept(c) \/ Refused(c) \/ Run(c) \/ TryAgain(c) \/ Reply(c)

CallsSpec == CallsInit /\ [][CallsNext]_callVars
=============================================================================
