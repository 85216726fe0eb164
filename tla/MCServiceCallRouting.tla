------------------------ MODULE MCServiceCallRouting ------------------------
(***************************************************************************)
(* How a call finds its executor and its priority, and which priority is   *)
(* served next.  Every configuration over a few names is built key by key, *)
(* and every call looked up in it; the two parts share no state, so each   *)
(* moves only while the other is at rest, which keeps them to the sum of   *)
(* their states.                                                           *)
(***************************************************************************)
EXTENDS ServiceCallRouting, MCPrioritySelection

CONSTANTS Services, Methods   \* names; one of each is in no key

VARIABLES config,  \* the keys of the configuration
          call     \* the call looked up

routing == <<config, call>>

Calls == Services \X Methods

FirstCall == <<"EventService", "sendEvent">>

RoutingInit == /\ Init
               /\ config = {Default}
               /\ call = FirstCall

AddKey(key) == /\ config' = config \cup {key}
               /\ UNCHANGED call

Lookup(c) == /\ call' = c
             /\ UNCHANGED config

\* The iterator moves while the routing is as it was first, and the other way round
SelectionStep == /\ config = {Default}
                 /\ call = FirstCall
                 /\ Next
                 /\ UNCHANGED routing

RoutingStep == /\ Init
               /\ \/ \E s \in {"*", "S1", "S2"}, m \in {"*", "m1", "m2"} : AddKey(<<s, m>>)
                  \/ \E c \in Calls : Lookup(c)
               /\ UNCHANGED vars

RoutingSpec == RoutingInit /\ [][SelectionStep \/ RoutingStep]_<<vars, routing>>

\* The keys that match the call, and the best of them when the part `first' of a
\* key (1, the service, or 2, the method) counts more than the other part
Matches == {key \in config : \A part \in {1, 2} : key[part] \in {call[part], "*"}}

Specificity(key, first) == (IF key[first] = "*" THEN 0 ELSE 2)
                        + (IF key[3 - first] = "*" THEN 0 ELSE 1)

IsBest(key, first) == /\ key \in Matches
                      /\ \A other \in Matches : Specificity(other, first) <= Specificity(key, first)

\* A call goes to the executor of the most specific route that matches it, a method
\* counting more than a service, as the class comment of ServiceCallRouter says,
\* whatever other routes there are; in particular there always is one.
RouteIsBest == IsBest(Resolve(config, call[1], call[2]), 2)

\* A call has the priority of the most specific key that matches it, a service
\* counting more than a method.
PriorityIsBest == IsBest(MakeKey(config, call[1], call[2]), 1)

\* As shipped, the calls that the `adm' executor gets are exactly those a pause of
\* modeling holds back, so a pause delays no other call behind them; and the calls
\* of highest priority are exactly those the event executor runs at once.
ShippedRoutesAgree ==
    /\ ExecutorOf(call[1], call[2]) = "adm" <=> PriorityNameOf(call[1], call[2]) = "MODELING"
    /\ ExecutorOf(call[1], call[2]) = "event" <=> PriorityNameOf(call[1], call[2]) = "EVENTS"
=============================================================================
