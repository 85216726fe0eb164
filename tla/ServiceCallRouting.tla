------------------------- MODULE ServiceCallRouting -------------------------
(***************************************************************************)
(* How ZenHub finds the executor and the priority of a service call        *)
(* (Products/ZenHub/server/router.py, ServiceCallRouter, and priority.py,  *)
(* ServiceCallPriorityMap).  A configuration is a set of keys, each a pair *)
(* <<service, method>>, where "*" stands for any; a lookup returns the key *)
(* whose value applies.                                                    *)
(***************************************************************************)
EXTENDS Naturals, FiniteSets

Default == <<"*", "*">>

ServicesOf(config) == {key[1] : key \in config}
MethodsOf(config) == {key[2] : key \in config}

\* The services a configuration names for the method m: route_tree[m]
RoutesFor(config, m) == {key[1] : key \in {k \in config : k[2] = m}}

\* Mutant of Resolve: the method is named by a route, so the default service of
\* that method is taken although there is none: the backtracking is missing.
ResolveWithoutDefault(config, service, method) ==
    LET named == IF method \in MethodsOf(config) THEN method ELSE "*"
    IN  <<IF service \in RoutesFor(config, named) THEN service ELSE "*", named>>

\* ServiceCallRouter.__resolve: the method is looked up first.  "If the service is
\* not named for the method and no default service is specified, then backtrack to
\* the default method."
Resolve(config, service, method) ==
    LET named  == IF method \in MethodsOf(config) THEN method ELSE "*"
        found  == RoutesFor(config, named) \cap {service, "*"} # {}
        final  == IF found THEN named ELSE "*"
    IN  <<IF service \in RoutesFor(config, final) THEN service ELSE "*", final>>

\* Mutant of MakeKey: the service is dropped before the method.
MakeKeyByMethod(config, service, method) ==
    LET s == IF service \in ServicesOf(config) THEN service ELSE "*"
        m == IF method \in MethodsOf(config) THEN method ELSE "*"
    IN  CASE <<s, m>> \in config -> <<s, m>>
          [] <<s, m>> \notin config /\ <<"*", m>> \in config -> <<"*", m>>
          [] {<<s, m>>, <<"*", m>>} \cap config = {} /\ <<s, "*">> \in config -> <<s, "*">>
          [] OTHER -> Default

\* ServiceCallPriorityMap.__makekey: names that no key has become "*"; then the
\* method is dropped first, and then the service.
MakeKey(config, service, method) ==
    LET s == IF service \in ServicesOf(config) THEN service ELSE "*"
        m == IF method \in MethodsOf(config) THEN method ELSE "*"
    IN  CASE <<s, m>> \in config -> <<s, m>>
          [] <<s, m>> \notin config /\ <<s, "*">> \in config -> <<s, "*">>
          [] {<<s, m>>, <<s, "*">>} \cap config = {} /\ <<"*", m>> \in config -> <<"*", m>>
          [] OTHER -> Default

(***************************************************************************)
(* The configuration ZenHub is shipped with (config.py): which keys have   *)
(* which executor and which priority.                                      *)
(***************************************************************************)
Routes == [key \in {<<"EventService", "sendEvent">>, <<"EventService", "sendEvents">>,
                    <<"*", "applyDataMaps">>, Default} |->
             CASE key[1] = "EventService" -> "event"
               [] key[2] = "applyDataMaps" -> "adm"
               [] OTHER -> "default"]

\* Mutant of PriorityMap: sendEvents has no priority of its own.
PriorityMapWithoutBatches == [key \in {<<"EventService", "sendEvent">>, Default,
                                       <<"*", "applyDataMaps">>} |->
                                CASE key[1] = "EventService" -> "EVENTS"
                                  [] key[2] = "applyDataMaps" -> "MODELING"
                                  [] OTHER -> "OTHER"]

PriorityMap == [key \in {<<"EventService", "sendEvent">>, <<"EventService", "sendEvents">>,
                         <<"*", "singleApplyDataMaps">>, Default,
                         <<"*", "getDeviceConfigs">>, <<"*", "getDeviceConfig">>,
                         <<"*", "applyDataMaps">>} |->
                  CASE key[1] = "EventService" -> "EVENTS"
                    [] key[2] = "singleApplyDataMaps" -> "SINGLE_MODELING"
                    [] key[2] \in {"getDeviceConfigs", "getDeviceConfig"} -> "CONFIG"
                    [] key[2] = "applyDataMaps" -> "MODELING"
                    [] OTHER -> "OTHER"]

ExecutorOf(service, method) == Routes[Resolve(DOMAIN Routes, service, method)]

PriorityNameOf(service, method) ==
    PriorityMap[MakeKey(DOMAIN PriorityMap, service, method)]
=============================================================================
