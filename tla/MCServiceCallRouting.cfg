CONSTANTS
  Services = {"S1", "S2", "S3", "EventService"}
  Methods = {"m1", "m2", "m3", "sendEvent", "sendEvents", "applyDataMaps",
             "singleApplyDataMaps", "getDeviceConfig"}
  N = 5
  Window = 57
SPECIFICATION RoutingSpec
INVARIANTS Fair HigherFirst RouteIsBest PriorityIsBest ShippedRoutesAgree
