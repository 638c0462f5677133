SPECIFICATION BusSpec
CONSTANTS
  Containers <- SomeContainers
  Configs <- AllConfigs
  MaxOpens = 2
  Unset = Unset
CHECK_DEADLOCK FALSE
INVARIANTS
  OutputsServed
  AsAsked
