\* One key, a modifier; one connection of the phone may break; channels of one.
SPECIFICATION FairBridgeSpec
CONSTANTS
  Keys = {"shift"}
  Modifiers = {"shift"}
  MaxDrops = 1
  MaxCallbacks = 1
  Room = 1
  StateCap = 3
INVARIANTS
  ModifiersLetGo
PROPERTIES
  EndTogether
  GateOpens
CHECK_DEADLOCK FALSE
