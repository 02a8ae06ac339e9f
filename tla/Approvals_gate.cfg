\* One tool call of any kind; two decisions under way, mode switches, a restart, the
\* scanner kept going.
SPECIFICATION FairSpec
CONSTANTS
  Commands <- MCCommands
  DBBlacklist <- MCDBBlacklist
  StaticBlacklist <- MCStaticBlacklist
  DBWhitelist <- MCDBWhitelist
  RedRules <- MCRedRules
  YellowRules <- MCYellowRules
  GreenRules <- MCGreenRules
  Hooks = {h1}
  ToolCalls <- AllCalls
  Modes = {"default", "read_only", "yolo"}
  MaxDecisions = 2
  MaxRestarts = 1
INVARIANTS
  VerdictIsTheRecord
  AlertsBounded
  DangerNeedsConsent
PROPERTIES
  DecisionIsFinal
  PromiseKept
  
