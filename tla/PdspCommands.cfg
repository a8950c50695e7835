CONSTANTS
  Kinds = {"program", "disable", "timer", "download"}
  MaxCalls = 4
SPECIFICATION FairSpec
INVARIANTS
  TypeOK
  CommandsIntact
  PromptIsObeyed
PROPERTIES
  CallsReturn
  EveryCommandObeyed
CHECK_DEADLOCK FALSE
