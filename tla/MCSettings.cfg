SPECIFICATION SettingsFairSpec
CONSTANTS
  Stages = {audit}
  Pipeline = Pipeline
  Apis = {a1}
  Consumers = {c1}
  TTL = 2
  CallTime = 1
  MaxTime = 4
  MaxPatches = 2
  MaxPauses = 1
INVARIANTS SettingsTypeOK KillSwitchLatency
PROPERTY BudgetPauseEnds
CHECK_DEADLOCK FALSE
