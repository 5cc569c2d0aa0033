SPECIFICATION Spec
CONSTANTS
  Divider = 2
  MaxPending = 2
  MaxStreak = 2
  DefaultPolicy <- MCDefaultPolicy
  PolicyInputs <- MCPolicyInputs
INVARIANTS
  TypeOK
  NoScanInFault
  TriggersAccounted
PROPERTIES
  OverloadStopsPlc
  ScansContinue
  StopSilencesScans
