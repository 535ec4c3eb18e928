CONSTANTS
  DefaultExe = "llama-server"
  Exe = "new"
  OldExe = "old"
  Puts <- MCPuts
  ServiceLists <- MCServiceLists
  Path <- MCPath
  HandConfigs <- MCHandConfigs
  HandPresets <- MCHandPresets
  SetupConfig <- MCSetupConfig
  SetupPresets <- MCSetupPresets
  MaxWrites = 2
  MaxEdits = 1
SPECIFICATION Spec
INVARIANTS ConfigAsAsked PresetsAsAsked
PROPERTIES NeverSpoiled
CHECK_DEADLOCK FALSE
