SPECIFICATION FairSpec
CONSTANTS
  Frequencies <- FrequenciesDef
  HighBands = {"10m"}
  Gens = {1, 2, 3}
  GroupOf <- GroupOfDef
  MaxFaults = 2
  None = None
INVARIANTS
  OneSlotPerBand
  HealthyMeansActive
PROPERTIES
  BandsRecover
CHECK_DEADLOCK FALSE
