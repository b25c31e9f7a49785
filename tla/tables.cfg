CONSTANTS
  Copies = {1, 2, 3, 4}
  IdOf <- MCIdOf
  TypeOf <- MCTypeOf
  PlantOf <- MCPlantOf
  NoType = "all"
  Filters = {"all", "x"}
  Limits = {0, 5}
  DefaultPageSize = 1
  MaxPageSize = 2
  Hour = 2
  Day = 4
  Lookback = 2
  MaxDelay = 1
  MaxGap = 1
  Retention = 2
  MaxTime = 6
  MaxListing = 1
SPECIFICATION TablesSpec
INVARIANTS TablesTypeOK PagesAreOneListing NothingMissed ReportAgreesWithStats
CONSTRAINT Bounded
CHECK_DEADLOCK FALSE
