CONSTANTS
  config = config
  image = image
  stats = stats
  small = small
  large = large
  other = other
  today = today
  tomorrow = tomorrow
  Targets = {config, image}
  Documents = {small, large, other}
  Cells <- CellsOf
  Capacity = 2
  SectorCells = 2
  Sessions = {1, 2, 3}
  Dashboards = {a, b}
  Uploads <- TheUploads
  InOrder = TRUE
  Faults = TRUE
  Patchable = config
  Patches = {other}
  Deletions <- FloorplanDeletions
  Stats = stats
  StatsSession = 0
  StatsDocument <- NoDays
  NoTarget = NoTarget
  NoSession = NoSession
  NoHeader = NoHeader
  Nothing = Nothing
  Damage = Damage
SPECIFICATION ScenarioSpec
INVARIANTS SavedDocumentIntact
PROPERTIES ImplementsPayloadStore
CHECK_DEADLOCK FALSE
