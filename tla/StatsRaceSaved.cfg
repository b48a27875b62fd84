CONSTANTS
  config = config
  image = image
  stats = stats
  small = small
  large = large
  other = other
  today = today
  tomorrow = tomorrow
  Targets = {config, stats}
  Documents = {small, large, other, today, tomorrow}
  Cells <- CellsOf
  Capacity = 2
  SectorCells = 2
  Sessions = {1}
  Dashboards = {a}
  Uploads <- OneUpload
  InOrder = TRUE
  Faults = FALSE
  Patchable = config
  Patches = {}
  Deletions = {}
  Stats = stats
  StatsSession = 0
  StatsDocument <- TwoDays
  NoTarget = NoTarget
  NoSession = NoSession
  NoHeader = NoHeader
  Nothing = Nothing
  Damage = Damage
SPECIFICATION Spec
INVARIANTS SavedDocumentIntact
CHECK_DEADLOCK FALSE
