CONSTANTS
  ZoneIds <- TheZoneIds
  CalibrationIds <- TheCalibrationIds
  Coordinates = {"1", "2", "3"}
  MostCorners = 12
  Configs <- TheConfigs
  TargetSlots = {1}
  RoomIds = {"r1", "r2", "r3"}
  Names <- TheNames
  Placements <- ThePlacements
  TheConfig = TheConfig
  TheImage = TheImage
  TheDevice = TheDevice
  small = small
  large = large
  Targets = {TheConfig, TheImage, TheDevice}
  Documents = {small, large}
  Cells <- CellsOf
  Capacity = 2
  SectorCells = 2
  Sessions = {1, 2}
  NoTarget = NoTarget
  NoSession = NoSession
  NoHeader = NoHeader
  Config = TheConfig
  Image = TheImage
  Device = TheDevice
  Upload <- TheClients
  Patched <- ThePatched
SPECIFICATION DocumentSpec
INVARIANTS CacheIsOneConfig LoopSeesTheConfiguration PatchesKeepTheDocument UndisturbedUploadSucceeds ResetIsKept
CHECK_DEADLOCK FALSE
