CONSTANTS
  RadialSpeeds <- TheSpeeds
  StationarySpeeds = {40, 60}
  EnterPercent = 80
  ExitPercent = 60
  MaxSteps = 4
  Readings = {0, 2, 3, 5, 9}
  NoReading = NoReading
  SampleTicks = 2
  NumTracks = 2
  NumTargets = 1
  ConfirmWindow = 2
  ConfirmHits = 2
  PirConfirmHits = 2
  TentativeLimit = 1
  ExitLimit = 1
  GeneralLimit = 2
  NonExitLimit = 3
  ExitMaxAge = 1
  Elapses <- OneTick
  Observations <- RoomObservations
  RoomConfigured <- AnyTime
  Grid <- TheGrid
  Areas <- TheAreas
  XReach = 3
  YReach = 3
  Enter = 60
  Exit = 25
  Gain = 14
  SameAreaGain = 8
  MissingDecay = 6
  MovingDecay = 18
  FarDecay = 12
  Full = 100
  MaxHold = 30
  OffDelay = 2
  Horizon = 18
  Snapshots <- TheSnapshots
  Capacity = 2
  Retention = 1
  MaxClock = 2
  MaxEntries = 4
  NaN = NaN
  Numbers <- TheNumbers
  ZoneSlots <- TheZoneSlots
  StateInputs <- TheStateInputs
  TrackLists <- TheTrackLists
  HeatTexts <- TheHeatTexts
  StatsEntries <- TheEntries
  MaxStatsEntries = 1
  StartDates <- TheDates
  MaxDays = 3
  MaxHits = 1
  HeatCells = 2
  ZoneCells = {2}
  MaxHeat = 1
  MaxDaily = 2
  Windows = {2, 3}
SPECIFICATION ObservationSpec
INVARIANTS RoomExitFromInside
CHECK_DEADLOCK FALSE
