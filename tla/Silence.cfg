CONSTANTS
  NumTracks = 2
  NumTargets = 1
  ConfirmWindow = 3
  ConfirmHits = 3
  PirConfirmHits = 2
  TentativeLimit = 1
  ExitLimit = 0
  GeneralLimit = 1
  NonExitLimit = 1
  ExitMaxAge = 1
  Elapses <- OneTick
  Observations <- MotionObservations
  RoomConfigured <- Never
  ArmTicks = 2
  ReentryTicks = 3
  PresenceHold = 2
  MotionHold = 1
SPECIFICATION SilenceSpec
PROPERTIES SilenceEndsPresence
