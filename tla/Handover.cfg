CONSTANTS
  NumTracks = 2
  NumTargets = 1
  ConfirmWindow = 5
  ConfirmHits = 3
  PirConfirmHits = 2
  TentativeLimit = 3
  ExitLimit = 1
  GeneralLimit = 2
  NonExitLimit = 2
  ExitMaxAge = 2
  Elapses <- OneTick
  Observations <- Plain
  RoomConfigured <- Never
  ArmTicks = 4
  ReentryTicks = 60
  PresenceHold = 4
  MotionHold = 1
SPECIFICATION HandoverSpec
PROPERTIES HandoverKeepsPresence
