CONSTANTS
  NumTracks = 2
  NumTargets = 2
  ConfirmWindow = 4
  ConfirmHits = 3
  PirConfirmHits = 2
  TentativeLimit = 1
  ExitLimit = 1
  GeneralLimit = 2
  NonExitLimit = 3
  ExitMaxAge = 2
  Elapses <- OneTick
  Observations <- ExitObservations
  RoomConfigured <- Never
SPECIFICATION Spec
INVARIANTS CoastingWithinBudget
PROPERTIES StableTrackPersists LossIsReported FreshTrackWaits
