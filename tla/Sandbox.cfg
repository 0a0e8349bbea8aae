SPECIFICATION LaunchSpec
CONSTANTS
  Homes <- MCHomes
  Cwd <- MCCwd
  Caps <- MCCaps
  Expiries = {1}
  Session = Session
  MaxTime = 1
  NotBuilt = NotBuilt
  HomeDir <- MCHomeDir
  UserName <- MCUserName
  BwrapCwd <- MCCwd
  MaxKnown = 3
VIEW LaunchView
CONSTRAINT Bounds
INVARIANTS AuditTrailComplete NothingBeyondGrants LayersAgree
PROPERTIES RightsComeFromGrants PurgeChangesNoRight DeniedForGood
