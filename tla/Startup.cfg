SPECIFICATION StartupFairSpec
CONSTANTS
  Processes = {agent, import}
  Agent = agent
  Count = 2
  Repeatable = {2}
  MaxCrashes = 1
  MaxMonitors = 2
  MaxKeys = 3
  MaxFaults = 1
INVARIANTS
  RecordedMeansRunOnce
  InFilenameOrder
  SchemaBeforeUse
  IdentityIsAPair
  RunsAsPersisted
  MintedForAReason
PROPERTY SchemaCompletes
