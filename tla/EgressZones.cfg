SPECIFICATION FilesSpec
CONSTANTS
  g1 = g1
  g2 = g2
  https = https
  https_exported = https_exported
  inverted = inverted
  inverted_exported = inverted_exported
  tcp = tcp
  tls = tls
  tls_exported = tls_exported
  NoGuid = NoGuid
  Guids = {g1, g2}
  Files <- SmallFiles
  DefinitionOf <- SmallDefinitionOf
  Targets <- SmallTargets
  HandWritten <- SmallHandWritten
  ServerDetail = 0
  MaxHops = 2
  DefaultTimeout = 3
  SampleLen = 2
  MaxClock = 1
  MaxFailures = 0
INVARIANT DialledIsPublic
