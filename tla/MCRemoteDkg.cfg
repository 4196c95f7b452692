SPECIFICATION FairRemoteSpec
CONSTANTS
  device = device
  server = server
  Device = device
  Server = server
  AttachedAs = server
  Sessions <- MCSessions
  Scripts <- MCScripts
  Protocols <- MCProtocols
  Inbound = {}
  MaxInbound = 0
  Bound <- MCBound
  DoneSignal = 99
INVARIANTS FinalizeNeverBlocks SharesMatch
PROPERTIES CarriesExchange EndsUnlessOverlooked
