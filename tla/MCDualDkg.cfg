SPECIFICATION FairDualSpec
CONSTANTS
  device = device
  server = server
  Device = device
  Server = server
  First = device
  Sessions <- MCSessions
  Scripts <- MCScripts
  Protocols <- MCProtocols
  Inbound = {}
  MaxInbound = 0
  LoopBound = 6
INVARIANTS FinalizeNeverWaits BothKeysOrNone
PROPERTIES CarriesExchange TerminatesUnlessStuck
