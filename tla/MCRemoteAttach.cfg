SPECIFICATION FairRemoteSpec
CONSTANTS
  device = device
  server = server
  Device = device
  Server = server
  AttachedAs = device
  Sessions <- MCSessions
  Scripts <- MCScripts
  Protocols <- MCServerStarts
  Inbound = {}
  MaxInbound = 0
  Bound <- MCBound
  DoneSignal = 99
PROPERTIES FirstFrameArrives
