SPECIFICATION DkgSpec
CONSTANTS
  s1 = s1
  Sessions <- MCSessions
  Scripts <- MCScripts
  Inbound <- MCInbound
  MaxInbound = 2
PROPERTIES NoUseAfterDestroy
