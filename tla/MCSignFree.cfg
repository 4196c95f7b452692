SPECIFICATION FairSignSpec
CONSTANTS
  p1 = p1
  m1 = m1
  m2 = m2
  Sessions = {p1}
  Signers = {p1}
  Messages = {m1, m2}
  MaxAccepted = 2
  Scripts <- MCScripts
  Inbound <- MCInbound
  MaxInbound = 1
PROPERTIES FreeReturns
