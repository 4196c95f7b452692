SPECIFICATION FairDkgSpec
CONSTANTS
  s1 = s1
  Sessions <- MCSessions
  Scripts <- MCScripts
  Inbound <- MCInbound
  MaxInbound = 2
INVARIANTS TypeOK NoLostWakeup DoneIsFinal HandedInOrder
INVARIANTS DoneMeansKey KeyOnlyFromSuccess
PROPERTIES KeepsPromise StepReturnsUnlessStuck FreeReturns FinalizeReturnsUnlessStarved
