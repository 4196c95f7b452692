SPECIFICATION FairSpec
CONSTANTS
  k1 = k1
  k2 = k2
  i1 = i1
  i2 = i2
  Sockets <- MCSockets
  Ids <- MCIds
  NoOne = NoOne
  NoId = NoId
  Rounds = 1
  MaxPosts <- MCMaxPosts
  MayUse <- MCMayUse
INVARIANTS TypeOK ContextOfMap HeldByItsOwn SparesOthers OwnFrames
PROPERTIES FinishedIsClosed StopHeldUp
