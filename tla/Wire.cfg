SPECIFICATION WireSpec
CONSTANTS
  Nil = Nil
  Requests <- AllRequests
  Streamed <- MCStreamed
  MaxAttempts = 2
  MaxPieces = 3
  None = None
  Lists <- MCLists
  Threads <- MCThreads
  Updates <- MCUpdates
  Meanings <- MCMeanings
  Manners <- MCManners
  Turns <- MCTurns
  Ends <- MCEnds
  Writer <- MCWriter
  Readers <- MCReaders
  Asks <- MCAsks
  Configs <- MCConfigs
INVARIANTS StreamWhole SentBack PatchRebuilds Recovered ChatSame
CHECK_DEADLOCK FALSE
