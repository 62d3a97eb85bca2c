SPECIFICATION FairSpec
CONSTANTS
  t1 = t1
  t2 = t2
  t3 = t3
  a1 = a1
  k1 = k1
  k2 = k2
  NoTurn = NoTurn
  Turns <- MCTwoTurns
  Ambiguities <- MCAmbiguities
  ReqKeys <- MCReqKeys
  Runs <- MCRuns
  MaxAttempts = 3
  MaxToolRounds = 1
  MaxChanges = 1
  MaxSchema = 0
  MaxParty = 1
PROPERTIES
  TurnEnds
  RecoveryCompletes
