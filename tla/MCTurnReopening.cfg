SPECIFICATION Spec
CONSTANTS
  t1 = t1
  t2 = t2
  t3 = t3
  a1 = a1
  k1 = k1
  k2 = k2
  NoTurn = NoTurn
  Turns <- MCTwoTurns
  Ambiguities <- MCAmbiguities
  ReqKeys <- MCOneKey
  Runs <- MCRuns
  MaxAttempts = 2
  MaxToolRounds = 1
  MaxChanges = 0
  MaxSchema = 1
  MaxParty = 1
INVARIANTS
  ReopeningRecovers
