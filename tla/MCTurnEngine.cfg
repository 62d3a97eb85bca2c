SPECIFICATION Spec
CONSTANTS
  t1 = t1
  t2 = t2
  t3 = t3
  a1 = a1
  k1 = k1
  k2 = k2
  NoTurn = NoTurn
  Turns <- MCTurns
  Ambiguities <- MCAmbiguities
  ReqKeys <- MCOneKey
  Runs <- MCRuns
  MaxAttempts = 3
  MaxToolRounds = 1
  MaxChanges = 1
  MaxSchema = 1
  MaxParty = 1
SYMMETRY Symmetry
CONSTRAINT OneReworking
INVARIANTS
  TypeOK
  OnlyAcceptedWrites
  ChronologyContiguous
  PendingResumable
  DisputesSound
PROPERTIES
  TracesStand
  Implements
