SPECIFICATION Spec
CONSTANTS
  a1 = a1
  h1 = h1
  h2 = h2
  NoAmbiguity = NoAmbiguity
  NoRule = NoRule
  Ambiguities <- MCAmbiguities
  Names <- MCNames
  Horizon = 3
SYMMETRY Symmetry
INVARIANTS
  OneRuling
  ContextsStand
  TableValid
  Continuity
