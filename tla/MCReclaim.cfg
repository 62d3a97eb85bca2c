\* The same with an actor a new creature may claim.
SPECIFICATION MCSpec
CONSTANTS
  NoActor = NoActor
  Fulls = {1}
  Levels = {0, 4, 6}
  Wounds = {1, 2}
  Rolls = {1}
  Reclaim = TRUE
  MaxRows = 2
  MaxClock = 5
  MaxFights = 2
  HeroFulls = {1, 2}
  HeroLevels = {0, 4, 6}
  Blows = {1, 2}
  Hours = {2}
  RestIds = {1, 2}
  Short = 1
  Long = 2
  Day = 3
  MaxDice = 2
  MaxPoints = 3
  SlotLevels = {1, 2}
  SlotMax <- MCSlotMax
  Cost <- MCCost
CONSTANTS
  h = h
  m = m
  x = x
  y = y
  ring = ring
  armor = armor
  arrows = arrows
  p = p
  q = q
  Hero = h
  Nobody = Nobody
  Nowhere = Nowhere
  Chars <- MCChars
  Names <- MCNames
  MaxParts = 1
  Kinds <- MCKinds
  PackBound <- MCPackBound
  Bonding <- MCBonding
  Clinging <- MCClinging
  Places <- MCPlaces
  AttunementSlots = 2
  MaxQty = 2
  MaxShots = 2
CONSTANTS
  prone = prone
  stunned = stunned
  Tireless <- MCTireless
  Reactions <- MCReactions
  Legends <- MCLegends
  LegendCosts = {1, 2}
  MaxRounds = 2
  MaxTurns = 2
  Conditions <- MCConditions
  Stunning <- MCStunning
  MaxEffects = 2
  Spells <- MCSpells
  Span = 1
SYMMETRY Symmetry
CONSTRAINT Focus
INVARIANT OwnedNeverDown
CHECK_DEADLOCK FALSE
