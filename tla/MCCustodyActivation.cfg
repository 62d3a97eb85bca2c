SPECIFICATION Spec
CONSTANTS
  d1 = d1
  d2 = d2
  d3 = d3
  c1 = c1
  c2 = c2
  g1 = g1
  g2 = g2
  NoChar = NoChar
  Idle = Idle
  Chars <- MCChars
  Campaigns <- MCCampaigns
  Dbs <- MCTwoFiles
  Copies = {}
  CampaignOf <- MCTwoCampaigns
  Slots <- MCTwoSlots
  MaxEdits = 1
  Failing = {}
SYMMETRY Symmetry
PROPERTIES
  ActivationIsAllOrNothing
