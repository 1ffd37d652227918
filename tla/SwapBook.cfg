SPECIFICATION Spec
CONSTANTS
  anna = anna  bo = bo  dan = dan
  pa = pa  pb = pb
  u10 = u10  u12 = u12
  morning = morning  evening = evening
  Nobody = Nobody  Gone = Gone  NoRow = NoRow  NoTerms = NoTerms
  Player <- MCPlayer
  Person <- MCPerson
  KidsOf <- MCKidsOf
  PlayerTeam <- MCPlayerTeam
  Shift <- MCShift
  Slot <- SmallSlot
  Team <- MCTeam
  Rosters <- SmallRosters
  MaxId = 2
INVARIANTS
  TypeOK
  PendingAsOffered
  SeatsStayInTeam
PROPERTIES
  SettledIsFinal
  OnlyAgreedTrades
CHECK_DEADLOCK FALSE
SYMMETRY AnyShift
