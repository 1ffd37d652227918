SPECIFICATION ParentSpec
CONSTANTS
  anna = anna  bo = bo  cleo = cleo  dan = dan
  pa = pa  pb = pb  pb2 = pb2  pc = pc
  u10 = u10  u12 = u12
  morning = morning  evening = evening
  Nobody = Nobody  Gone = Gone  NoRow = NoRow  NoTerms = NoTerms  None = None
  Player <- MCPlayer
  PlayerTeam <- MCPlayerTeam
  Person <- MCPerson
  KidsOf <- MCKidsOf
  Slot <- TradeSlot
  Team <- MCTeam
  Rosters <- TradeRosters
  Shift <- MCShift
  Thread = {t1, t2}
  MaxId = 2
PROPERTIES
  AcceptTakesOnlyTheirs
CHECK_DEADLOCK FALSE
