SPECIFICATION HandlerSpec
CONSTANTS
  anna = anna  bo = bo  cleo = cleo  dan = dan
  pa = pa  pb = pb  pb2 = pb2  pc = pc
  u10 = u10  u12 = u12
  morning = morning  evening = evening
  Nobody = Nobody  Gone = Gone  NoRow = NoRow  NoTerms = NoTerms  None = None
  Player <- MCPlayer
  PlayerTeam <- MCPlayerTeam
  Person <- MCPerson
  KidsOf <- MCKidsOf
  Slot <- TwoSlot
  Team <- MCTeam
  Rosters <- TwoRosters
  Shift <- MCShift
  Thread = {t1}
  MaxId = 2
INVARIANTS
  AnswerReachesProposer
PROPERTIES
  ImplementsBook
CHECK_DEADLOCK FALSE
