SPECIFICATION HandlerSpec
CONSTANTS
  anna = anna  bo = bo  cleo = cleo  dan = dan
  pa = pa  pb = pb  pb2 = pb2  pc = pc
  u10 = u10  u12 = u12
  morning = morning  evening = evening
  Nobody = Nobody  Gone = Gone  NoRow = NoRow  NoTerms = NoTerms  None = None
  Player <- SmallPlayer
  PlayerTeam <- SmallPlayerTeam
  Person <- SmallPerson
  KidsOf <- SmallKidsOf
  Slot <- TwoSlot
  Team <- MCTeam
  Rosters <- MixedRosters
  Shift <- MixedShift
  Thread = {t1, t2}
  MaxId = 1
INVARIANTS
  NoDanglingRequest
  TradesStayInTeam
CHECK_DEADLOCK FALSE
SYMMETRY AnyThread
