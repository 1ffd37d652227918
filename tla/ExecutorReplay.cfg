SPECIFICATION SidesSpec
CONSTANTS
  anna = anna  bo = bo
  pa = pa  pb = pb  pc = pc
  morning = morning  evening = evening
  Nobody = Nobody  Gone = Gone  NoRow = NoRow  Keep = Keep  Refused = Refused  None = None
  Player <- SlotPlayer
  Shift <- SlotShift
  DayOf <- SlotDayOf
  Clash <- SlotClash
  Person <- SlotPerson
  ClubAdmin = {}
  TeamRoster <- SlotPerson
  Start <- AddStart
  Act <- AddAct
  MaxSlot = 3
  MaxSwap = 0
  MaxToken = 1
  Thread = {t1, t2}
PROPERTIES
  AppliedOnce
SYMMETRY AnyThread
