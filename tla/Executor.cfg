SPECIFICATION SidesSpec
CONSTANTS
  anna = anna  bo = bo
  pa = pa  pb = pb  pc = pc
  morning = morning  evening = evening
  Nobody = Nobody  Gone = Gone  NoRow = NoRow  Keep = Keep  Refused = Refused  None = None
  Player <- SlotPlayer
  Shift <- SlotShift
  DayOf <- SlotDayOf
  Clash <- SlotClash
  Person <- RolePerson
  ClubAdmin = {pc}
  TeamRoster <- RolePerson
  Start <- SidesStart
  Act <- SidesAct
  MaxSlot = 2
  MaxSwap = 1
  MaxToken = 2
  Thread = {t1, t2}
PROPERTIES
  KeepsPromise
  AppliedAsReviewed
  TeamKeepsAnAnsvarig
SYMMETRY AnyThread
