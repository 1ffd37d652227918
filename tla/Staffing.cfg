SPECIFICATION Spec
CONSTANTS
  anna = anna  axel = axel  bo = bo  lo = lo  cafe = cafe
  Nobody = Nobody
  Player <- MCPlayer
  Family <- MCFamily
  Exempt = {lo}
  Slot <- MCSlot
  Day <- MCDay
  SeasonDays = 14
  Undated = 99
  Time = {9, 12}
  Place = {cafe}
  Rosters <- MCRosters
  MaxLocks = 2
INVARIANTS
  LoadsAreCounts
  FewestFirst
PROPERTIES
  NoSecondShift
CHECK_DEADLOCK FALSE
