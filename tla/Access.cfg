SPECIFICATION SidesSpec
CONSTANTS
  pa = pa  u10 = u10  u12 = u12  t1 = t1
  NoLink = NoLink  NoKey = NoKey
  Person <- MCPerson
  Link = {1, 2, 3}
  LinkLife = 2
  AskGap = 2
  Thread = {t1, t2}
  Team <- MCTeam
  OnRoster <- MCOnRoster
  Key = {k1}
  KeyLife = 1
  Limit = 1
  Window = 2
  Delay = 2
  Config <- MCConfig
INVARIANTS
  FewLinksAMinute
  NoActWithoutRights
  WindowLimited
PROPERTIES
  SpentStaysSpent
  KeepsTryingGetsIn
