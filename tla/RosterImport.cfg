SPECIFICATION Spec
CONSTANTS
  u10 = u10  u12 = u12
  pa = pa  pb = pb
  elsa = elsa  bo = bo  eva = eva  evy = evy
  Unnamed = Unnamed  NoEmail = NoEmail  NoFile = NoFile
  Team <- MCTeam
  Person <- MCPerson
  Name <- MCName
  File <- MCFile
  Start <- MCStart
INVARIANTS
  TypeOK
  LeadersFamiliesExempt
  RolesAreOnRoster
PROPERTIES
  OtherTeamsUntouched
  NobodyLosesAChild
  SameExportAgain
