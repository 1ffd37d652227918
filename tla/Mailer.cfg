SPECIFICATION Spec
CONSTANTS
  anna = anna  bo = bo  cleo = cleo
  pa = pa  pb = pb  u10 = u10  u12 = u12
  kiosk = kiosk  cafe = cafe  shelf = shelf  hook = hook
  Nobody = Nobody  NoStation = NoStation  NoShift = NoShift  NoNote = NoNote
  Seat <- MCSeat
  TeamOf <- MCTeamOf
  StartOf <- MCStartOf
  EndOf <- MCEndOf
  WhatOf <- MCWhatOf
  StationOf <- MCStationOf
  NoteOf <- MCNoteOf
  Player <- MCPlayer
  ParentsOf <- MCParentsOf
  Start <- MCStart
  LastDay = 2
  MaxEdit = 1
  Lead = {1, 2}
  MaxGap = 1
INVARIANTS
  OnlyThoseOnDuty
  NobodyForgotten
  RightCounter
  HandoverSkipsNobody
PROPERTIES
  NobodyToldTwice
