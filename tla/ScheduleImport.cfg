SPECIFICATION Spec
CONSTANTS
  anna = anna  bo = bo  annis = annis
  arena = arena  hall = hall  kiosk = kiosk  cafe = cafe  cup = cup
  friday = friday  saturday = saturday
  NoPlace = NoPlace  NoName = NoName  Nobody = Nobody  NoNote = NoNote
  Keep = Keep  NoFile = NoFile  NoJob = NoJob
  Player <- MCPlayer
  Nickname <- MCNickname
  Venue <- MCVenue
  StationName <- MCStationName
  Activity <- MCActivity
  ProfileOf <- MCProfileOf
  WeekdayOf <- MCWeekdayOf
  SeasonOf <- MCSeasonOf
  Clock <- MCClock
  File <- MCFile
  Answers <- MCAnswers
  Edit <- MCEdit
  Start <- MCStart
  LastDay = 2
  MaxSlot = 5
  MaxEdit = 1
INVARIANTS
  TypeOK
  PendingAsOffered
PROPERTIES
  SameFileAgain
  ListedSeatsStay
  NobodyUnseated
  HistoryStays
  PlacedAsWritten
