-------------------------- MODULE MCScheduleImport --------------------------
(***************************************************************************)
(* A small instance of ScheduleImport: two players and a nickname nobody   *)
(* knows, cafés with a profile and a cup without one, two days in two      *)
(* seasons, and two files of two rows that respell, date, place, move and  *)
(* drop each other's seats, so that each of the eight passes pairs some.   *)
(***************************************************************************)
EXTENDS ScheduleImport, TLC

CONSTANTS anna, bo, annis, arena, hall, kiosk, cafe, cup, friday, saturday

MCPlayer == {anna, bo}
MCNickname == {annis}
MCVenue == {arena, hall}
MCStationName == {kiosk}
ArenaKiosk == <<arena, kiosk>>
HallKiosk == <<hall, kiosk>>
MCActivity == {cafe, cup}
MCProfileOf == (cafe :> ArenaKiosk) @@ (cup :> NoPlace)
MCWeekdayOf == <<saturday, friday>>
MCSeasonOf == <<1, 2>>
MCClock == {9}

Listed(day, act, text, name) ==
  [day |-> day, clock |-> 9, act |-> act, text |-> text, name |-> name,
   note |-> IF day = Undated THEN friday ELSE NoNote]

MCFile == {
  <<Listed(1, cafe, NoPlace, annis), Listed(1, cafe, NoPlace, anna)>>,
  <<Listed(2, cup, NoPlace, anna), Listed(2, cup, HallKiosk, annis)>>}

Nothing == [x \in {} |-> x]
MCAnswers == {
  [names |-> Nothing, places |-> Nothing],
  [names |-> annis :> bo, places |-> cup :> ArenaKiosk],
  [names |-> annis :> anna, places |-> cup :> HallKiosk]}

MCEdit == [
  update |-> {[day |-> 2, at |-> HallKiosk, player |-> Keep],
              [day |-> Keep, at |-> Keep, player |-> Nobody]},
  create |-> {[day |-> 1, clock |-> 9, act |-> cup, at |-> HallKiosk]}]

Legacy(day, act, text, player) ==
  [day |-> day, clock |-> 9, act |-> act, at |-> NoPlace, text |-> text,
   player |-> player, name |-> player, note |-> IF day = Undated THEN friday ELSE NoNote,
   origin |-> "import"]

\* Before the first start, seats have a text but no station; and a database
\* that had its first start before the cafés got their profile, with a
\* seat made under Pass.
MCStart == {
  [venue |-> {}, station |-> {},
   seat |-> <<Legacy(1, cafe, ArenaKiosk, anna), Legacy(Undated, cup, HallKiosk, bo)>>],
  [venue |-> MCVenue, station |-> {HallKiosk},
   seat |-> <<Legacy(1, cafe, NoPlace, anna),
              [day |-> 2, clock |-> 9, act |-> cup, at |-> HallKiosk, text |-> HallKiosk,
               player |-> bo, name |-> bo, note |-> NoNote, origin |-> "admin"]>>]}

=============================================================================
