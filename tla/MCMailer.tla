-------------------------------- MODULE MCMailer --------------------------------
(***************************************************************************)
(* A small instance of the mailer: on the second day a shift of one team   *)
(* and a later one of another, on the third a shift of the first team with *)
(* a seat at each of two stations, taken by siblings.  A seat of that one  *)
(* which is moved a day is over when the shift of that day begins.         *)
(***************************************************************************)
EXTENDS Mailer

CONSTANTS anna, bo, cleo, pa, pb, u10, u12, kiosk, cafe, shelf, hook

MCSeat == 1 .. 4
MCPlayer == {anna, bo, cleo}
MCParentsOf == anna :> {pa} @@ bo :> {pa} @@ cleo :> {pb}
MCTeamOf == <<u10, u10, u10, u12>>
MCStartOf == <<2, 1, 1, 3>>
MCEndOf == <<3, 2, 2, 4>>
MCWhatOf == <<1, 1, 1, 1>>
MCStationOf == <<kiosk, kiosk, cafe, NoStation>>
MCNoteOf == <<hook, NoNote, shelf, NoNote>>
On(due, player) == [due |-> due, player |-> player]
MCStart == {[row |-> <<On(1, cleo), On(2, anna), On(2, bo), On(1, cleo)>>, muted |-> {}]}

=============================================================================
