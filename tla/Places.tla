-------------------------------- MODULE Places --------------------------------
(***************************************************************************)
(* Where duties are held.  The club's venues and stations are two tables   *)
(* that start-up seeds once, while there is no station, and that belong to *)
(* the ansvariga from then on.  Names are compared in their normalised     *)
(* form, so a venue is its name's key and a station is a pair of keys.     *)
(***************************************************************************)
EXTENDS Integers, FiniteSets

CONSTANTS
  Venue,        \* venue names
  StationName,  \* station names
  NoPlace,      \* no station_id, or an empty text
  Activity,     \* the canonical names of duties
  ProfileOf     \* the place of each activity's profile, or NoPlace

Place == Venue \X StationName
PlaceOrNone == Place \union {NoPlace}

ASSUME PlacesOK ==
  /\ NoPlace \notin Place
  /\ ProfileOf \in [Activity -> PlaceOrNone]

\* find_venue and find_station among the stations there are.
FindStation(place, station) == IF place \in station THEN place ELSE NoPlace

\* Where start-up looks for an unlinked seat: its duty's profile, else the
\* venue and station written on the seat.
OwnPlace(row) == IF ProfileOf[row.act] # NoPlace THEN ProfileOf[row.act] ELSE row.text

Unlinked(seat) == {s \in DOMAIN seat : seat[s].at = NoPlace}

WrittenPlaces(seat) ==
  ({ProfileOf[a] : a \in Activity} \union {OwnPlace(seat[s]) : s \in Unlinked(seat)}) \ {NoPlace}

\* The stations a start creates: the profiles' and the unlinked seats', and
\* only while the table is empty.
Seeded(station, seat) ==
  IF station = {} THEN WrittenPlaces(seat) ELSE station

\* Mutant of Linked: every seat, the placed ones too.
LinkedAgain(station, seat) ==
  [s \in DOMAIN seat |->
     IF OwnPlace(seat[s]) \in station THEN [seat[s] EXCEPT !.at = OwnPlace(seat[s])]
     ELSE seat[s]]

\* link_unlinked_slots: at every start, to the stations that exist.
Linked(station, seat) ==
  [s \in DOMAIN seat |->
     IF s \in Unlinked(seat)
     THEN [seat[s] EXCEPT !.at = FindStation(OwnPlace(seat[s]), station)]
     ELSE seat[s]]

\* The venues of some stations.
VenuesOf(station) == {p[1] : p \in station}

=============================================================================
