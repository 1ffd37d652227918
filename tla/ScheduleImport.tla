---------------------------- MODULE ScheduleImport ----------------------------
(***************************************************************************)
(* schedule.import: the coach's file against one team's seats.  A plan     *)
(* pairs every row with a seat in eight passes and writes the difference.  *)
(* Planning and writing an import run under SQLite's write lock (module    *)
(* Executor), so nothing else moves while a plan is paired up, except that *)
(* the server may stop, which rolls the plan back.  Around the imports,    *)
(* parents trade, the ansvariga edit seats and places, and days pass.      *)
(***************************************************************************)
EXTENDS Places, Sequences, FiniteSetsExt, SequencesExt

CONSTANTS
  Player,     \* the team's players, who are also their names' spellings
  Nickname,   \* spellings that are nobody's name
  NoName,     \* child_name IS NULL
  Nobody,     \* player_id IS NULL
  LastDay,    \* bound on the calendar: days are 1 .. LastDay
  SeasonOf,   \* the season of each day
  WeekdayOf,  \* the weekday note of each day
  Clock,      \* start and end times
  NoNote,     \* no note
  File,       \* the files that are tried: sequences of rows
  Answers,    \* the answers that are tried: [names, places]
  Edit,       \* the inputs tried under Pass
  Keep,       \* a field left out of such an input
  Start,      \* the seats and places the system may start with
  MaxSlot,    \* bound on slot ids
  MaxEdit,    \* bound on the number of edits under Pass and Platser
  NoFile,     \* no file
  NoJob       \* no import under way

VARIABLES
  seat,      \* the team's slots, by id
  swap,      \* swap requests
  alias,     \* saved answers: whom a spelling means
  placed,    \* saved answers: where an activity is held
  venue,     \* the venues
  station,   \* the stations
  today,
  job,       \* the import under way, or NoJob
  edits,     \* how many edits were made (bound)
  imported   \* history: the file the schedule has followed since its import

rows == <<seat, swap, alias, placed>>
vars == <<seat, swap, alias, placed, venue, station, today, job, edits, imported>>

Undated == 0
Day == 1 .. LastDay
Slot == 1 .. MaxSlot
Spelling == Player \union Nickname
Note == {NoNote} \union {WeekdayOf[d] : d \in Day}

Seat == [day : Day \union {Undated}, clock : Clock, act : Activity,
         at : PlaceOrNone, text : PlaceOrNone,
         player : Player \union {Nobody}, name : Spelling \union {NoName},
         note : Note, origin : {"import", "admin"}]

Row == [day : Day \union {Undated}, clock : Clock, act : Activity,
        text : PlaceOrNone, name : Spelling, note : Note]

\* offered: the two seats when the offer was made (history).
Swap == [give : Slot, get : Slot, offered : Seat \X Seat]

ASSUME ImportOK ==
  /\ LastDay \in Nat \ {0} /\ MaxSlot \in Nat /\ MaxEdit \in Nat
  /\ Player \intersect Nickname = {} /\ Nobody \notin Player /\ NoName \notin Spelling
  /\ \A f \in File : f \in Seq(Row)
  /\ \A a \in Answers : \A n \in DOMAIN a.names : a.names[n] \in Player
  /\ \A e \in Edit.update : /\ e.day \in Day \union {Undated, Keep}
                             /\ e.player \in Player \union {Nobody, Keep}
  /\ \A e \in Edit.create : /\ e.day \in Day \union {Undated}
                             /\ e.clock \in Clock /\ e.act \in Activity
  /\ \A s \in Start : /\ s.venue \subseteq Venue /\ s.station \subseteq Place
                       /\ VenuesOf(s.station) \subseteq s.venue
                       /\ DOMAIN s.seat \subseteq Slot /\ s.seat \in [DOMAIN s.seat -> Seat]

-----------------------------------------------------------------------------
(* Whom and where a row means.                                             *)

\* _Resolver.player: the roster, this review's answer, a saved answer.
PlayerOf(name, answers) ==
  IF name \in Player THEN name
  ELSE IF name \in DOMAIN answers.names THEN answers.names[name]
  ELSE alias[name]

\* The player a saved answer gave this spelling and this review corrects.
Wrong(name, answers) ==
  IF /\ name \in DOMAIN answers.names \ Player
     /\ alias[name] # answers.names[name]
  THEN alias[name] ELSE Nobody

\* _Resolver.station: the profile, this review's answer, a saved answer.
PlaceOf(act, answers) ==
  IF FindStation(ProfileOf[act], station) # NoPlace THEN ProfileOf[act]
  ELSE IF act \in DOMAIN answers.places THEN answers.places[act]
  ELSE placed[act]

\* The rows whose place this review's answer decides.
AnswerPlaces(file, answers, act) ==
  /\ act \in DOMAIN answers.places
  /\ FindStation(ProfileOf[act], station) = NoPlace
  /\ \E i \in DOMAIN file : file[i].act = act /\ file[i].text = NoPlace

\* The answers that are new, for save_answers.
NewNames(file, answers) ==
  {n \in DOMAIN answers.names \ Player :
     alias[n] # answers.names[n] /\ \E i \in DOMAIN file : file[i].name = n}

NewPlaces(file, answers) ==
  {a \in DOMAIN answers.places :
     AnswerPlaces(file, answers, a) /\ placed[a] # answers.places[a]}

\* _want: a row, resolved.
Want(row, answers) ==
  [day |-> row.day, clock |-> row.clock, act |-> row.act, name |-> row.name, note |-> row.note,
   at |-> IF row.text # NoPlace THEN row.text ELSE PlaceOf(row.act, answers),
   player |-> PlayerOf(row.name, answers)]

\* A station the file or an answer names does not exist.
Invalid(file, answers) ==
  \/ \E i \in DOMAIN file : file[i].text \notin station \union {NoPlace}
  \/ \E a \in DOMAIN answers.places : answers.places[a] \notin station

-----------------------------------------------------------------------------
(* Which seats and rows fit.                                               *)

W(i) == Want(job.file[i], job.answers)

\* _ident and _Want.ident.
Ident(x) ==
  <<x.day, x.clock, x.act, x.at, IF x.day = Undated THEN x.note ELSE NoNote>>

\* Mutant of SpellingOf: the name of whoever has the seat now.
SpellingOfOwner(s) == IF seat[s].player # Nobody THEN seat[s].player ELSE seat[s].name

\* _spelling: the name the schedule gave a seat.
SpellingOf(s) == IF seat[s].name # NoName THEN seat[s].name
                 ELSE IF seat[s].player # Nobody THEN seat[s].player ELSE NoName

\* What the file is about: its activities, in its seasons, plus the undated.
Existing(file) ==
  {s \in DOMAIN seat :
     /\ \E i \in DOMAIN file : file[i].act = seat[s].act
     /\ \/ seat[s].day = Undated
        \/ \E i \in DOMAIN file : /\ file[i].day # Undated
                                  /\ SeasonOf[file[i].day] = SeasonOf[seat[s].day]}

PastDay(day) == day # Undated /\ day < today

\* Mutant of Frozen: only history is left alone.
FrozenByDate(s) == PastDay(seat[s].day)

\* History, or a seat made under Pass: matched, never changed.
Frozen(s) == seat[s].origin # "import" \/ PastDay(seat[s].day)

\* Whom a seat's schedule name meant before this review.
Meant(s) == LET n == SpellingOf(s) IN
  IF n \in Player THEN n ELSE IF n = NoName THEN Nobody ELSE alias[n]

SamePerson(s, w) ==
  \/ SpellingOf(s) = w.name
  \/ w.player # Nobody /\ Meant(s) = w.player

Unknown(w) == w.player = Nobody

\* An undated "Fredagar" seat can only get a Friday.
WeekdayFits(s, w) == seat[s].note = NoNote \/ seat[s].note = WeekdayOf[w.day]

\* An undated seat the file now dates.
GetsDate(s, w) ==
  /\ seat[s].day = Undated /\ w.day # Undated
  /\ <<seat[s].clock, seat[s].act, seat[s].at>> = <<w.clock, w.act, w.at>>
  /\ WeekdayFits(s, w)

\* The seat sits where a saved answer put its activity, and the row where
\* this review's answer puts it.
PlacedBefore(s, w) ==
  /\ AnswerPlaces(job.file, job.answers, w.act)
  /\ placed[w.act] \notin {NoPlace, job.answers.places[w.act]}
  /\ seat[s].at = placed[w.act]
  /\ w.at = job.answers.places[w.act]

\* The passes after the second leave frozen seats and past rows alone.
Open(s, w) == ~Frozen(s) /\ ~PastDay(w.day)

Pass == 1 .. 8
Kind == <<"same", "same", "dated", "placed", "held", "held", "moved", "edited">>

Fits(pass, s, w) ==
  \/ pass = 1 /\ Ident(seat[s]) = Ident(w) /\ SpellingOf(s) = w.name
  \/ pass = 2 /\ Ident(seat[s]) = Ident(w) /\ SamePerson(s, w)
  \/ pass = 3 /\ Open(s, w) /\ GetsDate(s, w) /\ SamePerson(s, w)
  \/ /\ pass = 4 /\ Open(s, w) /\ SamePerson(s, w) /\ PlacedBefore(s, w)
     /\ Ident([seat[s] EXCEPT !.at = w.at]) = Ident(w)
  \/ /\ pass = 5 /\ Open(s, w) /\ Unknown(w) /\ seat[s].player # Nobody
     /\ Ident(seat[s]) = Ident(w)
  \/ pass = 6 /\ Open(s, w) /\ Unknown(w) /\ seat[s].player # Nobody /\ GetsDate(s, w)
  \/ pass = 7 /\ Open(s, w) /\ Ident(seat[s]) = Ident(w)
  \/ /\ pass = 8 /\ Open(s, w) /\ SamePerson(s, w) /\ seat[s].act = w.act
     /\ (seat[s].day = Undated /\ w.day # Undated) => WeekdayFits(s, w)

\* How far a seat is from a row's day: undated is farthest from a date.
Distance(s, w) ==
  IF seat[s].day # Undated /\ w.day # Undated
  THEN IF seat[s].day < w.day THEN w.day - seat[s].day ELSE seat[s].day - w.day
  ELSE IF seat[s].day = w.day THEN 0 ELSE LastDay

\* The order in which a pass tries the seats for a row.
Earlier(pass, w, s, t) ==
  IF pass \in {1, 2} /\ Frozen(s) # Frozen(t) THEN Frozen(t)
  ELSE IF pass = 8 /\ Distance(s, w) # Distance(t, w) THEN Distance(s, w) < Distance(t, w)
  ELSE s < t

-----------------------------------------------------------------------------
(* Planning an import.                                                     *)

Init ==
  /\ \E s \in Start : /\ seat = s.seat
                      /\ venue = s.venue /\ station = s.station
  /\ swap = {}
  /\ alias = [n \in Nickname |-> Nobody]
  /\ placed = [a \in Activity |-> NoPlace]
  /\ today = 1
  /\ job = NoJob
  /\ edits = 0
  /\ imported = NoFile

\* The highest id given out, or 0.
Highest(h) == h \in DOMAIN seat \union {0} /\ \A s \in DOMAIN seat : s <= h

\* The plan starts from the seats the file is about and all of its rows.  The
\* server answers after its first start, which has made the stations.
Begin(file, answers) ==
  /\ job = NoJob
  /\ station # {}
  /\ ~Invalid(file, answers)
  /\ \E h \in 0 .. MaxSlot : Highest(h) /\ h + Len(file) <= MaxSlot
  /\ job' = [file |-> file, answers |-> answers, slots |-> Existing(file),
             todo |-> DOMAIN file, pairs |-> {}]
  /\ UNCHANGED <<rows, venue, station, today, edits, imported>>

\* Some row of the plan fits some seat in this pass.
Matches(pass) ==
  {m \in job.todo \X job.slots : Fits(pass, m[2], W(m[1]))}

\* Mutant of Pair: each row goes through all the passes before the next row.
PairRowByRow(pass, i, s) ==
  /\ job # NoJob
  /\ Fits(pass, s, W(i))
  /\ \A p \in Pass : \A m \in Matches(p) : m[1] > i \/ (m[1] = i /\ p >= pass)
  /\ \A m \in Matches(pass) : m[1] = i => m[2] = s \/ Earlier(pass, W(i), s, m[2])
  /\ job' = [job EXCEPT !.slots = @ \ {s}, !.todo = @ \ {i},
                        !.pairs = @ \union {<<s, i, Kind[pass]>>}]
  /\ UNCHANGED <<rows, venue, station, today, edits, imported>>

\* _pair: in the first pass that still matches anything, the first such row
\* takes the first seat that fits it.
Pair(pass, i, s) ==
  /\ job # NoJob
  /\ Fits(pass, s, W(i))
  /\ \A p \in Pass : p < pass => Matches(p) = {}
  /\ \A m \in Matches(pass) :
       m[1] > i \/ (m[1] = i /\ (m[2] = s \/ Earlier(pass, W(i), s, m[2])))
  /\ job' = [job EXCEPT !.slots = @ \ {s}, !.todo = @ \ {i},
                        !.pairs = @ \union {<<s, i, Kind[pass]>>}]
  /\ UNCHANGED <<rows, venue, station, today, edits, imported>>

-----------------------------------------------------------------------------
(* Writing it.                                                             *)

\* Mutant of NewOwner: a held seat is treated like any other.
NewOwnerUnheld(s, w, kind) ==
  IF kind \in {"moved", "held"} \/ seat[s].player = Nobody THEN w.player ELSE seat[s].player

\* Who has a matched seat afterwards: only a "moved" seat, or one that a
\* corrected saved answer gave to the wrong player, changes owner.
NewOwner(s, w, kind) ==
  LET old == seat[s].player
      wrong == Wrong(w.name, job.answers)
  IN CASE kind = "moved" -> w.player
       [] kind = "held" -> old
       [] OTHER -> IF old = Nobody \/ (wrong # Nobody /\ old = wrong) THEN w.player ELSE old

\* _reconcile.  A pass that compares a field leaves it as it is.
Reconciled(s, w, kind) ==
  [seat[s] EXCEPT
     !.day = w.day, !.clock = w.clock, !.at = w.at,
     !.text = IF w.at # seat[s].at THEN w.at ELSE @,
     !.player = NewOwner(s, w, kind),
     !.name = IF kind = "held" THEN @ ELSE w.name,
     !.note = IF kind = "same" /\ seat[s].day = Undated THEN @ ELSE w.note]

\* Mutant of Cancels: only a new owner does.
CancelsForOwner(s, w, kind) == seat[s].player \notin {Nobody, NewOwner(s, w, kind)}

\* A change of shift cancels the seat's pending swaps, and so does a change
\* of owner.  A first date, or a player for a free seat, does not.
Cancels(s, w, kind) ==
  \/ kind \in {"edited", "placed"}
  \/ seat[s].player \notin {Nobody, NewOwner(s, w, kind)}

\* The pairs that change something.
Edited ==
  {p \in job.pairs : ~Frozen(p[1]) /\ Reconciled(p[1], W(p[2]), p[3]) # seat[p[1]]}

Changed == {p[1] : p \in {q \in Edited : Cancels(q[1], W(q[2]), q[3])}}

\* Unmatched seats go, unmatched rows come.
Removed == {s \in job.slots : ~Frozen(s)}
Added == {i \in job.todo : ~PastDay(W(i).day)}

\* slot_order of the rows added, names aside.
Before(v, w) ==
  \/ v.day # Undated /\ (w.day = Undated \/ v.day < w.day)
  \/ v.day = w.day /\ v.clock < w.clock

\* SQLite gives out ids from the highest on; a flush inserts before it deletes.
\* No row comes before one that sorts first.
IsNumbering(f) ==
  \A i, j \in Added : Before(W(i), W(j)) => f[i] < f[j]

NewSeat(w) ==
  [day |-> w.day, clock |-> w.clock, act |-> w.act, at |-> w.at, text |-> w.at,
   player |-> w.player, name |-> w.name, note |-> w.note, origin |-> "import"]

Written(f) ==
  [s \in (DOMAIN seat \ Removed) \union Range(f) |->
     IF s \in Range(f) THEN NewSeat(W(CHOOSE i \in Added : f[i] = s))
     ELSE IF \E p \in Edited : p[1] = s
     THEN LET p == CHOOSE q \in Edited : q[1] = s IN Reconciled(s, W(p[2]), p[3])
     ELSE seat[s]]

\* Mutant of Touching: the requests that give one of the seats away.
TouchingGiver(S) == {r \in swap : r.give \in S}

Touching(S) == {r \in swap : r.give \in S \/ r.get \in S}

Changes == Edited # {} \/ Removed # {} \/ Added # {}

\* write and save_answers.  Answers that change no seat are not saved.
Write ==
  /\ job # NoJob
  /\ \A p \in Pass : Matches(p) = {}
  /\ \E h \in 0 .. MaxSlot :
       /\ Highest(h)
       /\ \E f \in Bijection(Added, (h + 1) .. (h + Cardinality(Added))) :
            IsNumbering(f) /\ seat' = Written(f)
  /\ swap' = swap \ Touching(Changed \union Removed)
  /\ alias' = [n \in Nickname |->
       IF Changes /\ n \in NewNames(job.file, job.answers)
       THEN job.answers.names[n] ELSE alias[n]]
  /\ placed' = [a \in Activity |->
       IF Changes /\ a \in NewPlaces(job.file, job.answers)
       THEN job.answers.places[a] ELSE placed[a]]
  /\ imported' = IF Changes THEN job.file ELSE imported
  /\ job' = NoJob
  /\ UNCHANGED <<venue, station, today, edits>>

-----------------------------------------------------------------------------
(* Parents, between imports.                                               *)

Quiet == job = NoJob

\* propose_swap.
Propose(s, t) ==
  /\ Quiet
  /\ seat[s].player # Nobody /\ seat[t].player # Nobody
  /\ seat[s].player # seat[t].player
  /\ swap = {}  \* bound: one pending request
  /\ swap' = {[give |-> s, get |-> t, offered |-> <<seat[s], seat[t]>>]}
  /\ UNCHANGED <<seat, alias, placed, venue, station, today, job, edits, imported>>

\* accept_swap: the players change places, and other requests on the seats fall.
Accept(r) ==
  /\ Quiet
  /\ seat' = [seat EXCEPT ![r.give].player = seat[r.get].player,
                          ![r.get].player = seat[r.give].player]
  /\ swap' = swap \ Touching({r.give, r.get})
  /\ UNCHANGED <<alias, placed, venue, station, today, job, edits, imported>>

\* decline_swap.
Decline(r) ==
  /\ Quiet
  /\ swap' = swap \ {r}
  /\ UNCHANGED <<seat, alias, placed, venue, station, today, job, edits, imported>>

-----------------------------------------------------------------------------
(* The ansvariga, between imports.                                         *)

Edits ==
  /\ Quiet
  /\ edits < MaxEdit
  /\ edits' = edits + 1
  /\ imported' = NoFile
  /\ UNCHANGED <<alias, placed, today, job>>

Or(new, old) == IF new = Keep THEN old ELSE new

\* owner_fields: an imported seat keeps its schedule name.
NameFor(s, p) ==
  IF seat[s].origin = "import" /\ seat[s].name # NoName THEN seat[s].name
  ELSE IF p = Nobody THEN NoName ELSE p

\* slot.update, slots.assign.
UpdateSlot(s, e) ==
  LET new == [seat[s] EXCEPT
                !.day = Or(e.day, @), !.at = Or(e.at, @),
                !.text = IF e.at \in {Keep, seat[s].at} THEN @ ELSE e.at,
                !.player = Or(e.player, @),
                !.name = IF e.player \in {Keep, seat[s].player} THEN @ ELSE NameFor(s, e.player)]
  IN /\ Edits
     /\ e.at \in station \union {Keep}
     /\ new # seat[s]
     /\ seat' = [seat EXCEPT ![s] = new]
     /\ swap' = swap \ Touching({s})
     /\ UNCHANGED <<venue, station>>

\* slots.create, one free seat.
CreateSlot(s, shift) ==
  /\ Edits
  /\ Highest(s - 1)
  /\ shift.at \in station
  /\ seat' = [t \in DOMAIN seat \union {s} |->
       IF t # s THEN seat[t]
       ELSE [day |-> shift.day, clock |-> shift.clock, act |-> shift.act, at |-> shift.at,
             text |-> shift.at, player |-> Nobody, name |-> NoName, note |-> NoNote,
             origin |-> "admin"]]
  /\ UNCHANGED <<swap, venue, station>>

\* slot.delete.
DeleteSlot(s) ==
  /\ Edits
  /\ seat' = [t \in DOMAIN seat \ {s} |-> seat[t]]
  /\ swap' = swap \ Touching({s})
  /\ UNCHANGED <<venue, station>>

\* venue.create and station.create refuse a name that is there already.
CreateVenue(v) ==
  /\ Edits
  /\ v \notin venue
  /\ venue' = venue \union {v}
  /\ UNCHANGED <<seat, swap, station>>

CreateStation(p) ==
  /\ Edits
  /\ p[1] \in venue /\ p \notin station
  /\ station' = station \union {p}
  /\ UNCHANGED <<seat, swap, venue>>

-----------------------------------------------------------------------------
\* migrate, at every start of the server; a plan under way is rolled back.
Restart ==
  /\ station' = Seeded(station, seat)
  /\ venue' = venue \union VenuesOf(station')
  /\ seat' = Linked(station', seat)
  /\ job' = NoJob
  /\ UNCHANGED <<swap, alias, placed, today, edits, imported>>

Tomorrow ==
  /\ Quiet
  /\ today < LastDay
  /\ today' = today + 1
  /\ UNCHANGED <<rows, venue, station, job, edits, imported>>

Import ==
  \/ \E file \in File, answers \in Answers : Begin(file, answers)
  \/ job # NoJob /\ \E pass \in Pass, i \in job.todo, s \in job.slots : Pair(pass, i, s)
  \/ Write

Parents ==
  \/ \E s, t \in DOMAIN seat : Propose(s, t)
  \/ \E r \in swap : Accept(r) \/ Decline(r)

Ansvarig ==
  \/ \E s \in DOMAIN seat : DeleteSlot(s) \/ \E e \in Edit.update : UpdateSlot(s, e)
  \/ \E s \in Slot, shift \in Edit.create : CreateSlot(s, shift)
  \/ \E v \in Venue : CreateVenue(v)
  \/ \E p \in Place : CreateStation(p)

Next == Import \/ Parents \/ Ansvarig \/ Restart \/ Tomorrow

Spec == Init /\ [][Next]_vars

-----------------------------------------------------------------------------
(* Properties.                                                             *)

\* Rows, answers and requests are well formed; a request's seats exist.
TypeOK ==
  /\ DOMAIN seat \subseteq Slot /\ seat \in [DOMAIN seat -> Seat]
  /\ \A r \in swap : r \in Swap /\ {r.give, r.get} \subseteq DOMAIN seat
  /\ alias \in [Nickname -> Player \union {Nobody}]
  /\ placed \in [Activity -> station \union {NoPlace}]
  /\ station \subseteq Place /\ venue \subseteq Venue /\ VenuesOf(station) \subseteq venue
  /\ today \in Day

\* Importing again the file the schedule follows, with no answers, changes
\* nothing, whatever the families traded since, however much time has passed
\* and however often the server was restarted (schedule_import.py: a swap
\* never changes the schedule name of a seat).
SameFileAgain ==
  [][Write /\ job.file = imported /\ DOMAIN job.answers.names = {}
     /\ DOMAIN job.answers.places = {} => UNCHANGED rows]_vars

\* An import never takes a seat from the family that has it, or removes it,
\* while its file still has a row for that shift and schedule name, unless
\* this review corrects the answer that gave them the seat.
ListedSeatsStay ==
  [][Write =>
       \A s \in Existing(job.file) :
         LET Like == {t \in Existing(job.file) :
                        Ident(seat[t]) = Ident(seat[s]) /\ SpellingOf(t) = SpellingOf(s)}
             Rows == {i \in DOMAIN job.file :
                        Ident(W(i)) = Ident(seat[s]) /\ W(i).name = SpellingOf(s)}
         IN Cardinality(Rows) >= Cardinality(Like) =>
              /\ s \in DOMAIN seat'
              /\ \/ seat[s].player \in {Nobody, seat'[s].player}
                 \/ seat[s].player = Wrong(SpellingOf(s), job.answers)]_vars

\* An import leaves no seat that had a player without one: a name nobody has
\* answered for never takes a seat away.
NobodyUnseated ==
  [][Write => \A s \in DOMAIN seat \intersect DOMAIN seat' :
       seat[s].player # Nobody => seat'[s].player # Nobody]_vars

\* A pending request is still about the duties that were offered: same
\* players, same shifts, except that an undated or unplaced seat may have
\* got its date or place.
StillOffered(old, new) ==
  /\ new.player = old.player /\ new.clock = old.clock
  /\ old.day \in {Undated, new.day}
  /\ old.at \in {NoPlace, new.at}

PendingAsOffered ==
  \A r \in swap : /\ StillOffered(r.offered[1], seat[r.give])
                  /\ StillOffered(r.offered[2], seat[r.get])

\* History is history: past seats and seats made under Pass go through any
\* import unchanged.
HistoryStays ==
  [][Write => \A s \in DOMAIN seat :
       seat[s].origin = "admin" \/ (seat[s].day # Undated /\ seat[s].day < today) =>
         s \in DOMAIN seat' /\ seat'[s] = seat[s]]_vars

\* Where a seat is held is there twice: the text parents read, and the station
\* whose instruction they open.  Only a start links a seat to a place that is
\* not the one written on it, only while it has no station, and only its
\* duty's own; no import, edit or later start makes the two differ
\* (migrate.py: the places belong to the ansvariga from then on).
PlacedAsWritten ==
  [][\A s \in DOMAIN seat' :
       \/ seat'[s].at \in {NoPlace, seat'[s].text}
       \/ /\ s \in DOMAIN seat
          /\ \/ seat[s].at = NoPlace /\ seat'[s].at = ProfileOf[seat[s].act]
             \/ seat[s].at \notin {NoPlace, seat[s].text}]_vars

=============================================================================
