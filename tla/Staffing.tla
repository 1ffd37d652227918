------------------------------ MODULE Staffing ------------------------------
(***************************************************************************)
(* Bemanna (slots.assign): the empty seats that were picked are filled,    *)
(* those with a lock first, the others one by one in date order by         *)
(* staffing.assign, which lets chance decide only among equals.  The       *)
(* action runs under the executor's lock, so nothing changes the rows      *)
(* meanwhile; what can go wrong is the bookkeeping that is carried from    *)
(* seat to seat.  Chance (the seed) is a free choice here.                 *)
(***************************************************************************)
EXTENDS Integers, FiniteSets

CONSTANTS
  Player,      \* the team's players
  Family,      \* the parents of each player
  Exempt,      \* the leaders' children
  Slot,        \* the team's slot ids
  Day,         \* days, numbered from a Monday
  SeasonDays,  \* the length of a season in days
  Undated,     \* slots.date IS NULL; sorted after every day
  Time,        \* start times
  Place,       \* stations, or the note that tells undated shifts apart
  Rosters,     \* the schedules staffing may start from
  MaxLocks,    \* bound on the number of locks in one input
  Nobody       \* player_id IS NULL

Row == [day : Day \union {Undated}, time : Time, place : Place,
        player : Player \union {Nobody}]

ASSUME StaffingOK ==
  /\ Slot \subseteq Nat /\ IsFiniteSet(Slot)
  /\ Day \subseteq Nat /\ Undated \in Nat /\ \A d \in Day : d < Undated
  /\ Time \subseteq Nat
  /\ SeasonDays \in Nat \ {0}
  /\ Nobody \notin Player
  /\ Rosters \subseteq [Slot -> Row]

VARIABLES
  row,     \* the team's slots
  todo,    \* the picked empty seats that are not decided yet
  locked,  \* the input's locks: the seats and the players pinned to them
  season,  \* the season the loads are counted in
  load,    \* shifts per player, the planned ones included
  held,    \* the days each player has a shift, the planned ones included
  mates,   \* who is on which shift, the planned ones included
  result,  \* the seats filled by this plan, with their players
  busy     \* a plan is being made

vars == <<row, todo, locked, season, load, held, mates, result, busy>>

-----------------------------------------------------------------------------
Dated(s) == row[s].day # Undated

\* shift_key: seats with the same key are one shift.
ShiftKey(s) == <<row[s].day, row[s].time, row[s].place>>

\* slot_order: by date, undated last, then by time and id.
Before(s, t) ==
  \/ row[s].day < row[t].day
  \/ row[s].day = row[t].day /\ row[s].time < row[t].time
  \/ row[s].day = row[t].day /\ row[s].time = row[t].time /\ s < t

IsFirst(s, S) == s \in S /\ \A t \in S \ {s} : Before(s, t)

\* season_of: the season around a day.
SeasonOf(d) == d \div SeasonDays

Season == {SeasonOf(d) : d \in Day}

\* _monday and _week_next_door.
Week(d) == d \div 7

WeekNextDoor(d, days) == \E e \in days : Week(e) \in {Week(d) - 1, Week(d) + 1}

Filled == {s \in Slot : row[s].player # Nobody}

Locked(p) == {s \in DOMAIN locked : locked[s] = p}

\* The filled seats that count towards the load.
Counted(a, p) ==
  {s \in Filled : row[s].player = p /\ (Dated(s) => SeasonOf(row[s].day) = a)}

\* The candidates: not exempt, with somebody to reach.
Pool == {p \in Player \ Exempt : Family[p] # {}}

-----------------------------------------------------------------------------
Nothing == [s \in {} |-> Nobody]

Init ==
  /\ row \in Rosters
  /\ todo = {} /\ locked = Nothing /\ result = Nothing
  /\ season \in Season
  /\ load = [p \in Player |-> 0]
  /\ held = [p \in Player |-> {}]
  /\ mates = {}
  /\ busy = FALSE

\* The plan is over.
Done ==
  /\ todo' = {} /\ locked' = Nothing /\ result' = Nothing
  /\ season' = season
  /\ load' = [p \in Player |-> 0]
  /\ held' = [p \in Player |-> {}]
  /\ mates' = {}
  /\ busy' = FALSE

\* Bemanna for the empty seats among those that were picked.  They must be of
\* one season; the season in the input is used when none has a date.
Begin(empty, lock, a) ==
  /\ ~busy
  /\ empty # {} /\ empty \intersect Filled = {}
  /\ \A s \in empty : Dated(s) => SeasonOf(row[s].day) = a
  /\ busy' = TRUE
  /\ todo' = empty
  /\ locked' = lock
  /\ season' = a
  /\ load' = [p \in Player |-> Cardinality(Counted(a, p))]
  /\ held' = [p \in Player |-> {row[s].day : s \in {t \in Filled : Dated(t) /\ row[t].player = p}}]
  /\ mates' = {<<ShiftKey(s), row[s].player>> : s \in Filled}
  /\ result' = Nothing
  /\ UNCHANGED row

\* Mutants of Give: the day is not noted; a lock does not count.
GiveWithoutDay(s, p) ==
  /\ result' = [t \in DOMAIN result \union {s} |-> IF t = s THEN p ELSE result[t]]
  /\ load' = [load EXCEPT ![p] = @ + 1]
  /\ mates' = mates \union {<<ShiftKey(s), p>>}
  /\ todo' = todo \ {s}
  /\ UNCHANGED <<row, locked, season, held, busy>>

GiveLocksUncounted(s, p) ==
  /\ result' = [t \in DOMAIN result \union {s} |-> IF t = s THEN p ELSE result[t]]
  /\ load' = IF s \in DOMAIN locked THEN load ELSE [load EXCEPT ![p] = @ + 1]
  /\ held' = IF Dated(s) THEN [held EXCEPT ![p] = @ \union {row[s].day}] ELSE held
  /\ mates' = mates \union {<<ShiftKey(s), p>>}
  /\ todo' = todo \ {s}
  /\ UNCHANGED <<row, locked, season, busy>>

\* A seat is decided, and its player's load, days and shifts noted.
Give(s, p) ==
  /\ result' = [t \in DOMAIN result \union {s} |-> IF t = s THEN p ELSE result[t]]
  /\ load' = [load EXCEPT ![p] = @ + 1]
  /\ held' = IF Dated(s) THEN [held EXCEPT ![p] = @ \union {row[s].day}] ELSE held
  /\ mates' = mates \union {<<ShiftKey(s), p>>}
  /\ todo' = todo \ {s}
  /\ UNCHANGED <<row, locked, season, busy>>

Free(s, p) ==
  /\ Dated(s) => row[s].day \notin held[p]
  /\ <<ShiftKey(s), p>> \notin mates

\* Locks first, in order: they keep the rules of the draw.
Lock(s) ==
  /\ IsFirst(s, DOMAIN locked \intersect todo)
  /\ Free(s, locked[s])
  /\ Give(s, locked[s])

\* A lock that would give a player two shifts is refused.
RefuseLock(s) ==
  /\ IsFirst(s, DOMAIN locked \intersect todo)
  /\ ~Free(s, locked[s])
  /\ Done
  /\ UNCHANGED row

Sibling(s, p) ==
  \E q \in Player : <<ShiftKey(s), q>> \in mates /\ Family[q] \intersect Family[p] # {}

NextDoor(s, p) == Dated(s) /\ WeekNextDoor(row[s].day, held[p])

\* Mutant of RanksBefore: a sibling goes before fairness.
SiblingsFirst(s, p, q) ==
  \/ Sibling(s, p) /\ ~Sibling(s, q)
  \/ Sibling(s, p) = Sibling(s, q) /\ load[p] < load[q]

\* rank: fewest shifts, then a sibling on the shift, then no shift the week
\* before or after.
RanksBefore(s, p, q) ==
  \/ load[p] < load[q]
  \/ /\ load[p] = load[q]
     /\ Sibling(s, p) /\ ~Sibling(s, q)
  \/ /\ load[p] = load[q]
     /\ Sibling(s, p) = Sibling(s, q)
     /\ ~NextDoor(s, p) /\ NextDoor(s, q)

Eligible(s) == {p \in Pool : Free(s, p)}

Drawing(s) ==
  /\ DOMAIN locked \intersect todo = {}
  /\ IsFirst(s, todo)

Draw(s, p) ==
  /\ Drawing(s)
  /\ p \in Eligible(s)
  /\ \A q \in Eligible(s) : ~RanksBefore(s, q, p)
  /\ Give(s, p)

\* "Ledigt", with a reason.
LeaveFree(s) ==
  /\ Drawing(s)
  /\ Eligible(s) = {}
  /\ todo' = todo \ {s}
  /\ UNCHANGED <<row, locked, season, load, held, mates, result, busy>>

\* The plan is written.
Write ==
  /\ busy /\ todo = {}
  /\ row' = [s \in Slot |-> IF s \in DOMAIN result THEN [row[s] EXCEPT !.player = result[s]]
                                                   ELSE row[s]]
  /\ Done

Locks(S) == UNION {[L -> Player] : L \in {M \in SUBSET S : Cardinality(M) <= MaxLocks}}

Next ==
  \/ \E empty \in SUBSET (Slot \ Filled) :
       \E lock \in Locks(empty), a \in Season : Begin(empty, lock, a)
  \/ \E s \in Slot : Lock(s) \/ RefuseLock(s) \/ LeaveFree(s)
  \/ \E s \in Slot, p \in Player : Draw(s, p)
  \/ Write

Spec == Init /\ [][Next]_vars

-----------------------------------------------------------------------------
(* Properties.                                                             *)

TypeOK ==
  /\ row \in [Slot -> Row]
  /\ todo \subseteq Slot
  /\ DOMAIN locked \subseteq Slot /\ \A s \in DOMAIN locked : locked[s] \in Player
  /\ season \in Season
  /\ load \in [Player -> Nat]
  /\ held \in [Player -> SUBSET Day]
  /\ mates \subseteq ((Day \union {Undated}) \X Time \X Place) \X Player
  /\ DOMAIN result \subseteq Slot /\ \A s \in DOMAIN result : result[s] \in Player
  /\ busy \in BOOLEAN

\* Two shifts one player can have: another day, or an undated shift of its own.
Apart(s, t) == IF Dated(s) THEN row[t].day # row[s].day ELSE ShiftKey(t) # ShiftKey(s)

\* Nobody is staffed onto a day, or an undated shift, where the same plan or
\* an earlier one, a lock or a trade has put them already: not even when the
\* seats were decided in different rounds (staffing.py:19, slots_assign.py:160).
NoSecondShift ==
  [][Write => \A s \in DOMAIN result, t \in Slot :
                (t # s /\ row'[t].player = result[s]) => Apart(s, t)]_vars

\* The loads that decide who is next, kept up from seat to seat, are what a
\* recount of the season's filled, locked and drawn seats gives.
LoadsAreCounts ==
  busy => \A p \in Player :
            load[p] = Cardinality(Counted(season, p) \union {s \in DOMAIN result : result[s] = p})

\* The load of p when seat s was drawn, by a recount.
LoadAt(p, s) ==
  Cardinality(Counted(season, p) \union
    {t \in DOMAIN result : result[t] = p /\ (t \in DOMAIN locked \/ Before(t, s))})

Holder(t) == IF t \in DOMAIN result THEN result[t] ELSE row[t].player

\* Fair first: whoever could still take a drawn seat when the plan is complete
\* had no fewer shifts than the player who got it (staffing.py:9).
FewestFirst ==
  \A s \in DOMAIN result \ DOMAIN locked, q \in Pool :
    (\A t \in Slot : Holder(t) = q => Apart(s, t)) => LoadAt(result[s], s) <= LoadAt(q, s)

=============================================================================
