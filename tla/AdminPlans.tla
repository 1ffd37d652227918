----------------------------- MODULE AdminPlans -----------------------------
(***************************************************************************)
(* What the admin actions plan.  Action.plan(session, ctx, inp) is pure:   *)
(* from the rows and the input it works out the writes and everything      *)
(* Granska shows, whose hash is the plan's digest.  Here a plan is the     *)
(* digest and the rows as the writes leave them, both functions of the     *)
(* rows d.  Modelled: slot.update, slot.delete, slots.create,              *)
(* team_admins.add and team_admins.remove, of one team.                    *)
(***************************************************************************)
EXTENDS Integers, FiniteSets

CONSTANTS
  Player,     \* the team's players
  Person,     \* the people who log in
  ClubAdmin,  \* the club admins among them; no action changes them
  TeamRoster, \* the team's parents
  MaxSlot,    \* bound on slot ids
  MaxSwap,    \* bound on swap request ids
  Shift,      \* a date, start, end and place
  DayOf,      \* the date of each shift
  Clash,      \* the pairs of shifts that overlap at one station
  Nobody,     \* player_id IS NULL
  Gone,       \* no row with this slot id
  NoRow,      \* no swap request with this id
  Keep,       \* the field is left out of the input
  Refused,    \* plan raised ValidationError
  Act,        \* the inputs that are tried
  Start       \* the rows the system may start from

Slot == 1 .. MaxSlot
SwapId == 1 .. MaxSwap

Seat == [player : Player \union {Nobody}, shift : Shift]
Swap == [give : Slot, get : Slot,
         status : {"pending", "accepted", "declined", "cancelled"}]
Data == [seat : [Slot -> Seat \union {Gone}],
         swap : [SwapId -> Swap \union {NoRow}],
         role : SUBSET Person]

\* The inputs of the actions.
Input ==
  [do : {"slot.update"}, slots : SUBSET Slot,
   shift : Shift \union {Keep}, player : Player \union {Nobody, Keep}]
  \union [do : {"slot.delete"}, slots : SUBSET Slot]
  \union [do : {"slots.create"}, shift : Shift]
  \union [do : {"team_admins.add", "team_admins.remove"}, person : Person]

\* The foreign keys of swap_requests.
ForeignKeys(d) ==
  \A i \in SwapId : d.swap[i] # NoRow =>
    d.seat[d.swap[i].give] # Gone /\ d.seat[d.swap[i].get] # Gone

ASSUME PlansOK ==
  /\ MaxSlot \in Nat /\ MaxSwap \in Nat
  /\ ClubAdmin \subseteq Person /\ TeamRoster \subseteq Person
  /\ IsFiniteSet(Person)
  /\ Gone \notin Seat /\ NoRow \notin Swap
  /\ Start \subseteq Data /\ \A d \in Start : ForeignKeys(d)
  /\ Act \subseteq Input

-----------------------------------------------------------------------------
(* Reading the rows.                                                       *)

\* admin_context: a club admin, or ansvarig for the team.
MayAdmin(who, d) == who \in ClubAdmin \union d.role

LiveSlots(d) == {s \in Slot : d.seat[s] # Gone}

Requests(d) == {i \in SwapId : d.swap[i] # NoRow}

Pending(d) == {i \in Requests(d) : d.swap[i].status = "pending"}

\* The requests with a foot on one of these slots.
Touching(d, S) == {i \in Requests(d) : d.swap[i].give \in S \/ d.swap[i].get \in S}

\* team_slots and the shift_key check: existing seats of one shift.
OneShift(d, S) ==
  /\ S # {} /\ S \subseteq LiveSlots(d)
  /\ \A s, t \in S : d.seat[s].shift = d.seat[t].shift

-----------------------------------------------------------------------------
(* What Granska shows, as far as it varies with the rows, and the basis.   *)

\* Mutant of SeatBasis: only the shift, which is all that slot_label shows.
SeatLabels(d, S) == [s \in S |-> d.seat[s].shift]

\* slot_basis of the selected seats.
SeatBasis(d, S) == [s \in S |-> d.seat[s]]

\* Mutant of SwapBasis: the requests are left out.
SwapsForgotten(d, touched) == {}

\* plan_swap_cancellations: every request touched, with its status, and for
\* the pending ones both seats with their owners.
SwapBasis(d, touched) == {<<i, d.swap[i].status>> : i \in Touching(d, touched)}

SwapWarnings(d, touched) ==
  {<<d.seat[d.swap[i].give], d.seat[d.swap[i].get]>> : i \in Touching(d, touched) \intersect Pending(d)}

\* plan_swap_cancellations' write.
CancelSwaps(d, changed, deleted) ==
  [i \in SwapId |->
     IF i \in Touching(d, deleted) THEN NoRow
     ELSE IF i \in Touching(d, changed) \intersect Pending(d)
     THEN [d.swap[i] EXCEPT !.status = "cancelled"]
     ELSE d.swap[i]]

-----------------------------------------------------------------------------
(* The actions.                                                            *)

\* slot.update: a new shift for the seats of one shift, a new player or none
\* for a single seat, or both.
Edited(d, act, s) ==
  [player |-> IF act.player = Keep THEN d.seat[s].player ELSE act.player,
   shift  |-> IF act.shift = Keep THEN d.seat[s].shift ELSE act.shift]

\* "... har redan ett pass": players whom a new player or a new date gives two
\* shifts on a day.
DoubleBooked(d, act) ==
  LET day(s) == DayOf[Edited(d, act, s).shift] IN
  {x \in Player : \E s \in act.slots, u \in LiveSlots(d) \ act.slots :
     /\ d.seat[s].player # x \/ DayOf[d.seat[s].shift] # day(s)
     /\ Edited(d, act, s).player = x
     /\ d.seat[u].player = x
     /\ DayOf[d.seat[u].shift] = day(s)}

\* The seats the edit changes: one that already has these values is left alone.
Edits(d, act) == {s \in act.slots : Edited(d, act, s) # d.seat[s]}

EditedSeats(d, act) ==
  [s \in Slot |-> IF s \in Edits(d, act) THEN Edited(d, act, s) ELSE d.seat[s]]

UpdateSlots(d, act) ==
  IF ~OneShift(d, act.slots) \/ (act.player # Keep /\ Cardinality(act.slots) # 1)
  THEN Refused
  ELSE [digest |-> <<SeatBasis(d, act.slots), SwapBasis(d, Edits(d, act)),
                     SwapWarnings(d, Edits(d, act)), DoubleBooked(d, act)>>,
        data |-> [d EXCEPT !.seat = EditedSeats(d, act),
                           !.swap = CancelSwaps(d, Edits(d, act), {})]]

\* slot.delete: the seats of one shift.
RemainingSeats(d, S) == [s \in Slot |-> IF s \in S THEN Gone ELSE d.seat[s]]

DeleteSlots(d, act) ==
  IF ~OneShift(d, act.slots) THEN Refused
  ELSE [digest |-> <<SeatBasis(d, act.slots), SwapBasis(d, act.slots),
                     SwapWarnings(d, act.slots)>>,
        data |-> [d EXCEPT !.seat = RemainingSeats(d, act.slots),
                           !.swap = CancelSwaps(d, {}, act.slots)]]

\* _overlaps: each overlapping shift is named once, however many seats it has.
Overlaps(d, act) ==
  {d.seat[s].shift : s \in {u \in LiveSlots(d) : <<d.seat[u].shift, act.shift>> \in Clash}}

\* INTEGER PRIMARY KEY: the largest id plus one.
NextSlots(d) == {s \in Slot : /\ \A u \in LiveSlots(d) : u < s
                              /\ s = 1 \/ s - 1 \in LiveSlots(d)}

\* slots.create: one empty seat.  (Refused when MaxSlot is reached: a bound.)
CreateSlots(d, act) ==
  IF NextSlots(d) = {} THEN Refused
  ELSE [digest |-> <<Overlaps(d, act)>>,
        data |-> [d EXCEPT !.seat = [s \in Slot |->
                    IF s \in NextSlots(d) THEN [player |-> Nobody, shift |-> act.shift]
                                          ELSE d.seat[s]]]]

\* team_admins.add: a parent of the team who is not ansvarig yet.
AddTeamAdmin(d, act) ==
  IF act.person \notin TeamRoster \/ act.person \in d.role THEN Refused
  ELSE [digest |-> <<>>, data |-> [d EXCEPT !.role = @ \union {act.person}]]

\* Mutant of RemoveTeamAdmin: nobody is counted.
RemoveAnyTeamAdmin(d, who, act) ==
  IF act.person \notin d.role THEN Refused
  ELSE [digest |-> <<>>, data |-> [d EXCEPT !.role = @ \ {act.person}]]

\* team_admins.remove: the last one only by a club admin.
RemoveTeamAdmin(d, who, act) ==
  IF act.person \notin d.role \/ (Cardinality(d.role) = 1 /\ who \notin ClubAdmin)
  THEN Refused
  ELSE [digest |-> <<>>, data |-> [d EXCEPT !.role = @ \ {act.person}]]

\* action.plan(session, ctx, inp), with ctx.person = who.
PlanOf(who, act, d) ==
  CASE act.do = "slot.update" -> UpdateSlots(d, act)
    [] act.do = "slot.delete" -> DeleteSlots(d, act)
    [] act.do = "slots.create" -> CreateSlots(d, act)
    [] act.do = "team_admins.add" -> AddTeamAdmin(d, act)
    [] act.do = "team_admins.remove" -> RemoveTeamAdmin(d, who, act)

\* What writing e over d does to the rows that people see: the seats that
\* change, with both values, the new seats, the requests whose status changes
\* or that go, and who becomes or ceases to be ansvarig.
Effect(d, e) ==
  LET status(f, i) == IF f.swap[i] = NoRow THEN "none" ELSE f.swap[i].status IN
  [seats |-> {<<s, d.seat[s], e.seat[s]>> : s \in {u \in LiveSlots(d) : e.seat[u] # d.seat[u]}},
   added |-> {e.seat[s] : s \in LiveSlots(e) \ LiveSlots(d)},
   swaps |-> {<<i, status(d, i), status(e, i)>> : i \in {j \in Requests(d) : e.swap[j] # d.swap[j]}},
   roles |-> <<e.role \ d.role, d.role \ e.role>>]

-----------------------------------------------------------------------------
(* The parents' writes, each of them one transaction (see SwapHandlers).   *)

\* INTEGER PRIMARY KEY, as NextSlots.
NextSwaps(d) == {i \in SwapId : /\ \A j \in Requests(d) : j < i
                                /\ i = 1 \/ i - 1 \in Requests(d)}

FilledSlots(d) == {s \in LiveSlots(d) : d.seat[s].player # Nobody}

Offer(s, t) == [give |-> s, get |-> t, status |-> "pending"]

Proposed(d) ==
  UNION {{[d EXCEPT !.swap[i] = Offer(s, t)] : t \in FilledSlots(d) \ {s}} :
           i \in NextSwaps(d), s \in FilledSlots(d)}

Accepted(d) ==
  {[d EXCEPT
      !.seat = [@ EXCEPT ![d.swap[i].give].player = d.seat[d.swap[i].get].player,
                         ![d.swap[i].get].player = d.seat[d.swap[i].give].player],
      !.swap = [j \in SwapId |->
                  IF j = i THEN [d.swap[j] EXCEPT !.status = "accepted"]
                  ELSE IF j \in Touching(d, {d.swap[i].give, d.swap[i].get}) \intersect Pending(d)
                  THEN [d.swap[j] EXCEPT !.status = "declined"]
                  ELSE d.swap[j]]] : i \in Pending(d)}

Declined(d) ==
  {[d EXCEPT !.swap = [@ EXCEPT ![i].status = "declined"]] : i \in Pending(d)}

ParentWrites(d) == Proposed(d) \union Accepted(d) \union Declined(d)

=============================================================================
