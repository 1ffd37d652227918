------------------------------ MODULE SwapRows ------------------------------
(***************************************************************************)
(* The rows every swap handler of duty_web works on: the seats (table      *)
(* slots) and the swap requests (table swap_requests), with what the       *)
(* admin actions do to both.  The parents' own handlers are added by       *)
(* SwapBook (one request at a time) and SwapHandlers (request threads).    *)
(*                                                                         *)
(* A seat keeps the player on it, the team it belongs to and the shift     *)
(* (date, time, place) it is part of; a request keeps its two slot ids,    *)
(* its status, whether it is more than seven days old, and - for the       *)
(* properties only - the two seats as propose_swap read them when it made  *)
(* the offer.                                                              *)
(***************************************************************************)
EXTENDS Integers, FiniteSets

CONSTANTS
  Player,      \* the children the duties belong to
  Person,      \* the parents who log in
  KidsOf,      \* the players each parent may act for (parent_players)
  Slot,        \* slot ids
  Team,        \* the teams of the club
  PlayerTeam,  \* the team a player belongs to
  Shift,       \* a date, start, end and place
  Rosters,     \* the schedules the system may start from
  Nobody,      \* player_id IS NULL: the seat is "Ledigt"
  Gone,        \* no row with this slot id (any more)
  NoRow,       \* no swap request with this id
  NoTerms,     \* the history field of a request that is answered
  MaxId        \* bound on swap request ids

Seat == [player : Player \union {Nobody}, team : Team, shift : Shift]

Status == {"pending", "accepted", "declined", "expired", "cancelled"}

Id == 1 .. MaxId

Terms == [give : Seat, get : Seat]

\* A row of swap_requests: give is proposer_slot_id, get is target_slot_id,
\* stale says now - created_at > 7 days, terms is the history field.
Request == [give : Slot, get : Slot, status : Status, stale : BOOLEAN,
            terms : Terms \union {NoTerms}]

InTeam(team, x) == x \in Player => PlayerTeam[x] = team

ASSUME ConstantsOK ==
  /\ MaxId \in Nat \ {0}
  /\ Slot \subseteq Nat \ {0}
  /\ KidsOf \in [Person -> SUBSET Player]
  /\ Nobody \notin Player
  /\ Gone \notin Seat
  /\ NoRow \notin Request
  /\ NoTerms \notin Terms
  /\ Rosters \subseteq [Slot -> Seat \union {Gone}]
  /\ \A roster \in Rosters, s \in Slot :
       roster[s] \in Seat => InTeam(roster[s].team, roster[s].player)

VARIABLES
  seat,  \* [Slot -> a seat, or Gone]
  swap   \* [Id -> a request, or NoRow]

rows == <<seat, swap>>

RowsInit ==
  /\ seat \in Rosters
  /\ swap = [i \in Id |-> NoRow]

-----------------------------------------------------------------------------
(* Reading the rows.                                                       *)

\* parent_owns_slot: a slot that was found, is filled, and whose player is a
\* child of this parent.
Owns(p, row) == row # Gone /\ row.player \in KidsOf[p]

Live == {s \in Slot : seat[s] # Gone}

Used == {i \in Id : swap[i] # NoRow}

Pending == {i \in Used : swap[i].status = "pending"}

\* INTEGER PRIMARY KEY: a new row gets the largest id in the table plus one.
IsNextId(i) ==
  /\ \A j \in Used : j < i
  /\ i = 1 \/ i - 1 \in Used

\* Mutant of Touching: only the requests that offer the slot.
TouchingProposer(S) == {i \in Used : swap[i].give \in S}

\* The requests with a foot on one of these slots.
Touching(S) == {i \in Used : swap[i].give \in S \/ swap[i].get \in S}

NewRequest(s, t, give, get) ==
  [give |-> s, get |-> t, status |-> "pending", stale |-> FALSE,
   terms |-> [give |-> give, get |-> get]]

\* Age and terms only matter while a request is pending.
Settle(row, status) ==
  [row EXCEPT !.status = status, !.stale = FALSE, !.terms = NoTerms]

SettleAll(S, status) ==
  [i \in Id |-> IF i \in S THEN Settle(swap[i], status) ELSE swap[i]]

-----------------------------------------------------------------------------
(* Seven days pass since a pending request was made.                       *)
Age(i) ==
  /\ i \in Pending
  /\ ~swap[i].stale
  /\ swap' = [swap EXCEPT ![i].stale = TRUE]
  /\ UNCHANGED seat

-----------------------------------------------------------------------------
(* The admin actions.  apply_plan re-plans and writes under SQLite's write *)
(* lock, so each is one step however many rows it reads and writes; the    *)
(* review before it is Executor's subject.                                 *)

\* team_slots and the shift_key check: existing seats of one team, one shift.
OneShift(S) ==
  /\ S # {} /\ S \subseteq Live
  /\ \A s, t \in S : seat[s].team = seat[t].team /\ seat[s].shift = seat[t].shift

\* Mutant of CancelSwaps: the status is misspelt.
CancelSwapsMisspelt(changed, deleted) ==
  swap' = [i \in Id |->
             IF i \in Touching(deleted) THEN NoRow
             ELSE IF i \in Touching(changed) \intersect Pending
             THEN Settle(swap[i], "canceled")
             ELSE swap[i]]

\* plan_swap_cancellations: pending requests on a changed seat are cancelled,
\* every request on a deleted seat is deleted with it.
CancelSwaps(changed, deleted) ==
  swap' = [i \in Id |->
             IF i \in Touching(deleted) THEN NoRow
             ELSE IF i \in Touching(changed) \intersect Pending
             THEN Settle(swap[i], "cancelled")
             ELSE swap[i]]

\* slot.update with a new day, time or station for a shift's seats.
MoveSlots(S, shift) ==
  /\ OneShift(S)
  /\ \A s \in S : seat[s].shift # shift
  /\ seat' = [s \in Slot |-> IF s \in S THEN [seat[s] EXCEPT !.shift = shift] ELSE seat[s]]
  /\ CancelSwaps(S, {})

\* slot.update with a new player, or none, for one seat, and perhaps another
\* shift as well: several seats never change players in one go.
ReplacePlayer(s, x, shift) ==
  /\ s \in Live
  /\ InTeam(seat[s].team, x)
  /\ seat[s].player # x
  /\ seat' = [seat EXCEPT ![s] = [player |-> x, team |-> seat[s].team, shift |-> shift]]
  /\ CancelSwaps({s}, {})

\* slot.delete.
DeleteSlots(S) ==
  /\ OneShift(S)
  /\ seat' = [s \in Slot |-> IF s \in S THEN Gone ELSE seat[s]]
  /\ CancelSwaps({}, S)

\* slots.assign: only empty seats are filled, and requests are left alone.
AssignSlot(s, x) ==
  /\ s \in Live
  /\ seat[s].player = Nobody
  /\ x \in Player
  /\ InTeam(seat[s].team, x)
  /\ seat' = [seat EXCEPT ![s].player = x]
  /\ UNCHANGED swap

\* INTEGER PRIMARY KEY again: new slots are numbered on from the largest id
\* there is, so an id whose slot was deleted can come back.
AreNextSlots(S) ==
  /\ S # {} /\ S \intersect Live = {}
  /\ \A s \in S : /\ \A r \in Live : r < s
                  /\ s = 1 \/ s - 1 \in Live \union S

\* slots.create: empty seats of one team.
CreateSlots(S, team, shifts) ==
  /\ AreNextSlots(S)
  /\ seat' = [s \in Slot |-> IF s \in S
                             THEN [player |-> Nobody, team |-> team, shift |-> shifts[s]]
                             ELSE seat[s]]
  /\ UNCHANGED swap

Admin ==
  \/ \E S \in SUBSET Slot, shift \in Shift : MoveSlots(S, shift)
  \/ \E s \in Slot, x \in Player \union {Nobody}, shift \in Shift : ReplacePlayer(s, x, shift)
  \/ \E S \in SUBSET Slot : DeleteSlots(S)
  \/ \E s \in Slot, x \in Player : AssignSlot(s, x)
  \/ \E S \in SUBSET Slot, team \in Team : \E shifts \in [S -> Shift] :
       CreateSlots(S, team, shifts)

-----------------------------------------------------------------------------
RowsTypeOK ==
  /\ seat \in [Slot -> Seat \union {Gone}]
  /\ swap \in [Id -> Request \union {NoRow}]

\* No sequence of trades and admin changes puts a player on another team's
\* duty, not even when writes are computed from outdated copies: only
\* propose_swap compares the teams, accept_swap relies on it.
SeatsStayInTeam ==
  \A s \in Live : InTeam(seat[s].team, seat[s].player)

=============================================================================
