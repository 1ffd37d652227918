-------------------------- MODULE SwapBook_proofs --------------------------
(***************************************************************************)
(* What SwapBook guarantees for every club: any players, parents, seats,   *)
(* teams, shifts, starting schedules and number of requests.               *)
(***************************************************************************)
EXTENDS SwapBook, TLAPS

-----------------------------------------------------------------------------
(* Lemmas about the rows.                                                  *)

\* A request that is settled is still a request, on the same two slots, and
\* not pending any more.
LEMMA SettleType ==
  ASSUME NEW row \in Request, NEW status \in Status \ {"pending"}
  PROVE  /\ Settle(row, status) \in Request
         /\ Settle(row, status).status = status
         /\ Settle(row, status).give = row.give
         /\ Settle(row, status).get = row.get
BY DEF Settle, Request

\* A new offer is a request.
LEMMA NewRequestType ==
  ASSUME NEW s \in Slot, NEW t \in Slot, NEW give \in Seat, NEW get \in Seat
  PROVE  NewRequest(s, t, give, get) \in Request
BY DEF NewRequest, Request, Status, Terms

\* What the rows of a well-typed state are.
LEMMA RowTypes ==
  ASSUME RowsTypeOK
  PROVE  /\ \A s \in Live : s \in Slot /\ seat[s] \in Seat
         /\ \A i \in Used : i \in Id /\ swap[i] \in Request
         /\ \A i \in Pending : i \in Used
BY DEF RowsTypeOK, Live, Used, Pending

-----------------------------------------------------------------------------
(* Type correctness.                                                       *)

\* The swap table after plan_swap_cancellations.
LEMMA CancelSwapsType ==
  ASSUME RowsTypeOK, NEW changed, NEW deleted, CancelSwaps(changed, deleted)
  PROVE  swap' \in [Id -> Request \union {NoRow}]
<1>1. ASSUME NEW i \in Id
      PROVE  (IF i \in Touching(deleted) THEN NoRow
              ELSE IF i \in Touching(changed) \intersect Pending
              THEN Settle(swap[i], "cancelled") ELSE swap[i]) \in Request \union {NoRow}
  <2>1. CASE i \in Touching(deleted)
    BY <2>1
  <2>2. CASE i \notin Touching(deleted) /\ i \in Touching(changed) \intersect Pending
    <3>1. swap[i] \in Request
      BY <2>2, RowTypes
    <3>2. Settle(swap[i], "cancelled") \in Request
      BY <3>1, SettleType DEF Status
    <3>3. QED
      BY <2>2, <3>2
  <2>3. CASE i \notin Touching(deleted) /\ i \notin Touching(changed) \intersect Pending
    BY <2>3 DEF RowsTypeOK
  <2>4. QED
    BY <2>1, <2>2, <2>3
<1>2. QED
  BY <1>1 DEF CancelSwaps

\* The swap table after settling a set of existing requests.
LEMMA SettleAllType ==
  ASSUME RowsTypeOK, NEW S \in SUBSET Used, NEW status \in Status \ {"pending"}
  PROVE  SettleAll(S, status) \in [Id -> Request \union {NoRow}]
<1>1. ASSUME NEW i \in Id
      PROVE  (IF i \in S THEN Settle(swap[i], status) ELSE swap[i]) \in Request \union {NoRow}
  <2>1. CASE i \in S
    <3>1. swap[i] \in Request
      BY <2>1, RowTypes
    <3>2. QED
      BY <2>1, <3>1, SettleType
  <2>2. CASE i \notin S
    BY <2>2 DEF RowsTypeOK
  <2>3. QED
    BY <2>1, <2>2
<1>2. QED
  BY <1>1 DEF SettleAll

\* Each admin action leaves well-typed rows.
LEMMA AdminType ==
  ASSUME RowsTypeOK, Admin
  PROVE  RowsTypeOK'
<1>1. ASSUME NEW S \in SUBSET Slot, NEW shift \in Shift, MoveSlots(S, shift)
      PROVE  RowsTypeOK'
  <2>1. \A s \in S : [seat[s] EXCEPT !.shift = shift] \in Seat
    BY <1>1, RowTypes DEF MoveSlots, OneShift, Seat
  <2>2. seat' \in [Slot -> Seat \union {Gone}]
    BY <1>1, <2>1 DEF MoveSlots, RowsTypeOK
  <2>3. swap' \in [Id -> Request \union {NoRow}]
    BY <1>1, CancelSwapsType DEF MoveSlots
  <2>4. QED
    BY <2>2, <2>3 DEF RowsTypeOK
<1>2. ASSUME NEW s \in Slot, NEW x \in Player \union {Nobody}, NEW shift \in Shift,
             ReplacePlayer(s, x, shift)
      PROVE  RowsTypeOK'
  <2>0. [player |-> x, team |-> seat[s].team, shift |-> shift] \in Seat
    BY <1>2, RowTypes DEF ReplacePlayer, Seat
  <2>1. seat' \in [Slot -> Seat \union {Gone}]
    BY <1>2, <2>0 DEF ReplacePlayer, RowsTypeOK
  <2>2. swap' \in [Id -> Request \union {NoRow}]
    BY <1>2, CancelSwapsType DEF ReplacePlayer
  <2>3. QED
    BY <2>1, <2>2 DEF RowsTypeOK
<1>3. ASSUME NEW S \in SUBSET Slot, DeleteSlots(S)
      PROVE  RowsTypeOK'
  <2>1. seat' \in [Slot -> Seat \union {Gone}]
    BY <1>3 DEF DeleteSlots, RowsTypeOK
  <2>2. swap' \in [Id -> Request \union {NoRow}]
    BY <1>3, CancelSwapsType DEF DeleteSlots
  <2>3. QED
    BY <2>1, <2>2 DEF RowsTypeOK
<1>4. ASSUME NEW s \in Slot, NEW x \in Player, AssignSlot(s, x)
      PROVE  RowsTypeOK'
  <2>1. [seat[s] EXCEPT !.player = x] \in Seat
    BY <1>4, RowTypes DEF AssignSlot, Seat
  <2>2. seat' \in [Slot -> Seat \union {Gone}]
    BY <1>4, <2>1 DEF AssignSlot, RowsTypeOK
  <2>3. QED
    BY <1>4, <2>2 DEF AssignSlot, RowsTypeOK
<1>5. ASSUME NEW S \in SUBSET Slot, NEW team \in Team, NEW shifts \in [S -> Shift],
             CreateSlots(S, team, shifts)
      PROVE  RowsTypeOK'
  <2>1. \A s \in S : [player |-> Nobody, team |-> team, shift |-> shifts[s]] \in Seat
    BY DEF Seat
  <2>2. seat' \in [Slot -> Seat \union {Gone}]
    BY <1>5, <2>1 DEF CreateSlots, RowsTypeOK
  <2>3. QED
    BY <1>5, <2>2 DEF CreateSlots, RowsTypeOK
<1>6. QED
  BY <1>1, <1>2, <1>3, <1>4, <1>5 DEF Admin

-----------------------------------------------------------------------------
(* The inductive invariant.  TypeOK alone is not inductive: accept_swap    *)
(* reads the player of the proposer's seat without looking whether the     *)
(* seat is there, and only PendingAsOffered says it is.                    *)

\* A seat with a player on it: propose_swap takes no other.
FilledSeat == {row \in Seat : row.player \in Player}

\* A pending request keeps what it offered: two different, filled seats of
\* one team.
PairsInTeam ==
  \A i \in Pending :
    /\ swap[i].terms \in [give : FilledSeat, get : FilledSeat]
    /\ swap[i].give # swap[i].get
    /\ swap[i].terms.give.team = swap[i].terms.get.team

IInv ==
  /\ RowsTypeOK
  /\ PairsInTeam
  /\ PendingAsOffered
  /\ SeatsStayInTeam

\* Offers stay true when every request still pending was pending before, on
\* the same slots and terms, and its two seats have not changed.
LEMMA StillOffered ==
  ASSUME IInv,
         \A j \in Pending' :
           /\ j \in Pending
           /\ swap'[j].give = swap[j].give
           /\ swap'[j].get = swap[j].get
           /\ swap'[j].terms = swap[j].terms
           /\ seat'[swap[j].give] = seat[swap[j].give]
           /\ seat'[swap[j].get] = seat[swap[j].get]
  PROVE  PairsInTeam' /\ PendingAsOffered'
BY DEF IInv, PairsInTeam, PendingAsOffered

\* Where the two seats of a pending request are, and who sits there.
LEMMA PendingSeats ==
  ASSUME IInv, NEW i \in Pending
  PROVE  /\ i \in Id
         /\ swap[i] \in Request
         /\ swap[i].give \in Live
         /\ swap[i].get \in Live
         /\ swap[i].give # swap[i].get
         /\ seat[swap[i].give].team = seat[swap[i].get].team
<1>1. i \in Id /\ swap[i] \in Request
  BY RowTypes DEF IInv
<1>2. swap[i].give \in Slot /\ swap[i].get \in Slot
  BY <1>1 DEF Request
<1>3. swap[i].terms.give \in Seat /\ swap[i].terms.get \in Seat
  BY DEF IInv, PairsInTeam, FilledSeat
<1>4. seat[swap[i].give] # Gone /\ seat[swap[i].get] # Gone
  BY <1>3, ConstantsOK DEF IInv, PendingAsOffered
<1>5. seat[swap[i].give].team = seat[swap[i].get].team
  BY DEF IInv, PairsInTeam, PendingAsOffered
<1>6. QED
  BY <1>1, <1>2, <1>4, <1>5 DEF Live, IInv, PairsInTeam

\* After plan_swap_cancellations a request is only pending if it was, and
\* touches neither a changed nor a deleted seat.
LEMMA CancelSwapsPending ==
  ASSUME IInv, NEW changed, NEW deleted, CancelSwaps(changed, deleted), NEW j \in Pending'
  PROVE  /\ j \in Pending
         /\ swap'[j] = swap[j]
         /\ swap[j].give \notin changed \union deleted
         /\ swap[j].get \notin changed \union deleted
<1>1. j \in Id /\ swap'[j] # NoRow /\ swap'[j].status = "pending"
  BY DEF Pending, Used
<1>2. j \notin Touching(deleted)
  BY <1>1 DEF CancelSwaps
<1>3. ~(j \in Touching(changed) \intersect Pending)
  <2>1. SUFFICES ASSUME j \in Touching(changed) \intersect Pending PROVE FALSE
    OBVIOUS
  <2>2. swap'[j] = Settle(swap[j], "cancelled")
    BY <1>1, <1>2, <2>1 DEF CancelSwaps
  <2>3. swap[j] \in Request
    BY <2>1, PendingSeats
  <2>4. QED
    BY <1>1, <2>2, <2>3, SettleType DEF Status
<1>4. swap'[j] = swap[j]
  BY <1>1, <1>2, <1>3 DEF CancelSwaps
<1>5. j \in Pending
  BY <1>1, <1>4 DEF Pending, Used
<1>6. QED
  BY <1>2, <1>3, <1>4, <1>5 DEF Touching, Pending

\* Every admin action keeps the offers true.
LEMMA AdminOffers ==
  ASSUME IInv, Admin
  PROVE  PairsInTeam' /\ PendingAsOffered'
<1>1. ASSUME NEW S \in SUBSET Slot, NEW shift \in Shift, MoveSlots(S, shift)
      PROVE  PairsInTeam' /\ PendingAsOffered'
  <2>1. ASSUME NEW j \in Pending'
        PROVE  /\ j \in Pending
               /\ swap'[j] = swap[j]
               /\ seat'[swap[j].give] = seat[swap[j].give]
               /\ seat'[swap[j].get] = seat[swap[j].get]
    <3>1. j \in Pending /\ swap'[j] = swap[j] /\ swap[j].give \notin S /\ swap[j].get \notin S
      BY <1>1, CancelSwapsPending DEF MoveSlots
    <3>2. swap[j].give \in Slot /\ swap[j].get \in Slot
      BY <3>1, PendingSeats DEF Live
    <3>3. QED
      BY <1>1, <3>1, <3>2 DEF MoveSlots
  <2>2. QED
    BY <2>1, StillOffered
<1>2. ASSUME NEW s \in Slot, NEW x \in Player \union {Nobody}, NEW shift \in Shift,
             ReplacePlayer(s, x, shift)
      PROVE  PairsInTeam' /\ PendingAsOffered'
  <2>1. ASSUME NEW j \in Pending'
        PROVE  /\ j \in Pending
               /\ swap'[j] = swap[j]
               /\ seat'[swap[j].give] = seat[swap[j].give]
               /\ seat'[swap[j].get] = seat[swap[j].get]
    <3>1. j \in Pending /\ swap'[j] = swap[j] /\ swap[j].give # s /\ swap[j].get # s
      BY <1>2, CancelSwapsPending DEF ReplacePlayer
    <3>2. swap[j].give \in Slot /\ swap[j].get \in Slot
      BY <3>1, PendingSeats DEF Live
    <3>3. QED
      BY <1>2, <3>1, <3>2 DEF ReplacePlayer, IInv, RowsTypeOK
  <2>2. QED
    BY <2>1, StillOffered
<1>3. ASSUME NEW S \in SUBSET Slot, DeleteSlots(S)
      PROVE  PairsInTeam' /\ PendingAsOffered'
  <2>1. ASSUME NEW j \in Pending'
        PROVE  /\ j \in Pending
               /\ swap'[j] = swap[j]
               /\ seat'[swap[j].give] = seat[swap[j].give]
               /\ seat'[swap[j].get] = seat[swap[j].get]
    <3>1. j \in Pending /\ swap'[j] = swap[j] /\ swap[j].give \notin S /\ swap[j].get \notin S
      BY <1>3, CancelSwapsPending DEF DeleteSlots
    <3>2. swap[j].give \in Slot /\ swap[j].get \in Slot
      BY <3>1, PendingSeats DEF Live
    <3>3. QED
      BY <1>3, <3>1, <3>2 DEF DeleteSlots
  <2>2. QED
    BY <2>1, StillOffered
<1>4. ASSUME NEW s \in Slot, NEW x \in Player, AssignSlot(s, x)
      PROVE  PairsInTeam' /\ PendingAsOffered'
  <2>1. ASSUME NEW j \in Pending'
        PROVE  /\ j \in Pending
               /\ swap'[j] = swap[j]
               /\ seat'[swap[j].give] = seat[swap[j].give]
               /\ seat'[swap[j].get] = seat[swap[j].get]
    <3>1. j \in Pending /\ swap'[j] = swap[j]
      BY <1>4 DEF AssignSlot, Pending, Used
    \* The empty seat is no offered seat: AssignSlot needs no cancellations.
    <3>2. swap[j].give # s /\ swap[j].get # s
      BY <1>4, <3>1, ConstantsOK DEF AssignSlot, IInv, PairsInTeam, PendingAsOffered, FilledSeat
    <3>3. swap[j].give \in Slot /\ swap[j].get \in Slot
      BY <3>1, PendingSeats DEF Live
    <3>4. QED
      BY <1>4, <3>1, <3>2, <3>3 DEF AssignSlot, IInv, RowsTypeOK
  <2>2. QED
    BY <2>1, StillOffered
<1>5. ASSUME NEW S \in SUBSET Slot, NEW team \in Team, NEW shifts \in [S -> Shift],
             CreateSlots(S, team, shifts)
      PROVE  PairsInTeam' /\ PendingAsOffered'
  <2>1. ASSUME NEW j \in Pending'
        PROVE  /\ j \in Pending
               /\ swap'[j] = swap[j]
               /\ seat'[swap[j].give] = seat[swap[j].give]
               /\ seat'[swap[j].get] = seat[swap[j].get]
    <3>1. j \in Pending /\ swap'[j] = swap[j]
      BY <1>5 DEF CreateSlots, Pending, Used
    \* Both offered seats are there, and a new slot takes no id that is.
    <3>2. swap[j].give \in Live /\ swap[j].get \in Live
      BY <3>1, PendingSeats
    <3>3. QED
      BY <1>5, <3>1, <3>2 DEF CreateSlots, AreNextSlots, Live
  <2>2. QED
    BY <2>1, StillOffered
<1>6. QED
  BY <1>1, <1>2, <1>3, <1>4, <1>5 DEF Admin

\* No admin action puts a player on another team's seat.
LEMMA AdminTeams ==
  ASSUME RowsTypeOK, SeatsStayInTeam, Admin
  PROVE  SeatsStayInTeam'
<1>1. ASSUME NEW S \in SUBSET Slot, NEW shift \in Shift, MoveSlots(S, shift)
      PROVE  SeatsStayInTeam'
  <2>1. \A s \in Live' : /\ s \in Live
                         /\ seat'[s].player = seat[s].player
                         /\ seat'[s].team = seat[s].team
    BY <1>1, RowTypes DEF MoveSlots, OneShift, Live, Seat
  <2>2. QED
    BY <2>1 DEF SeatsStayInTeam, InTeam
<1>2. ASSUME NEW s \in Slot, NEW x \in Player \union {Nobody}, NEW shift \in Shift,
             ReplacePlayer(s, x, shift)
      PROVE  SeatsStayInTeam'
  BY <1>2 DEF ReplacePlayer, SeatsStayInTeam, InTeam, Live, RowsTypeOK
<1>3. ASSUME NEW S \in SUBSET Slot, DeleteSlots(S)
      PROVE  SeatsStayInTeam'
  BY <1>3 DEF DeleteSlots, SeatsStayInTeam, InTeam, Live
<1>4. ASSUME NEW s \in Slot, NEW x \in Player, AssignSlot(s, x)
      PROVE  SeatsStayInTeam'
  <2>1. seat'[s].player = x /\ seat'[s].team = seat[s].team
    BY <1>4, RowTypes DEF AssignSlot, RowsTypeOK, Seat
  <2>2. \A t \in Live' : t # s => t \in Live /\ seat'[t] = seat[t]
    BY <1>4 DEF AssignSlot, Live, RowsTypeOK
  <2>3. QED
    BY <1>4, <2>1, <2>2 DEF AssignSlot, SeatsStayInTeam, InTeam
<1>5. ASSUME NEW S \in SUBSET Slot, NEW team \in Team, NEW shifts \in [S -> Shift],
             CreateSlots(S, team, shifts)
      PROVE  SeatsStayInTeam'
  <2>1. \A s \in Live' : \/ seat'[s].player = Nobody
                         \/ s \in Live /\ seat'[s] = seat[s]
    BY <1>5 DEF CreateSlots, Live
  <2>2. QED
    BY <2>1, ConstantsOK DEF SeatsStayInTeam, InTeam
<1>6. QED
  BY <1>1, <1>2, <1>3, <1>4, <1>5 DEF Admin

-----------------------------------------------------------------------------
(* The parents' actions preserve the invariant.                            *)

\* A new offer names two filled seats of one team, as they are.
LEMMA ProposeInv ==
  ASSUME IInv, NEW p \in Person, NEW s \in Slot, NEW t \in Slot, Propose(p, s, t)
  PROVE  IInv'
<1>1. PICK i \in Id : swap' = [swap EXCEPT ![i] = NewRequest(s, t, seat[s], seat[t])]
  BY DEF Propose
<1>2. seat[s] \in FilledSeat /\ seat[t] \in FilledSeat
  BY ConstantsOK DEF Propose, Owns, Live, IInv, RowsTypeOK, FilledSeat, Seat
<1>3. seat' = seat
  BY DEF Propose
<1>4. RowsTypeOK'
  BY <1>1, <1>2, <1>3, NewRequestType DEF IInv, RowsTypeOK, FilledSeat
<1>5. swap'[i] = NewRequest(s, t, seat[s], seat[t])
  BY <1>1 DEF IInv, RowsTypeOK
<1>6. \A j \in Pending' : j # i => j \in Pending /\ swap'[j] = swap[j]
  BY <1>1 DEF Pending, Used, IInv, RowsTypeOK
<1>7. PairsInTeam'
  <2>1. ASSUME NEW j \in Pending'
        PROVE  /\ swap'[j].terms \in [give : FilledSeat, get : FilledSeat]
               /\ swap'[j].give # swap'[j].get
               /\ swap'[j].terms.give.team = swap'[j].terms.get.team
    <3>1. CASE j = i
      BY <1>2, <1>5, <3>1 DEF NewRequest, Propose
    <3>2. CASE j # i
      BY <1>6, <3>2 DEF IInv, PairsInTeam
    <3>3. QED
      BY <3>1, <3>2
  <2>2. QED
    BY <2>1 DEF PairsInTeam, FilledSeat
<1>8. PendingAsOffered'
  <2>1. ASSUME NEW j \in Pending'
        PROVE  /\ seat'[swap'[j].give] = swap'[j].terms.give
               /\ seat'[swap'[j].get] = swap'[j].terms.get
    <3>1. CASE j = i
      BY <1>3, <1>5, <3>1 DEF NewRequest
    <3>2. CASE j # i
      BY <1>3, <1>6, <3>2 DEF IInv, PendingAsOffered
    <3>3. QED
      BY <3>1, <3>2
  <2>2. QED
    BY <2>1 DEF PendingAsOffered
<1>9. SeatsStayInTeam'
  BY <1>3 DEF SeatsStayInTeam, IInv, Live, InTeam
<1>10. QED
  BY <1>4, <1>7, <1>8, <1>9 DEF IInv

\* The writes of accept_swap, whoever accepts and however old the request is.
Takes(i) ==
  /\ i \in Pending
  /\ seat' = Exchange(swap[i].give, swap[i].get)
  /\ swap' = [j \in Id |-> IF j = i THEN Settle(swap[j], "accepted")
                           ELSE IF j \in Superseded(i) THEN Settle(swap[j], "declined")
                           ELSE swap[j]]

\* What accept_swap does to the seats, and to the requests that stay pending.
LEMMA AcceptEffect ==
  ASSUME IInv, NEW i \in Id, Takes(i)
  PROVE  /\ seat' = [seat EXCEPT ![swap[i].give].player = seat[swap[i].get].player,
                                 ![swap[i].get].player = seat[swap[i].give].player]
         /\ \A j \in Pending' : /\ j \in Pending
                                /\ swap'[j] = swap[j]
                                /\ swap[j].give \notin {swap[i].give, swap[i].get}
                                /\ swap[j].get \notin {swap[i].give, swap[i].get}
         /\ swap'[i].status = "accepted"
<1>1. seat' = [seat EXCEPT ![swap[i].give].player = seat[swap[i].get].player,
                          ![swap[i].get].player = seat[swap[i].give].player]
  BY DEF Takes, Exchange
<1>2. i \in Pending /\ i \in Used /\ swap[i] \in Request
  BY PendingSeats DEF Takes, Pending
<1>3. swap'[i].status = "accepted"
  BY <1>2, SettleType DEF Takes, Status
<1>4. ASSUME NEW j \in Pending'
      PROVE  /\ j \in Pending
             /\ swap'[j] = swap[j]
             /\ swap[j].give \notin {swap[i].give, swap[i].get}
             /\ swap[j].get \notin {swap[i].give, swap[i].get}
  <2>1. j \in Id /\ swap'[j] # NoRow /\ swap'[j].status = "pending"
    BY DEF Pending, Used
  <2>2. j # i
    BY <1>3, <2>1
  <2>3. j \notin Superseded(i)
    <3>1. SUFFICES ASSUME j \in Superseded(i) PROVE FALSE
      OBVIOUS
    <3>2. swap'[j] = Settle(swap[j], "declined")
      BY <2>1, <2>2, <3>1 DEF Takes
    <3>3. swap[j] \in Request
      BY <3>1, PendingSeats DEF Superseded
    <3>4. QED
      BY <2>1, <3>2, <3>3, SettleType DEF Status
  <2>4. swap'[j] = swap[j]
    BY <2>1, <2>2, <2>3 DEF Takes
  <2>5. j \in Pending
    BY <2>1, <2>4 DEF Pending, Used
  <2>6. j \notin Touching({swap[i].give, swap[i].get})
    BY <2>2, <2>3, <2>5 DEF Superseded
  <2>7. QED
    BY <2>4, <2>5, <2>6 DEF Touching, Pending
<1>5. QED
  BY <1>1, <1>3, <1>4

\* Accepting exchanges the players of two seats of one team and leaves no
\* request pending on either.
LEMMA AcceptInv ==
  ASSUME IInv, NEW i \in Id, Takes(i)
  PROVE  IInv'
<1> DEFINE give == swap[i].give
           get == swap[i].get
<1>1. /\ give \in Live /\ get \in Live /\ give # get
      /\ seat[give].team = seat[get].team
      /\ i \in Pending
  BY PendingSeats DEF Takes
<1>2. seat' = [seat EXCEPT ![give].player = seat[get].player, ![get].player = seat[give].player]
  BY AcceptEffect
<1>3. \A j \in Pending' : /\ j \in Pending
                         /\ swap'[j] = swap[j]
                         /\ swap[j].give \notin {give, get}
                         /\ swap[j].get \notin {give, get}
  BY AcceptEffect
<1> HIDE DEF give, get
<1>4. seat[give] \in Seat /\ seat[get] \in Seat
  BY <1>1, RowTypes DEF IInv
<1>5. /\ seat'[give] \in Seat /\ seat'[get] \in Seat
      /\ seat'[give].player = seat[get].player /\ seat'[give].team = seat[give].team
      /\ seat'[get].player = seat[give].player /\ seat'[get].team = seat[get].team
      /\ \A s \in Slot : s \notin {give, get} => seat'[s] = seat[s]
      /\ seat' \in [Slot -> Seat \union {Gone}]
  BY <1>1, <1>2, <1>4 DEF IInv, RowsTypeOK, Seat, Live
<1>6. RowsTypeOK'
  <2>1. i \in Used /\ Superseded(i) \subseteq Used
    BY <1>1 DEF Pending, Superseded, Touching
  <2>2. \A j \in Used : /\ Settle(swap[j], "accepted") \in Request
                        /\ Settle(swap[j], "declined") \in Request
    BY RowTypes, SettleType DEF Status, IInv
  <2>3. \A j \in Id : swap'[j] \in Request \union {NoRow}
    BY <2>1, <2>2 DEF Takes, IInv, RowsTypeOK
  <2>4. swap' \in [Id -> Request \union {NoRow}]
    BY <2>3 DEF Takes
  <2>5. QED
    BY <1>5, <2>4 DEF RowsTypeOK
<1>7. PairsInTeam' /\ PendingAsOffered'
  <2>1. ASSUME NEW j \in Pending'
        PROVE  /\ j \in Pending
               /\ swap'[j] = swap[j]
               /\ seat'[swap[j].give] = seat[swap[j].give]
               /\ seat'[swap[j].get] = seat[swap[j].get]
    BY <1>3, <1>5, PendingSeats DEF Live
  <2>2. QED
    BY <2>1, StillOffered
<1>8. SeatsStayInTeam'
  <2>1. ASSUME NEW s \in Live' PROVE InTeam(seat'[s].team, seat'[s].player)
    <3>1. CASE s = give
      BY <1>1, <1>5, <3>1 DEF IInv, SeatsStayInTeam, InTeam
    <3>2. CASE s = get
      BY <1>1, <1>5, <3>2 DEF IInv, SeatsStayInTeam, InTeam
    <3>3. CASE s \notin {give, get}
      BY <1>5, <3>3 DEF IInv, SeatsStayInTeam, Live
    <3>4. QED
      BY <3>1, <3>2, <3>3
  <2>2. QED
    BY <2>1 DEF SeatsStayInTeam, InTeam
<1>9. QED
  BY <1>6, <1>7, <1>8 DEF IInv

\* Settling requests (declining, expiring) moves nobody and leaves no request
\* pending that was not.
LEMMA SettleInv ==
  ASSUME IInv, NEW S \in SUBSET Pending, NEW status \in Status \ {"pending"},
         swap' = SettleAll(S, status), UNCHANGED seat
  PROVE  IInv'
<1>1. S \subseteq Used
  BY DEF Pending
<1>2. RowsTypeOK'
  BY <1>1, SettleAllType DEF IInv, RowsTypeOK
<1>3. ASSUME NEW j \in Pending'
      PROVE  j \in Pending /\ swap'[j] = swap[j]
  <2>1. j \in Id /\ swap'[j] # NoRow /\ swap'[j].status = "pending"
    BY DEF Pending, Used
  <2>2. j \notin S
    <3>1. SUFFICES ASSUME j \in S PROVE FALSE
      OBVIOUS
    <3>2. swap'[j] = Settle(swap[j], status) /\ swap[j] \in Request
      BY <2>1, <3>1, PendingSeats DEF SettleAll
    <3>3. QED
      BY <2>1, <3>2, SettleType
  <2>3. QED
    BY <2>1, <2>2 DEF SettleAll, Pending, Used
<1>4. PairsInTeam' /\ PendingAsOffered'
  BY <1>3, StillOffered
<1>5. QED
  BY <1>2, <1>4 DEF IInv, SeatsStayInTeam, Live, InTeam

\* A request that gets old keeps its slots and its terms.
LEMMA AgeInv ==
  ASSUME IInv, NEW i \in Id, Age(i)
  PROVE  IInv'
<1>1. swap[i] \in Request
  BY PendingSeats DEF Age
<1>2. [swap[i] EXCEPT !.stale = TRUE] \in Request
  BY <1>1 DEF Request
<1>3. RowsTypeOK'
  BY <1>2 DEF Age, IInv, RowsTypeOK
<1>4. swap'[i] = [swap[i] EXCEPT !.stale = TRUE]
  BY DEF Age, IInv, RowsTypeOK
<1>5. \A j \in Id : j # i => swap'[j] = swap[j]
  BY DEF Age, IInv, RowsTypeOK
<1>6. ASSUME NEW j \in Pending'
      PROVE  /\ j \in Pending
             /\ swap'[j].give = swap[j].give
             /\ swap'[j].get = swap[j].get
             /\ swap'[j].terms = swap[j].terms
  <2>1. CASE j = i
    BY <1>1, <1>4, <2>1 DEF Age, Request
  <2>2. CASE j # i
    BY <1>5, <2>2 DEF Pending, Used
  <2>3. QED
    BY <2>1, <2>2
<1>7. PairsInTeam' /\ PendingAsOffered'
  BY <1>6, StillOffered DEF Age
<1>8. QED
  BY <1>3, <1>7 DEF Age, IInv, SeatsStayInTeam, Live, InTeam

-----------------------------------------------------------------------------
(* The theorems.                                                           *)

\* IInv holds in every state.
LEMMA Invariance == Spec => []IInv
<1>1. RowsInit => IInv
  <2>1. SUFFICES ASSUME RowsInit PROVE IInv
    OBVIOUS
  <2>2. seat \in [Slot -> Seat \union {Gone}]
    BY <2>1, ConstantsOK DEF RowsInit
  <2>3. Pending = {}
    BY <2>1 DEF RowsInit, Pending, Used
  <2>4. SeatsStayInTeam
    BY <2>1, <2>2, ConstantsOK DEF RowsInit, SeatsStayInTeam, Live
  <2>5. QED
    BY <2>1, <2>2, <2>3, <2>4
       DEF RowsInit, RowsTypeOK, IInv, PairsInTeam, PendingAsOffered
<1>2. IInv /\ [Next]_vars => IInv'
  <2>1. SUFFICES ASSUME IInv, [Next]_vars PROVE IInv'
    OBVIOUS
  <2>2. CASE \E p \in Person, s, t \in Slot : Propose(p, s, t)
    BY <2>1, <2>2, ProposeInv
  <2>3. CASE \E p \in Person, i \in Id : Accept(p, i)
    BY <2>1, <2>3, AcceptInv DEF Accept, Takes
  <2>4. CASE \E p \in Person, i \in Id : Decline(p, i)
    BY <2>1, <2>4, SettleInv DEF Decline, Status
  <2>5. CASE \E i \in Id : ExpireOnAnswer(i)
    BY <2>1, <2>5, SettleInv DEF ExpireOnAnswer, Status
  <2>6. CASE Admin
    BY <2>1, <2>6, AdminType, AdminOffers, AdminTeams DEF IInv
  <2>7. CASE \E i \in Id : Age(i)
    BY <2>1, <2>7, AgeInv
  <2>8. CASE UNCHANGED vars
    BY <2>1, <2>8 DEF vars, rows, IInv, RowsTypeOK, PairsInTeam, PendingAsOffered,
                      SeatsStayInTeam, Pending, Used, Live, InTeam
  <2>9. CASE ExpireStaleSwaps
    <3>1. {i \in Pending : swap[i].stale} \in SUBSET Pending
      OBVIOUS
    <3>2. QED
      BY <2>1, <2>9, <3>1, SettleInv DEF ExpireStaleSwaps, Status
  <2>10. QED
    BY <2>1, <2>2, <2>3, <2>4, <2>5, <2>6, <2>7, <2>8, <2>9 DEF Next, Parents
<1>3. QED
  BY <1>1, <1>2, PTL DEF Spec

\* Every state of SwapBook is well typed.
THEOREM TypeCorrect == Spec => []TypeOK
<1>1. IInv => TypeOK
  BY DEF IInv, TypeOK
<1>2. QED
  BY <1>1, Invariance, PTL

\* A pending request always describes the trade that was offered.
THEOREM OffersStayTrue == Spec => []PendingAsOffered
<1>1. IInv => PendingAsOffered
  BY DEF IInv
<1>2. QED
  BY <1>1, Invariance, PTL

\* No trade and no admin change gives a player another team's duty.
THEOREM DutiesStayInTeam == Spec => []SeatsStayInTeam
<1>1. IInv => SeatsStayInTeam
  BY DEF IInv
<1>2. QED
  BY <1>1, Invariance, PTL

\* A parent's step moves a player only by accepting a pending request, and
\* then as the offer said.
THEOREM TradesAreAgreed == Spec => OnlyAgreedTrades
<1> DEFINE Agreed ==
      Parents =>
        \A s \in Live : seat'[s] # seat[s] =>
          \E i \in Pending :
            /\ swap'[i].status = "accepted"
            /\ \/ s = swap[i].give /\ seat'[s].player = swap[i].terms.get.player
               \/ s = swap[i].get /\ seat'[s].player = swap[i].terms.give.player
<1>1. IInv /\ [Next]_vars => [Agreed]_vars
  <2>1. SUFFICES ASSUME IInv, Parents, NEW s \in Live, seat'[s] # seat[s]
                 PROVE  \E i \in Pending :
                          /\ swap'[i].status = "accepted"
                          /\ \/ s = swap[i].give /\ seat'[s].player = swap[i].terms.get.player
                             \/ s = swap[i].get /\ seat'[s].player = swap[i].terms.give.player
    OBVIOUS
  <2>2. PICK p \in Person, i \in Id : Accept(p, i)
    BY <2>1 DEF Parents, Propose, Decline, ExpireOnAnswer
  <2>3. i \in Pending /\ swap'[i].status = "accepted"
    BY <2>1, <2>2, AcceptEffect DEF Accept, Takes
  <2> DEFINE give == swap[i].give
             get == swap[i].get
  <2>4. seat' = [seat EXCEPT ![give].player = seat[get].player,
                            ![get].player = seat[give].player]
    BY <2>1, <2>2, AcceptEffect DEF Accept, Takes
  <2>5. give \in Live /\ get \in Live /\ give # get
    BY <2>1, <2>3, PendingSeats
  <2>6. seat[give] = swap[i].terms.give /\ seat[get] = swap[i].terms.get
    BY <2>1, <2>3 DEF IInv, PendingAsOffered
  <2> HIDE DEF give, get
  <2>7. \/ s = give /\ seat'[s].player = seat[get].player
        \/ s = get /\ seat'[s].player = seat[give].player
    BY <2>1, <2>4, <2>5, RowTypes DEF IInv, RowsTypeOK, Seat, Live
  <2>8. QED
    BY <2>3, <2>6, <2>7 DEF give, get
<1>2. QED
  BY <1>1, Invariance, PTL DEF Spec, OnlyAgreedTrades

\* An answer is final, whatever happens to the seats afterwards.
THEOREM AnswersAreFinal == Spec => SettledIsFinal
<1> DEFINE Final == \A i \in Used : (swap[i].status # "pending" /\ swap'[i] # NoRow)
                                      => swap'[i].status = swap[i].status
<1>1. IInv /\ [Next]_vars => [Final]_vars
  <2>1. SUFFICES ASSUME IInv, Next, NEW i \in Used,
                        swap[i].status # "pending", swap'[i] # NoRow
                 PROVE  swap'[i].status = swap[i].status
    OBVIOUS
  <2>2. i \in Id /\ i \notin Pending /\ swap[i] \in Request
    BY <2>1, RowTypes DEF IInv, Pending
  <2>3. CASE \E p \in Person, s, t \in Slot : Propose(p, s, t)
    BY <2>1, <2>2, <2>3 DEF Propose, IsNextId, IInv, RowsTypeOK, Id
  <2>4. CASE \E p \in Person, j \in Id : Accept(p, j)
    BY <2>2, <2>4 DEF Accept, Superseded
  <2>5. CASE \E p \in Person, j \in Id : Decline(p, j)
    BY <2>2, <2>5 DEF Decline, SettleAll
  <2>6. CASE \E j \in Id : ExpireOnAnswer(j)
    BY <2>2, <2>6 DEF ExpireOnAnswer, SettleAll
  <2>7. CASE Admin
    <3>1. ASSUME NEW changed, NEW deleted, CancelSwaps(changed, deleted)
          PROVE  swap'[i].status = swap[i].status
      BY <2>1, <2>2, <3>1 DEF CancelSwaps
    <3>2. QED
      BY <2>7, <3>1 DEF Admin, MoveSlots, ReplacePlayer, DeleteSlots, AssignSlot, CreateSlots
  <2>8. CASE \E j \in Id : Age(j)
    BY <2>1, <2>2, <2>8 DEF Age, IInv, RowsTypeOK
  <2>9. CASE ExpireStaleSwaps
    BY <2>2, <2>9 DEF ExpireStaleSwaps, SettleAll
  <2>10. QED
    BY <2>1, <2>3, <2>4, <2>5, <2>6, <2>7, <2>8, <2>9 DEF Next, Parents
<1>2. QED
  BY <1>1, Invariance, PTL DEF Spec, SettledIsFinal

=============================================================================
