------------------------------ MODULE SwapBook ------------------------------
(***************************************************************************)
(* The swap state machine of swaps.py, propose -> accept | decline |       *)
(* expire, with every request handler run from beginning to end before     *)
(* the next one starts.  This is the behaviour the code is written for and *)
(* its tests exercise; SwapHandlers says when the threaded server keeps    *)
(* to it.                                                                  *)
(***************************************************************************)
EXTENDS SwapRows

vars == rows

-----------------------------------------------------------------------------
\* Mutant of Propose: the teams are not compared.
ProposeAcrossTeams(p, s, t) ==
  /\ Owns(p, seat[s])
  /\ t # s
  /\ t \in Live
  /\ seat[t].player # Nobody
  /\ ~Owns(p, seat[t])
  /\ \E i \in Id :
       /\ IsNextId(i)
       /\ swap' = [swap EXCEPT ![i] = NewRequest(s, t, seat[s], seat[t])]
  /\ UNCHANGED seat

\* propose_swap: the parent offers the seat s for somebody else's seat t.
Propose(p, s, t) ==
  /\ Owns(p, seat[s])
  /\ t # s
  /\ t \in Live
  /\ seat[t].player # Nobody
  /\ seat[t].team = seat[s].team
  /\ ~Owns(p, seat[t])
  /\ \E i \in Id :
       /\ IsNextId(i)
       /\ swap' = [swap EXCEPT ![i] = NewRequest(s, t, seat[s], seat[t])]
  /\ UNCHANGED seat

\* Mutants of Superseded: the requests that offer the target slot are
\* forgotten; answered requests are declined too.
SupersededOffers(i) == ({j \in Pending : swap[j].give = swap[i].give}) \ {i}
SupersededAnswered(i) == Touching({swap[i].give, swap[i].get}) \ {i}

\* The still-pending requests that touch a slot of request i.
Superseded(i) == (Touching({swap[i].give, swap[i].get}) \intersect Pending) \ {i}

Exchange(s, t) ==
  [seat EXCEPT ![s].player = seat[t].player, ![t].player = seat[s].player]

\* accept_swap, once _pending_request has let it through.
Accept(p, i) ==
  /\ i \in Pending
  /\ ~swap[i].stale
  /\ Owns(p, seat[swap[i].get])
  /\ seat' = Exchange(swap[i].give, swap[i].get)
  /\ swap' = [j \in Id |-> IF j = i THEN Settle(swap[j], "accepted")
                           ELSE IF j \in Superseded(i) THEN Settle(swap[j], "declined")
                           ELSE swap[j]]

\* decline_swap.
Decline(p, i) ==
  /\ i \in Pending
  /\ ~swap[i].stale
  /\ Owns(p, seat[swap[i].get])
  /\ swap' = SettleAll({i}, "declined")
  /\ UNCHANGED seat

\* _pending_request on a request older than seven days: whoever answers it,
\* it is marked expired before it is asked whose it is.
ExpireOnAnswer(i) ==
  /\ i \in Pending
  /\ swap[i].stale
  /\ swap' = SettleAll({i}, "expired")
  /\ UNCHANGED seat

\* expire_stale_swaps: every pending request older than seven days, for
\* whoever calls it (nothing in the deployed system does yet).
ExpireStaleSwaps ==
  /\ \E i \in Pending : swap[i].stale
  /\ swap' = SettleAll({i \in Pending : swap[i].stale}, "expired")
  /\ UNCHANGED seat

Parents ==
  \/ \E p \in Person, s, t \in Slot : Propose(p, s, t)
  \/ \E p \in Person, i \in Id : Accept(p, i)
  \/ \E p \in Person, i \in Id : Decline(p, i)
  \/ \E i \in Id : ExpireOnAnswer(i)

Next ==
  \/ Parents
  \/ Admin
  \/ ExpireStaleSwaps
  \/ \E i \in Id : Age(i)

Spec == RowsInit /\ [][Next]_vars

-----------------------------------------------------------------------------
(* Properties.                                                             *)

\* Types: a seat or a tombstone for every slot id, a request or nothing for
\* every swap id.
TypeOK == RowsTypeOK

\* A pending request still describes the trade that was offered: both seats
\* exist, have the player and the shift they had when propose_swap read
\* them.  Accepting, reassigning, moving and deleting all have to find every
\* pending request they make untrue (swaps.py:90, slot_ops.py:175).
PendingAsOffered ==
  \A i \in Pending :
    /\ seat[swap[i].give] = swap[i].terms.give
    /\ seat[swap[i].get] = swap[i].terms.get

\* A parent's step moves a player only as two families agreed: some request
\* becomes accepted in that step, and the seat gets the player the offer
\* named for it.
OnlyAgreedTrades ==
  [][Parents =>
       \A s \in Live : seat'[s] # seat[s] =>
         \E i \in Pending :
           /\ swap'[i].status = "accepted"
           /\ \/ s = swap[i].give /\ seat'[s].player = swap[i].terms.get.player
              \/ s = swap[i].get /\ seat'[s].player = swap[i].terms.give.player]_vars

\* An answer is final: a request that is no longer pending never changes
\* status again (an admin may delete its row with the slot).
SettledIsFinal ==
  [][\A i \in Used : (swap[i].status # "pending" /\ swap'[i] # NoRow)
                       => swap'[i].status = swap[i].status]_vars

=============================================================================
