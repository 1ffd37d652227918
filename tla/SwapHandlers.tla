---------------------------- MODULE SwapHandlers ----------------------------
(***************************************************************************)
(* The swap request handlers as the threaded server runs them.             *)
(*                                                                         *)
(* Each request has its own SQLAlchemy session.  Its SELECTs run outside a *)
(* transaction, so each sees whatever is committed at that moment, and the *)
(* row it returns stays in the session's identity map: later reads of the  *)
(* same row return the copy.  The first UPDATE or INSERT takes SQLite's    *)
(* write lock, so what a handler writes is one atomic step, computed from  *)
(* the copies.  A step of this module is one SELECT, with the checks made  *)
(* on its result, or one such write.                                       *)
(*                                                                         *)
(* Admin actions hold the write lock from their first read, so they stay   *)
(* one step.                                                               *)
(***************************************************************************)
EXTENDS SwapRows

CONSTANTS
  Thread,  \* request threads of the server
  None     \* no value yet

VARIABLES
  job,     \* what each thread is doing
  reused   \* history: a handler held a slot id that slots.create gave to a new slot

handlerVars == <<seat, swap, job, reused>>

\* pc: the handler's next step; who: current_user; id, give, get: the
\* request and its slots; giveRow, getRow: the session's copies of the slots;
\* told: the player whose parents will get the answer mail; terms: the
\* request's history field, for the properties.
Idle == [pc |-> "idle", who |-> None, id |-> None, give |-> None, get |-> None,
         giveRow |-> None, getRow |-> None, told |-> None, terms |-> None]

Begin(t, j) == /\ job[t] = Idle
               /\ job' = [job EXCEPT ![t] = j]

At(t, pc) == job[t].pc = pc

Goto(t, pc) == job' = [job EXCEPT ![t].pc = pc]

\* The response is sent, with or without an error.
Return(t) == job' = [job EXCEPT ![t] = Idle]

-----------------------------------------------------------------------------
(* create(): one propose_swap, with its own commit, per ticked target.     *)

\* propose_swap's first read.  Later rounds find the slot in the session.
ProposeReadOwn(t, p, s) ==
  /\ Owns(p, seat[s])
  /\ Begin(t, [Idle EXCEPT !.pc = "target", !.who = p, !.give = s, !.giveRow = seat[s]])
  /\ UNCHANGED rows

\* Mutant of ProposeReadTarget: the teams are not compared.
ProposeReadAnyTarget(t, g) ==
  /\ At(t, "target")
  /\ g # job[t].give
  /\ g \in Live
  /\ seat[g].player # Nobody
  /\ ~Owns(job[t].who, seat[g])
  /\ job' = [job EXCEPT ![t].pc = "insert", ![t].get = g, ![t].getRow = seat[g]]
  /\ UNCHANGED rows

\* propose_swap's second read, and its checks.  A target that fails them is
\* skipped.
ProposeReadTarget(t, g) ==
  /\ At(t, "target")
  /\ g # job[t].give
  /\ g \in Live
  /\ seat[g].player # Nobody
  /\ seat[g].team = job[t].giveRow.team
  /\ ~Owns(job[t].who, seat[g])
  /\ job' = [job EXCEPT ![t].pc = "insert", ![t].get = g, ![t].getRow = seat[g]]
  /\ UNCHANGED rows

\* Mutant of ForeignKeysHold: the pragma is not set.
ForeignKeysIgnored(s, g) == TRUE

\* PRAGMA foreign_keys=ON: both slots must still be there.
ForeignKeysHold(s, g) == {s, g} \subseteq Live

ProposeInsert(t) ==
  /\ At(t, "insert")
  /\ ForeignKeysHold(job[t].give, job[t].get)
  /\ \E i \in Id :
       /\ IsNextId(i)
       /\ swap' = [swap EXCEPT ![i] =
                     NewRequest(job[t].give, job[t].get, job[t].giveRow, job[t].getRow)]
  /\ job' = [job EXCEPT ![t].pc = "target", ![t].get = None, ![t].getRow = None]
  /\ UNCHANGED seat

ProposeRefused(t) ==
  /\ At(t, "insert")
  /\ ~ForeignKeysHold(job[t].give, job[t].get)
  /\ Return(t)
  /\ UNCHANGED rows

\* The last target is done, or the mail about one could not be sent.
ProposeDone(t) ==
  /\ At(t, "target")
  /\ Return(t)
  /\ UNCHANGED rows

-----------------------------------------------------------------------------
(* accept() and accept_swap.                                               *)

\* Mutant of ReadRequest: the age is not looked at.
ReadRequestOfAnyAge(t, p, i, next) ==
  /\ i \in Pending
  /\ Begin(t, [Idle EXCEPT !.pc = next, !.who = p, !.id = i, !.give = swap[i].give,
                           !.get = swap[i].get, !.terms = swap[i].terms])
  /\ UNCHANGED rows

\* The request row is read once; _pending_request judges this copy.  A
\* request that is missing or answered ends in a 400 and changes nothing.
ReadRequest(t, p, i, next) ==
  /\ i \in Pending
  /\ Begin(t, [Idle EXCEPT !.pc = IF swap[i].stale THEN "expire" ELSE next,
                           !.who = p, !.id = i, !.give = swap[i].give,
                           !.get = swap[i].get, !.terms = swap[i].terms])
  /\ UNCHANGED rows

AcceptReadRequest(t, p, i) == ReadRequest(t, p, i, "accept_give")

\* The proposer's slot, and the addresses the answer will be mailed to, are
\* read before the request is judged.
AcceptReadProposerSlot(t) ==
  /\ At(t, "accept_give")
  /\ LET row == seat[job[t].give] IN
       IF row = Gone THEN Return(t)
       ELSE job' = [job EXCEPT ![t].pc = "accept_get", ![t].giveRow = row,
                               ![t].told = row.player]
  /\ UNCHANGED rows

\* Mutant of AcceptReadTargetSlot: the owner is not checked.
AcceptReadAnySlot(t) ==
  /\ At(t, "accept_get")
  /\ job' = [job EXCEPT ![t].pc = "accept_write", ![t].getRow = seat[job[t].get]]
  /\ UNCHANGED rows

AcceptReadTargetSlot(t) ==
  /\ At(t, "accept_get")
  /\ LET row == seat[job[t].get] IN
       IF ~Owns(job[t].who, row) THEN Return(t)
       ELSE job' = [job EXCEPT ![t].pc = "accept_write", ![t].getRow = row]
  /\ UNCHANGED rows

\* UPDATE ... WHERE id names only the columns that differ from the copies: the
\* two players, unless the copies had the same one.
SlotsToWrite(j) == IF j.giveRow.player = j.getRow.player THEN {} ELSE {j.give, j.get}

\* An UPDATE that finds no row fails the flush, and all of it is rolled back.
RowsStillThere(j) == j.id \in Used /\ SlotsToWrite(j) \subseteq Live

\* Mutant of Exchanged: one of the two players is read anew.
ExchangedHalfFresh(j) ==
  [s \in Slot |->
     IF s \notin SlotsToWrite(j) THEN seat[s]
     ELSE [seat[s] EXCEPT !.player = IF s = j.give THEN j.getRow.player
                                                   ELSE seat[j.give].player]]

Exchanged(j) ==
  [s \in Slot |->
     IF s \notin SlotsToWrite(j) THEN seat[s]
     ELSE [seat[s] EXCEPT !.player = IF s = j.give THEN j.getRow.player
                                                   ELSE j.giveRow.player]]

\* The query for the other requests runs inside the write transaction.
SupersededBy(j) == (Touching({j.give, j.get}) \intersect Pending) \ {j.id}

\* Mutant of AcceptWrite: the addresses are looked up after the exchange.
AcceptWriteThenLookUp(t) ==
  /\ At(t, "accept_write")
  /\ RowsStillThere(job[t])
  /\ seat' = Exchanged(job[t])
  /\ swap' = [i \in Id |->
                IF i = job[t].id THEN Settle(swap[i], "accepted")
                ELSE IF i \in SupersededBy(job[t]) THEN Settle(swap[i], "declined")
                ELSE swap[i]]
  /\ job' = [job EXCEPT ![t].pc = "mail", ![t].told = seat'[job[t].give].player]

AcceptWrite(t) ==
  /\ At(t, "accept_write")
  /\ RowsStillThere(job[t])
  /\ seat' = Exchanged(job[t])
  /\ swap' = [i \in Id |->
                IF i = job[t].id THEN Settle(swap[i], "accepted")
                ELSE IF i \in SupersededBy(job[t]) THEN Settle(swap[i], "declined")
                ELSE swap[i]]
  /\ Goto(t, "mail")

AcceptFails(t) ==
  /\ At(t, "accept_write")
  /\ ~RowsStillThere(job[t])
  /\ Return(t)
  /\ UNCHANGED rows

-----------------------------------------------------------------------------
(* decline() and decline_swap, and _pending_request's expiry.              *)

DeclineReadRequest(t, p, i) == ReadRequest(t, p, i, "decline_get")

DeclineReadTargetSlot(t) ==
  /\ At(t, "decline_get")
  /\ IF Owns(job[t].who, seat[job[t].get]) THEN Goto(t, "decline_write") ELSE Return(t)
  /\ UNCHANGED rows

\* The UPDATE of one request row, which fails when the row is gone.
Resolve(t, status, next) ==
  /\ IF job[t].id \in Used
     THEN /\ swap' = SettleAll({job[t].id}, status)
          /\ IF next = "return" THEN Return(t) ELSE Goto(t, next)
     ELSE Return(t) /\ UNCHANGED swap
  /\ UNCHANGED seat

DeclineWrite(t) ==
  /\ At(t, "decline_write")
  /\ Resolve(t, "declined", "decline_told")

\* The proposer's slot is read after the commit.
DeclineReadProposerSlot(t) ==
  /\ At(t, "decline_told")
  /\ LET row == seat[job[t].give] IN
       IF row = Gone \/ row.player = Nobody THEN Return(t)
       ELSE job' = [job EXCEPT ![t].pc = "mail", ![t].told = row.player]
  /\ UNCHANGED rows

ExpireWrite(t) ==
  /\ At(t, "expire")
  /\ Resolve(t, "expired", "return")

\* send_swap_accepted or send_swap_declined, and the redirect.
SendAnswer(t) ==
  /\ At(t, "mail")
  /\ Return(t)
  /\ UNCHANGED rows

-----------------------------------------------------------------------------
\* Another connection kept the write lock past the busy timeout: "database
\* is locked" rolls the handler back.
LockedOut(t) ==
  /\ job[t].pc \in {"insert", "accept_write", "decline_write", "expire"}
  /\ Return(t)
  /\ UNCHANGED rows

\* The slot ids a handler goes on with.
Held == UNION {{job[t].give, job[t].get} : t \in Thread}

AdminRequest(t) ==
  /\ job[t] = Idle
  /\ Admin
  /\ reused' = (reused \/ \E s \in Slot \ Live : s \in Held /\ seat'[s] # Gone)
  /\ UNCHANGED job

TimePasses == \E i \in Id : Age(i) /\ UNCHANGED <<job, reused>>

Init == RowsInit /\ job = [t \in Thread |-> Idle] /\ reused = FALSE

Answer(t, p, i) == AcceptReadRequest(t, p, i) \/ DeclineReadRequest(t, p, i)

Continue(t) ==
  \/ \E g \in Slot : ProposeReadTarget(t, g)
  \/ ProposeInsert(t) \/ ProposeRefused(t) \/ ProposeDone(t)
  \/ AcceptReadProposerSlot(t) \/ AcceptReadTargetSlot(t)
  \/ AcceptWrite(t) \/ AcceptFails(t)
  \/ DeclineReadTargetSlot(t) \/ DeclineWrite(t) \/ DeclineReadProposerSlot(t)
  \/ ExpireWrite(t) \/ SendAnswer(t) \/ LockedOut(t)

Handler(t) ==
  \/ \E p \in Person, s \in Slot : ProposeReadOwn(t, p, s)
  \/ \E p \in Person, i \in Id : Answer(t, p, i)
  \/ Continue(t)

HandlerNext ==
  \/ \E t \in Thread : Handler(t) /\ UNCHANGED reused
  \/ \E t \in Thread : AdminRequest(t)
  \/ TimePasses

HandlerSpec == Init /\ [][HandlerNext]_handlerVars

\* swaps_pending_for_parent: what the byten page lets a parent answer.
Incoming(p) == {i \in Pending : Owns(p, seat[swap[i].get])}

PageHandler(t) ==
  \/ \E p \in Person, s \in Slot : ProposeReadOwn(t, p, s)
  \/ \E p \in Person : \E i \in Incoming(p) : Answer(t, p, i)
  \/ Continue(t)

\* Parents who use the page, and no admin.
PageNext ==
  \/ \E t \in Thread : PageHandler(t) /\ UNCHANGED reused
  \/ TimePasses

ParentSpec == Init /\ [][PageNext]_handlerVars

-----------------------------------------------------------------------------
(* The handlers implement SwapBook when one runs at a time.                *)

\* A handler judges a request's age once; SwapBook's request gets old when no
\* handler that judged it young is still at it.
Judged(i) ==
  \E t \in Thread :
    /\ job[t].id = i
    /\ job[t].pc \in {"accept_give", "accept_get", "accept_write",
                      "decline_get", "decline_write"}

BookSwap ==
  [i \in Id |-> IF i \in Pending /\ Judged(i) THEN [swap[i] EXCEPT !.stale = FALSE]
                                             ELSE swap[i]]

Book == INSTANCE SwapBook WITH swap <- BookSwap

\* Run by one thread, every handler does what SwapBook says in one step, or
\* nothing.
ImplementsBook == Book!Spec

-----------------------------------------------------------------------------
(* Properties.                                                             *)

\* A request always has both its slots, whichever deletes and offers race.
NoDanglingRequest ==
  \A i \in Used : {swap[i].give, swap[i].get} \subseteq Live

\* Trades keep players in their team at any interleaving, although accepts
\* write outdated copies and never compare teams (swaps.py:43), with one
\* exception: while a handler goes on with a slot it has read, the slot is
\* deleted and slots.create gives its id to another team's slot.
TradesStayInTeam == reused \/ SeatsStayInTeam

\* The family that made the offer is the one told of the answer, although
\* accepting moves it to the other seat (swap_routes.py:124).
AnswerReachesProposer ==
  \A t \in Thread : At(t, "mail") => job[t].told = job[t].terms.give.player

Duties(x) == Cardinality({s \in Live : seat[s].player = x})

\* Two parents of one household answering the same offer at the same time
\* neither lose nor duplicate a duty.
DutiesConserved ==
  [][\A x \in Player : Duties(x)' = Duties(x)]_handlerVars

\* Some parent may act for both players of the request.
BothFamilies(x, y) == \E p \in Person : {x, y} \subseteq KidsOf[p]

\* An accepted offer took effect exactly once: no seat is back with, or still
\* with, the player who had it when the offer was made.  Left out are offers
\* between two players with a parent in common: the second of that parent's
\* accepts finds a child of their own on the seat and trades it back.
AcceptedMeansTraded ==
  \A i \in Used, roster \in Rosters :
    LET x == roster[swap[i].give].player
        y == roster[swap[i].get].player
    IN  swap[i].status = "accepted" /\ ~BothFamilies(x, y) =>
          seat[swap[i].give].player = y /\ seat[swap[i].get].player = x

\* Accepting one request takes no seat from a third family, which got it in
\* another trade while the request was being answered: whoever loses a seat is
\* one of the two players of the offer.
AcceptTakesOnlyTheirs ==
  [][\A t \in Thread : AcceptWrite(t) =>
       \A s \in Live : seat'[s].player # seat[s].player =>
         seat[s].player \in {job[t].terms.give.player, job[t].terms.get.player}]_handlerVars

=============================================================================
