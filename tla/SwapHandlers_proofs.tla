------------------------ MODULE SwapHandlers_proofs ------------------------
(***************************************************************************)
(* What the swap handlers guarantee as the threaded server runs them: at   *)
(* any interleaving of any number of threads, for two answers to one       *)
(* offer, and when one handler runs at a time.                             *)
(***************************************************************************)
EXTENDS SwapHandlers, SwapBook_proofs, FiniteSetTheorems

-----------------------------------------------------------------------------
(* Any number of threads.  What a handler knows of its own job does not    *)
(* depend on the rows: its copies may be outdated, but they were seats     *)
(* when they were read.                                                    *)

Pc == {"idle", "target", "insert", "accept_give", "accept_get", "accept_write",
       "decline_get", "decline_write", "decline_told", "expire", "mail"}

Job == [pc : Pc, who : Person \union {None}, id : Id \union {None},
        give : Slot \union {None}, get : Slot \union {None},
        giveRow : Seat \union {Gone, None}, getRow : Seat \union {Gone, None},
        told : Player \union {Nobody, None}, terms : Terms \union {NoTerms, None}]

\* The pcs at which a handler answers request j.id, up to its write.
Answering == {"accept_give", "accept_get", "accept_write",
              "decline_get", "decline_write", "expire"}

GoodJob ==
  {j \in Job :
     /\ j.pc \in {"target", "insert"} => j.give \in Slot /\ j.giveRow \in Seat
     /\ j.pc = "insert" =>
          /\ j.get \in Slot
          /\ j.getRow \in Seat
          /\ j.get # j.give
     /\ j.pc \in Answering \union {"decline_told"} =>
          /\ j.id \in Id /\ j.give \in Slot /\ j.get \in Slot
     /\ j.pc \in {"accept_get", "accept_write"} => j.giveRow \in Seat
     /\ j.pc = "accept_write" => j.getRow \in Seat}

\* Every request, answered or not, has two different seats.
RequestsPaired ==
  \A i \in Used :
    /\ swap[i].give \in Live /\ swap[i].get \in Live
    /\ swap[i].give # swap[i].get

RowsOK == RowsTypeOK /\ RequestsPaired

RaceInv == RowsOK /\ job \in [Thread -> GoodJob]

\* A job that is not doing anything is a good one.
LEMMA IdleIsGood == Idle \in GoodJob /\ Idle.pc = "idle"
BY DEF Idle, GoodJob, Job, Pc, Answering

\* What a thread does next is a good job: the other threads keep theirs.
LEMMA OneJobChanges ==
  ASSUME job \in [Thread -> GoodJob], NEW t \in Thread, NEW j \in GoodJob,
         job' = [job EXCEPT ![t] = j]
  PROVE  job' \in [Thread -> GoodJob]
OBVIOUS

\* Moving on without reading anything, and returning.
LEMMA GotoType ==
  ASSUME job \in [Thread -> GoodJob], NEW t \in Thread, NEW pc \in Pc, Goto(t, pc),
         [job[t] EXCEPT !.pc = pc] \in GoodJob
  PROVE  job' \in [Thread -> GoodJob]
BY OneJobChanges DEF Goto

LEMMA ReturnType ==
  ASSUME job \in [Thread -> GoodJob], NEW t \in Thread, Return(t)
  PROVE  job' \in [Thread -> GoodJob]
BY OneJobChanges, IdleIsGood DEF Return

\* What the row of a live seat is.
LEMMA LiveCopies ==
  ASSUME RowsOK, NEW s \in Live
  PROVE  s \in Slot /\ seat[s] \in Seat
BY RowTypes DEF RowsOK

-----------------------------------------------------------------------------
(* The steps that only read.                                               *)

LEMMA ProposeReadOwnJob ==
  ASSUME RaceInv, NEW t \in Thread, NEW p \in Person, NEW s \in Slot, ProposeReadOwn(t, p, s)
  PROVE  job' \in [Thread -> GoodJob]
<1>1. s \in Live
  BY DEF ProposeReadOwn, Owns, Live
<1>2. seat[s] \in Seat
  BY <1>1, LiveCopies DEF RaceInv
<1> DEFINE j == [Idle EXCEPT !.pc = "target", !.who = p, !.give = s, !.giveRow = seat[s]]
<1>3. j \in Job /\ j.pc = "target" /\ j.give = s /\ j.giveRow = seat[s]
  BY <1>2 DEF Idle, Job, Pc
<1>4. j \in GoodJob
  BY <1>2, <1>3 DEF GoodJob, Answering
<1>5. job' = [job EXCEPT ![t] = j]
  BY DEF ProposeReadOwn, Begin
<1>6. QED
  BY <1>4, <1>5, OneJobChanges DEF RaceInv

LEMMA ProposeReadTargetJob ==
  ASSUME RaceInv, NEW t \in Thread, NEW g \in Slot, ProposeReadTarget(t, g)
  PROVE  job' \in [Thread -> GoodJob]
<1>1. seat[g] \in Seat
  BY LiveCopies DEF RaceInv, ProposeReadTarget
<1>2. job[t] \in GoodJob /\ job[t].pc = "target"
  BY DEF RaceInv, ProposeReadTarget, At
<1> DEFINE j == [job[t] EXCEPT !.pc = "insert", !.get = g, !.getRow = seat[g]]
<1>3. /\ j \in Job /\ j.pc = "insert" /\ j.get = g /\ j.getRow = seat[g]
      /\ j.give = job[t].give /\ j.giveRow = job[t].giveRow
  BY <1>1, <1>2 DEF GoodJob, Job, Pc
<1>4. j \in GoodJob
  BY <1>1, <1>2, <1>3 DEF GoodJob, Answering, ProposeReadTarget
<1>5. job' = [job EXCEPT ![t] = j]
  BY DEF ProposeReadTarget
<1>6. QED
  BY <1>4, <1>5, OneJobChanges DEF RaceInv

\* Reading the request.
LEMMA ReadRequestJob ==
  ASSUME RaceInv, NEW t \in Thread, NEW p \in Person, NEW i \in Id,
         NEW next \in {"accept_give", "decline_get"}, ReadRequest(t, p, i, next)
  PROVE  job' \in [Thread -> GoodJob]
<1>1. i \in Used /\ swap[i] \in Request
  BY RowTypes DEF ReadRequest, RaceInv, RowsOK, Pending
<1>3. PICK pc \in {"accept_give", "decline_get", "expire"} :
        job' = [job EXCEPT ![t] = [Idle EXCEPT !.pc = pc, !.who = p, !.id = i,
                  !.give = swap[i].give, !.get = swap[i].get, !.terms = swap[i].terms]]
  BY DEF ReadRequest, Begin
<1> DEFINE j == [Idle EXCEPT !.pc = pc, !.who = p, !.id = i,
                   !.give = swap[i].give, !.get = swap[i].get, !.terms = swap[i].terms]
<1>4. /\ j \in Job /\ j.pc = pc /\ j.id = i
      /\ j.give = swap[i].give /\ j.get = swap[i].get
      /\ j.give \in Slot /\ j.get \in Slot
  BY <1>1 DEF Idle, Job, Pc, Request
<1>5. j \in GoodJob
  BY <1>4 DEF GoodJob, Answering
<1>6. QED
  BY <1>3, <1>5, OneJobChanges DEF RaceInv

\* The copies an accept takes are seats of the slots they are copies of.
LEMMA AcceptReadsJob ==
  ASSUME RaceInv, NEW t \in Thread,
         AcceptReadProposerSlot(t) \/ AcceptReadTargetSlot(t)
  PROVE  job' \in [Thread -> GoodJob]
<1>1. CASE Return(t)
  BY <1>1, ReturnType DEF RaceInv
<1>2. CASE AcceptReadProposerSlot(t) /\ ~Return(t)
  <2> DEFINE row == seat[job[t].give]
             j == [job[t] EXCEPT !.pc = "accept_get", !.giveRow = row, !.told = row.player]
  <2>1. /\ job[t] \in GoodJob /\ job[t].pc = "accept_give"
        /\ job' = [job EXCEPT ![t] = j] /\ row # Gone
    BY <1>2 DEF RaceInv, AcceptReadProposerSlot, At
  <2>2. job[t].give \in Slot
    BY <2>1 DEF GoodJob, Answering
  <2>3. row \in Seat
    BY <2>1, <2>2, LiveCopies DEF RaceInv, Live
  <2>4. job[t] \in Job /\ row \in Seat /\ row.player \in Player \union {Nobody}
    BY <2>1, <2>3 DEF GoodJob, Seat
  <2>5. /\ j \in Job /\ j.pc = "accept_get" /\ j.id = job[t].id /\ j.giveRow = row
        /\ j.give = job[t].give /\ j.get = job[t].get
    <3> HIDE DEF row
    <3>1. QED
      BY <2>4 DEF Job, Pc
  <2>6. j \in GoodJob
    BY <2>1, <2>3, <2>5 DEF GoodJob, Answering
  <2>7. QED
    BY <2>1, <2>6, OneJobChanges DEF RaceInv
<1>3. CASE AcceptReadTargetSlot(t) /\ ~Return(t)
  <2> DEFINE row == seat[job[t].get]
             j == [job[t] EXCEPT !.pc = "accept_write", !.getRow = row]
  <2>1. /\ job[t] \in GoodJob /\ job[t].pc = "accept_get"
        /\ job' = [job EXCEPT ![t] = j] /\ row # Gone
    BY <1>3 DEF RaceInv, AcceptReadTargetSlot, At, Owns
  <2>2. job[t].get \in Slot
    BY <2>1 DEF GoodJob, Answering
  <2>3. row \in Seat
    BY <2>1, <2>2, LiveCopies DEF RaceInv, Live
  <2>4. /\ j \in Job /\ j.pc = "accept_write" /\ j.id = job[t].id /\ j.getRow = row
        /\ j.give = job[t].give /\ j.get = job[t].get /\ j.giveRow = job[t].giveRow
    BY <2>1, <2>3 DEF GoodJob, Job, Pc
  <2>5. j \in GoodJob
    BY <2>1, <2>3, <2>4 DEF GoodJob, Answering
  <2>6. QED
    BY <2>1, <2>5, OneJobChanges DEF RaceInv
<1>4. QED
  BY <1>1, <1>2, <1>3

LEMMA DeclineReadsJob ==
  ASSUME RaceInv, NEW t \in Thread,
         DeclineReadTargetSlot(t) \/ DeclineReadProposerSlot(t)
  PROVE  job' \in [Thread -> GoodJob]
<1>1. CASE Return(t)
  BY <1>1, ReturnType DEF RaceInv
<1>2. CASE DeclineReadTargetSlot(t) /\ ~Return(t)
  <2>1. job[t] \in GoodJob /\ job[t].pc = "decline_get" /\ Goto(t, "decline_write")
    BY <1>2 DEF RaceInv, DeclineReadTargetSlot, At
  <2> DEFINE j == [job[t] EXCEPT !.pc = "decline_write"]
  <2>2. /\ j \in Job /\ j.pc = "decline_write" /\ j.id = job[t].id
        /\ j.give = job[t].give /\ j.get = job[t].get
    BY <2>1 DEF GoodJob, Job, Pc
  <2>3. j \in GoodJob
    BY <2>1, <2>2 DEF GoodJob, Answering
  <2>4. QED
    BY <2>1, <2>3, GotoType DEF RaceInv, Pc
<1>3. CASE DeclineReadProposerSlot(t) /\ ~Return(t)
  <2> DEFINE row == seat[job[t].give]
             j == [job[t] EXCEPT !.pc = "mail", !.told = row.player]
  <2>1. /\ job[t] \in GoodJob /\ job[t].pc = "decline_told"
        /\ job' = [job EXCEPT ![t] = j] /\ row # Gone
    BY <1>3 DEF RaceInv, DeclineReadProposerSlot, At
  <2>2. job[t].give \in Slot
    BY <2>1 DEF GoodJob, Answering
  <2>3. row \in Seat
    BY <2>1, <2>2, LiveCopies DEF RaceInv, Live
  <2>4. j \in Job /\ j.pc = "mail"
    BY <2>1, <2>3 DEF GoodJob, Job, Pc, Seat
  <2>5. j \in GoodJob
    BY <2>4 DEF GoodJob, Answering
  <2>6. QED
    BY <2>1, <2>5, OneJobChanges DEF RaceInv
<1>4. QED
  BY <1>1, <1>2, <1>3

-----------------------------------------------------------------------------
(* The steps that write.                                                   *)

\* A step that leaves the slots alone, keeps every request on its slots and
\* adds none keeps the rows in order.
LEMMA SameRequests ==
  ASSUME RowsOK, RowsTypeOK', UNCHANGED seat,
         \A i \in Used' : i \in Used /\ swap'[i].give = swap[i].give
                                     /\ swap'[i].get = swap[i].get
  PROVE  RowsOK'
<1>1. Live' = Live
  BY DEF Live
<1>2. RequestsPaired'
  BY <1>1 DEF RowsOK, RequestsPaired
<1>3. QED
  BY <1>2 DEF RowsOK

\* Settling requests keeps the rows in order.
LEMMA SettleRows ==
  ASSUME RowsOK, NEW S \in SUBSET Used, NEW status \in Status \ {"pending"},
         swap' = SettleAll(S, status), UNCHANGED seat
  PROVE  /\ RowsOK'
         /\ \A i \in Used' : /\ i \in Used
                             /\ swap'[i].give = swap[i].give /\ swap'[i].get = swap[i].get
<1>1. RowsTypeOK'
  BY SettleAllType DEF RowsOK, RowsTypeOK
<1>2. ASSUME NEW i \in Used'
      PROVE  i \in Used /\ swap'[i].give = swap[i].give /\ swap'[i].get = swap[i].get
  <2>1. i \in Id /\ swap'[i] # NoRow
    BY DEF Used
  <2>2. CASE i \in S
    <3>1. i \in Used /\ swap[i] \in Request /\ swap'[i] = Settle(swap[i], status)
      BY <2>1, <2>2, RowTypes DEF SettleAll, RowsOK
    <3>2. QED
      BY <3>1, SettleType
  <2>3. CASE i \notin S
    BY <2>1, <2>3 DEF SettleAll, Used
  <2>4. QED
    BY <2>2, <2>3
<1>3. QED
  BY <1>1, <1>2, SameRequests

\* The foreign keys are looked at in the step that inserts the request, so a
\* seat deleted since it was read cannot be offered or asked for.
LEMMA ProposeInsertInv ==
  ASSUME RaceInv, NEW t \in Thread, ProposeInsert(t)
  PROVE  RaceInv'
<1> DEFINE give == job[t].give
           get == job[t].get
<1>1. job[t] \in GoodJob /\ job[t].pc = "insert"
  BY DEF RaceInv, ProposeInsert, At
<1>2. /\ give \in Slot /\ get \in Slot /\ give # get
      /\ job[t].giveRow \in Seat /\ job[t].getRow \in Seat
  BY <1>1 DEF GoodJob
<1>3. give \in Live /\ get \in Live /\ seat' = seat
  BY DEF ProposeInsert, ForeignKeysHold
<1> DEFINE row == NewRequest(give, get, job[t].giveRow, job[t].getRow)
<1>4. row \in Request /\ row.give = give /\ row.get = get
  BY <1>2, NewRequestType DEF NewRequest
<1>5. PICK i \in Id : swap' = [swap EXCEPT ![i] = row]
  BY DEF ProposeInsert
<1> HIDE DEF give, get, row
<1>6. RowsTypeOK'
  BY <1>3, <1>4, <1>5 DEF RaceInv, RowsOK, RowsTypeOK
<1>7. Live' = Live
  BY <1>3 DEF Live
<1>8. RequestsPaired'
  <2>1. ASSUME NEW k \in Used'
        PROVE  /\ swap'[k].give \in Live /\ swap'[k].get \in Live
               /\ swap'[k].give # swap'[k].get
    <3>1. CASE k = i
      BY <1>2, <1>3, <1>4, <1>5, <3>1 DEF RaceInv, RowsOK, RowsTypeOK
    <3>2. CASE k # i
      <4>1. k \in Used /\ swap'[k] = swap[k]
        BY <1>5, <3>2 DEF RaceInv, RowsOK, RowsTypeOK, Used
      <4>2. QED
        BY <4>1 DEF RaceInv, RowsOK, RequestsPaired
    <3>3. QED
      BY <3>1, <3>2
  <2>2. QED
    BY <1>7, <2>1 DEF RequestsPaired
<1>10. job' \in [Thread -> GoodJob]
  <2> DEFINE j == [job[t] EXCEPT !.pc = "target", !.get = None, !.getRow = None]
  <2>1. j \in Job /\ j.pc = "target" /\ j.give = job[t].give /\ j.giveRow = job[t].giveRow
    BY <1>1 DEF GoodJob, Job, Pc
  <2>2. j \in GoodJob
    BY <1>2, <2>1 DEF GoodJob, Answering, give
  <2>3. job' = [job EXCEPT ![t] = j]
    BY DEF ProposeInsert
  <2>4. QED
    BY <2>2, <2>3, OneJobChanges DEF RaceInv
<1>11. QED
  BY <1>6, <1>8, <1>10 DEF RaceInv, RowsOK

\* However outdated the copies, a slot that is gone fails the flush.
LEMMA AcceptWriteInv ==
  ASSUME RaceInv, NEW t \in Thread, AcceptWrite(t)
  PROVE  /\ RaceInv'
         /\ Live' = Live
         /\ \A s \in Live : seat'[s].team = seat[s].team
         /\ \A i \in Used' : /\ i \in Used
                             /\ swap'[i].give = swap[i].give /\ swap'[i].get = swap[i].get
<1> DEFINE j == job[t]
<1>1. j \in GoodJob /\ j.pc = "accept_write"
  BY DEF RaceInv, AcceptWrite, At
<1>2. /\ j.give \in Slot /\ j.get \in Slot
      /\ j.giveRow \in Seat /\ j.getRow \in Seat
  BY <1>1 DEF GoodJob, Answering
<1>3. /\ j.id \in Used /\ SlotsToWrite(j) \subseteq Live
      /\ seat' = Exchanged(j)
      /\ swap' = [i \in Id |->
                    IF i = j.id THEN Settle(swap[i], "accepted")
                    ELSE IF i \in SupersededBy(j) THEN Settle(swap[i], "declined")
                    ELSE swap[i]]
  BY DEF AcceptWrite, RowsStillThere
<1> HIDE DEF j
<1>4. ASSUME NEW s \in Slot
      PROVE  /\ s \notin SlotsToWrite(j) => seat'[s] = seat[s]
             /\ s \in SlotsToWrite(j) =>
                  s \in Live /\ seat'[s] \in Seat /\ seat'[s].team = seat[s].team
  <2>1. CASE s \notin SlotsToWrite(j)
    BY <1>3, <2>1 DEF Exchanged
  <2>2. CASE s \in SlotsToWrite(j)
    <3>1. s \in {j.give, j.get} /\ s \in Live /\ seat[s] \in Seat
      BY <1>3, <2>2, RowTypes DEF SlotsToWrite, RaceInv, RowsOK
    <3> DEFINE x == IF s = j.give THEN j.getRow.player ELSE j.giveRow.player
    <3>2. seat'[s] = [seat[s] EXCEPT !.player = x]
      BY <1>3, <2>2 DEF Exchanged
    <3>3. x \in Player \union {Nobody}
      BY <1>2, <3>1 DEF Seat
    <3>4. QED
      BY <2>2, <3>1, <3>2, <3>3 DEF Seat
  <2>3. QED
    BY <2>1, <2>2
<1>5. seat' \in [Slot -> Seat \union {Gone}]
  BY <1>3, <1>4 DEF Exchanged, RaceInv, RowsOK, RowsTypeOK
<1>6. Live' = Live
  BY <1>4, ConstantsOK DEF Live
<1>8. ASSUME NEW i \in Id
      PROVE  /\ swap'[i] \in Request \union {NoRow}
             /\ i \in Used' => /\ i \in Used
                               /\ swap'[i].give = swap[i].give
                               /\ swap'[i].get = swap[i].get
  <2>1. CASE i = j.id \/ i \in SupersededBy(j)
    <3>1. i \in Used /\ swap[i] \in Request
      BY <1>3, <2>1, RowTypes DEF SupersededBy, Pending, RaceInv, RowsOK
    <3>2. PICK status \in {"accepted", "declined"} : swap'[i] = Settle(swap[i], status)
      BY <1>3, <2>1
    <3>3. QED
      BY <3>1, <3>2, SettleType DEF Status
  <2>2. CASE ~(i = j.id \/ i \in SupersededBy(j))
    BY <1>3, <2>2 DEF Used, RaceInv, RowsOK, RowsTypeOK
  <2>3. QED
    BY <2>1, <2>2
<1>9. RowsTypeOK'
  BY <1>3, <1>5, <1>8 DEF RowsTypeOK
<1>13. \A i \in Used' : /\ i \in Used
                       /\ swap'[i].give = swap[i].give /\ swap'[i].get = swap[i].get
  BY <1>8 DEF Used
<1>10. RequestsPaired'
  BY <1>6, <1>13 DEF RequestsPaired, RaceInv, RowsOK
<1>11. job' \in [Thread -> GoodJob]
  <2>1. [job[t] EXCEPT !.pc = "mail"] \in GoodJob
    BY <1>1 DEF GoodJob, Job, Pc, Answering, j
  <2>2. QED
    BY <2>1, GotoType DEF AcceptWrite, RaceInv, Pc
<1>12. QED
  BY <1>4, <1>6, <1>9, <1>10, <1>11, <1>13 DEF RaceInv, RowsOK, Live

\* Declining and expiring: the request they settle may be another one by now
\* that got the same id, which still is on its own two seats.
LEMMA ResolveInv ==
  ASSUME RaceInv, NEW t \in Thread, DeclineWrite(t) \/ ExpireWrite(t)
  PROVE  /\ RaceInv'
         /\ \A i \in Used' : /\ i \in Used
                             /\ swap'[i].give = swap[i].give /\ swap'[i].get = swap[i].get
<1>1. PICK status \in {"declined", "expired"}, next \in {"return", "decline_told"} :
        Resolve(t, status, next) /\ (next = "decline_told" => At(t, "decline_write"))
  BY DEF DeclineWrite, ExpireWrite
<1>2. CASE job[t].id \in Used
  <2>1. /\ RowsOK'
        /\ \A i \in Used' : /\ i \in Used
                            /\ swap'[i].give = swap[i].give /\ swap'[i].get = swap[i].get
    <3>1. PICK S \in SUBSET Used : swap' = SettleAll(S, status)
      BY <1>1, <1>2 DEF Resolve
    <3>2. UNCHANGED seat /\ status \in Status \ {"pending"} /\ RowsOK
      BY <1>1, <1>2 DEF Resolve, RaceInv, Status
    <3>3. QED
      BY <3>1, <3>2, SettleRows
  <2>2. CASE next = "return"
    BY <1>1, <1>2, <2>1, <2>2, ReturnType DEF Resolve, RaceInv
  <2>3. CASE next = "decline_told"
    <3>1. Goto(t, "decline_told") /\ job[t] \in GoodJob /\ job[t].pc = "decline_write"
      BY <1>1, <1>2, <2>3 DEF Resolve, RaceInv, At
    <3> DEFINE j == [job[t] EXCEPT !.pc = "decline_told"]
    <3>2. /\ j \in Job /\ j.pc = "decline_told" /\ j.id = job[t].id
          /\ j.give = job[t].give /\ j.get = job[t].get
      BY <3>1 DEF GoodJob, Job, Pc
    <3>3. j \in GoodJob
      BY <3>1, <3>2 DEF GoodJob, Answering
    <3>4. QED
      BY <2>1, <3>1, <3>3, GotoType DEF RaceInv, Pc
  <2>4. QED
    BY <2>2, <2>3
<1>3. CASE job[t].id \notin Used
  <2>1. UNCHANGED rows /\ Return(t)
    BY <1>1, <1>3 DEF Resolve, rows
  <2>2. RowsOK'
    BY <2>1 DEF RaceInv, RowsOK, RowsTypeOK, RequestsPaired, Used, Live, rows
  <2>3. QED
    BY <2>1, <2>2, ReturnType DEF RaceInv, Used, rows
<1>4. QED
  BY <1>2, <1>3

\* Deleting a seat deletes every request on it, in the same step.
LEMMA AdminRows ==
  ASSUME RowsOK, Admin
  PROVE  /\ RowsOK'
         /\ \A i \in Used' : /\ i \in Used
                             /\ swap'[i].give = swap[i].give /\ swap'[i].get = swap[i].get
<1>1. RowsTypeOK'
  BY AdminType DEF RowsOK
<1>2. ASSUME NEW changed, NEW deleted, CancelSwaps(changed, deleted), NEW i \in Used'
      PROVE  /\ i \in Used
             /\ swap'[i].give = swap[i].give /\ swap'[i].get = swap[i].get
             /\ swap[i].give \notin deleted /\ swap[i].get \notin deleted
  <2>1. i \in Id /\ i \notin Touching(deleted) /\ i \in Used
    BY <1>2 DEF Used, CancelSwaps, Touching, Pending
  <2>2. swap[i] \in Request
    BY <2>1, RowTypes DEF RowsOK
  <2>3. CASE i \in Touching(changed) \intersect Pending
    <3>1. swap'[i] = Settle(swap[i], "cancelled")
      BY <1>2, <2>1, <2>3 DEF CancelSwaps
    <3>2. QED
      BY <2>1, <2>2, <3>1, SettleType DEF Touching, Status
  <2>4. CASE i \notin Touching(changed) \intersect Pending
    <3>1. swap'[i] = swap[i]
      BY <1>2, <2>1, <2>4 DEF CancelSwaps
    <3>2. QED
      BY <2>1, <3>1 DEF Touching
  <2>5. QED
    BY <2>3, <2>4
<1>3. PICK deleted \in SUBSET Slot :
        /\ \A i \in Used' : /\ i \in Used
                            /\ swap'[i].give = swap[i].give /\ swap'[i].get = swap[i].get
                            /\ swap[i].give \notin deleted /\ swap[i].get \notin deleted
        /\ \A s \in Live : s \notin deleted => s \in Live'
  <2>1. CASE \E S \in SUBSET Slot, shift \in Shift : MoveSlots(S, shift)
    <3>1. PICK S \in SUBSET Slot, shift \in Shift : MoveSlots(S, shift)
      BY <2>1
    <3>2. \A s \in S : [seat[s] EXCEPT !.shift = shift] # Gone
      BY <3>1, RowTypes, ConstantsOK DEF MoveSlots, OneShift, Seat, RowsOK
    <3>3. \A s \in Live : s \in Live'
      BY <3>1, <3>2 DEF MoveSlots, Live
    <3>4. QED
      BY <1>2, <3>1, <3>3 DEF MoveSlots
  <2>2. CASE \E s \in Slot, x \in Player \union {Nobody}, shift \in Shift :
               ReplacePlayer(s, x, shift)
    <3>1. PICK s \in Slot, x \in Player \union {Nobody}, shift \in Shift :
            ReplacePlayer(s, x, shift)
      BY <2>2
    <3>2. [player |-> x, team |-> seat[s].team, shift |-> shift] # Gone
      BY <3>1, RowTypes, ConstantsOK DEF ReplacePlayer, Seat, RowsOK
    <3>3. \A u \in Live : u \in Live'
      BY <3>1, <3>2 DEF ReplacePlayer, Live, RowsOK, RowsTypeOK
    <3>4. QED
      BY <1>2, <3>1, <3>3 DEF ReplacePlayer
  <2>3. CASE \E S \in SUBSET Slot : DeleteSlots(S)
    <3>1. PICK S \in SUBSET Slot : DeleteSlots(S)
      BY <2>3
    <3>2. \A s \in Live : s \notin S => s \in Live'
      BY <3>1 DEF DeleteSlots, Live
    <3>3. QED
      BY <1>2, <3>1, <3>2 DEF DeleteSlots
  <2>4. CASE \E s \in Slot, x \in Player : AssignSlot(s, x)
    <3>1. PICK s \in Slot, x \in Player : AssignSlot(s, x)
      BY <2>4
    <3>2. [seat[s] EXCEPT !.player = x] # Gone
      BY <3>1, RowTypes, ConstantsOK DEF AssignSlot, Seat, RowsOK
    <3>3. \A u \in Live : u \in Live'
      BY <3>1, <3>2 DEF AssignSlot, Live, RowsOK, RowsTypeOK
    <3>4. \A i \in Used' : i \in Used /\ swap'[i] = swap[i]
      BY <3>1 DEF AssignSlot, Used
    <3>5. {} \in SUBSET Slot
      OBVIOUS
    <3>6. \A i \in Used' : swap[i].give \notin {} /\ swap[i].get \notin {}
      OBVIOUS
    <3>7. \A i \in Used' : swap'[i].give = swap[i].give /\ swap'[i].get = swap[i].get
      BY <3>4
    <3>8. QED
      BY <3>3, <3>4, <3>5, <3>6, <3>7
  <2>5. CASE \E S \in SUBSET Slot, team \in Team : \E shifts \in [S -> Shift] :
               CreateSlots(S, team, shifts)
    <3>1. PICK S \in SUBSET Slot, team \in Team : \E shifts \in [S -> Shift] :
            CreateSlots(S, team, shifts)
      BY <2>5
    <3>2. PICK shifts \in [S -> Shift] : CreateSlots(S, team, shifts)
      BY <3>1
    <3>3. \A u \in Live : u \in Live'
      BY <3>2 DEF CreateSlots, AreNextSlots, Live
    <3>4. \A i \in Used' : i \in Used /\ swap'[i] = swap[i]
      BY <3>2 DEF CreateSlots, Used
    <3>5. {} \in SUBSET Slot
      OBVIOUS
    <3>6. \A i \in Used' : swap[i].give \notin {} /\ swap[i].get \notin {}
      OBVIOUS
    <3>7. \A i \in Used' : swap'[i].give = swap[i].give /\ swap'[i].get = swap[i].get
      BY <3>4
    <3>8. QED
      BY <3>3, <3>4, <3>5, <3>6, <3>7
  <2>6. QED
    BY <2>1, <2>2, <2>3, <2>4, <2>5 DEF Admin
<1>4. RequestsPaired'
  BY <1>3 DEF RowsOK, RequestsPaired
<1>5. QED
  BY <1>1, <1>3, <1>4 DEF RowsOK

\* A request that gets old stays where it is.
LEMMA AgeRows ==
  ASSUME RowsOK, NEW i \in Id, Age(i)
  PROVE  RowsOK'
<1>1. i \in Used /\ swap[i] \in Request
  BY RowTypes DEF Age, RowsOK, Pending
<1>2. [swap[i] EXCEPT !.stale = TRUE] \in Request
  BY <1>1 DEF Request
<1>3. RowsTypeOK'
  BY <1>2 DEF Age, RowsOK, RowsTypeOK
<1>4. ASSUME NEW k \in Used'
      PROVE  k \in Used /\ swap'[k].give = swap[k].give /\ swap'[k].get = swap[k].get
  <2>1. CASE k = i
    BY <1>1, <2>1 DEF Age, RowsOK, RowsTypeOK, Request
  <2>2. CASE k # i
    BY <2>2 DEF Age, RowsOK, RowsTypeOK, Used
  <2>3. QED
    BY <2>1, <2>2
<1>5. QED
  BY <1>3, <1>4, SameRequests DEF Age

-----------------------------------------------------------------------------
(* The invariant of any number of threads, and what follows from it.       *)

\* A step that reads keeps the rows.
LEMMA ReadingKeepsRows ==
  ASSUME RowsOK, UNCHANGED rows
  PROVE  RowsOK'
BY DEF RowsOK, RowsTypeOK, RequestsPaired, Used, Live, rows

LEMMA HandlerInv ==
  ASSUME RaceInv, NEW t \in Thread, Handler(t)
  PROVE  RaceInv'
<1>1. CASE \E p \in Person, s \in Slot : ProposeReadOwn(t, p, s)
  BY <1>1, ProposeReadOwnJob, ReadingKeepsRows DEF RaceInv, ProposeReadOwn
<1>2. CASE \E p \in Person, i \in Id : Answer(t, p, i)
  BY <1>2, ReadRequestJob, ReadingKeepsRows
     DEF RaceInv, Answer, AcceptReadRequest, DeclineReadRequest, ReadRequest
<1>3. CASE \E g \in Slot : ProposeReadTarget(t, g)
  BY <1>3, ProposeReadTargetJob, ReadingKeepsRows DEF RaceInv, ProposeReadTarget
<1>4. CASE ProposeInsert(t)
  BY <1>4, ProposeInsertInv
<1>5. CASE Return(t) /\ UNCHANGED rows
  BY <1>5, ReturnType, ReadingKeepsRows DEF RaceInv
<1>6. CASE AcceptReadProposerSlot(t) \/ AcceptReadTargetSlot(t)
  BY <1>6, AcceptReadsJob, ReadingKeepsRows
     DEF RaceInv, AcceptReadProposerSlot, AcceptReadTargetSlot
<1>7. CASE AcceptWrite(t)
  BY <1>7, AcceptWriteInv
<1>8. CASE DeclineReadTargetSlot(t) \/ DeclineReadProposerSlot(t)
  BY <1>8, DeclineReadsJob, ReadingKeepsRows
     DEF RaceInv, DeclineReadTargetSlot, DeclineReadProposerSlot
<1>9. CASE DeclineWrite(t) \/ ExpireWrite(t)
  BY <1>9, ResolveInv
<1>10. QED
  BY <1>1, <1>2, <1>3, <1>4, <1>5, <1>6, <1>7, <1>8, <1>9
     DEF Handler, Continue, ProposeRefused, ProposeDone, AcceptFails, SendAnswer, LockedOut

LEMMA RaceInit == Init => RaceInv
<1>1. SUFFICES ASSUME Init PROVE RaceInv
  OBVIOUS
<1>2. seat \in [Slot -> Seat \union {Gone}] /\ Used = {}
  BY <1>1, ConstantsOK DEF Init, RowsInit, Used
<1>4. RowsOK
  BY <1>1, <1>2 DEF Init, RowsInit, RowsOK, RowsTypeOK, RequestsPaired
<1>5. QED
  BY <1>1, <1>4, IdleIsGood DEF Init, RaceInv

LEMMA RaceStep == RaceInv /\ [HandlerNext]_handlerVars => RaceInv'
<1>1. SUFFICES ASSUME RaceInv, [HandlerNext]_handlerVars PROVE RaceInv'
  OBVIOUS
<1>2. CASE \E t \in Thread : Handler(t)
  BY <1>1, <1>2, HandlerInv
<1>3. CASE \E t \in Thread : AdminRequest(t)
  BY <1>1, <1>3, AdminRows DEF AdminRequest, RaceInv
<1>4. CASE TimePasses
  BY <1>1, <1>4, AgeRows DEF TimePasses, RaceInv
<1>5. CASE UNCHANGED handlerVars
  BY <1>1, <1>5, ReadingKeepsRows DEF handlerVars, RaceInv, rows
<1>6. QED
  BY <1>1, <1>2, <1>3, <1>4, <1>5 DEF HandlerNext

LEMMA RaceInvariance == HandlerSpec => []RaceInv
BY RaceInit, RaceStep, PTL DEF HandlerSpec

\* A request always has both its slots, at any interleaving of any number of
\* handlers and admins who delete seats.
THEOREM RequestsKeepSlots == HandlerSpec => []NoDanglingRequest
<1>1. RaceInv => NoDanglingRequest
  BY DEF RaceInv, RowsOK, RequestsPaired, NoDanglingRequest
<1>2. QED
  BY <1>1, RaceInvariance, PTL

-----------------------------------------------------------------------------
(* Teams.  The copies of a handler are of one team, and its slots stay in  *)
(* that team for as long as slots.create gives their ids to nobody else.   *)

\* Every step of a handler is one of these.
LEMMA HandlerSteps ==
  ASSUME NEW t \in Thread, Handler(t)
  PROVE  \/ \E p \in Person, s \in Slot : ProposeReadOwn(t, p, s)
         \/ \E p \in Person, i \in Id : Answer(t, p, i)
         \/ UNCHANGED rows /\ Return(t)
         \/ /\ UNCHANGED rows
            /\ \/ \E g \in Slot : ProposeReadTarget(t, g)
               \/ AcceptReadProposerSlot(t) \/ AcceptReadTargetSlot(t)
               \/ DeclineReadTargetSlot(t) \/ DeclineReadProposerSlot(t)
         \/ ProposeInsert(t) \/ AcceptWrite(t) \/ DeclineWrite(t) \/ ExpireWrite(t)
BY DEF Handler, Continue, ProposeReadTarget, ProposeRefused, ProposeDone,
       AcceptReadProposerSlot, AcceptReadTargetSlot, AcceptFails, DeclineReadTargetSlot,
       DeclineReadProposerSlot, SendAnswer, LockedOut

\* A handler's step is its own.
LEMMA OtherJobsStay ==
  ASSUME RaceInv, NEW t \in Thread, Handler(t), NEW u \in Thread, u # t
  PROVE  job'[u] = job[u]
<1>1. job \in [Thread -> GoodJob]
  BY DEF RaceInv
<1>2. CASE \/ \E p \in Person, s \in Slot : ProposeReadOwn(t, p, s)
           \/ \E p \in Person, i \in Id : Answer(t, p, i)
  BY <1>1, <1>2 DEF ProposeReadOwn, Answer, AcceptReadRequest, DeclineReadRequest,
                    ReadRequest, Begin
<1>3. CASE Return(t)
  BY <1>1, <1>3 DEF Return
<1>4. CASE \E g \in Slot : ProposeReadTarget(t, g)
  BY <1>1, <1>4 DEF ProposeReadTarget
<1>5. CASE (AcceptReadProposerSlot(t) \/ AcceptReadTargetSlot(t)) /\ ~Return(t)
  BY <1>1, <1>5 DEF AcceptReadProposerSlot, AcceptReadTargetSlot
<1>6. CASE (DeclineReadTargetSlot(t) \/ DeclineReadProposerSlot(t)) /\ ~Return(t)
  BY <1>1, <1>6 DEF DeclineReadTargetSlot, DeclineReadProposerSlot, Goto
<1>7. CASE ProposeInsert(t)
  BY <1>1, <1>7 DEF ProposeInsert
<1>8. CASE (AcceptWrite(t) \/ DeclineWrite(t) \/ ExpireWrite(t)) /\ ~Return(t)
  BY <1>1, <1>8 DEF AcceptWrite, DeclineWrite, ExpireWrite, Resolve, Goto
<1>9. QED
  BY <1>2, <1>3, <1>4, <1>5, <1>6, <1>7, <1>8, HandlerSteps

\* Every request, answered or not, is between two seats of one team.
RequestsInTeam == \A i \in Used : seat[swap[i].give].team = seat[swap[i].get].team

\* What a handler took from a slot is what the slot, if it is there, still is.
JobInTeam(j) ==
  /\ j.pc \in {"target", "insert", "accept_get", "accept_write"} =>
       /\ InTeam(j.giveRow.team, j.giveRow.player)
       /\ j.give \in Live => seat[j.give].team = j.giveRow.team
  /\ j.pc \in {"insert", "accept_write"} =>
       /\ InTeam(j.getRow.team, j.getRow.player)
       /\ j.getRow.team = j.giveRow.team
       /\ j.get \in Live => seat[j.get].team = j.getRow.team
  /\ j.pc = "accept_give" =>
       (j.give \in Live /\ j.get \in Live => seat[j.get].team = seat[j.give].team)
  /\ j.pc = "accept_get" => (j.get \in Live => seat[j.get].team = j.giveRow.team)

TeamsApart == SeatsStayInTeam /\ RequestsInTeam /\ \A t \in Thread : JobInTeam(job[t])

TeamInv == RaceInv /\ (reused \/ TeamsApart)

\* A job stays in its team when its slots are what they were, or are gone.
LEMMA SameSlots ==
  ASSUME NEW j, JobInTeam(j),
         \A s \in {j.give, j.get} : s \in Live' => s \in Live /\ seat'[s].team = seat[s].team
  PROVE  JobInTeam(j)'
BY DEF JobInTeam, InTeam

\* An accept writes players, and no handler creates or deletes a slot.
LEMMA HandlersKeepTeams ==
  ASSUME RaceInv, NEW t \in Thread, Handler(t)
  PROVE  Live' = Live /\ \A s \in Live : seat'[s].team = seat[s].team
<1>1. CASE seat' = seat
  BY <1>1 DEF Live
<1>2. CASE AcceptWrite(t)
  BY <1>2, AcceptWriteInv
<1>3. QED
  BY <1>1, <1>2, HandlerSteps
     DEF ProposeReadOwn, Answer, AcceptReadRequest, DeclineReadRequest, ReadRequest, rows,
         ProposeInsert, DeclineWrite, ExpireWrite, Resolve

\* Between reading and writing nothing is known of the teams but by the copies.
LEMMA NothingToKeep ==
  ASSUME NEW j, j.pc \in {"idle", "decline_get", "decline_write", "decline_told", "expire", "mail"}
  PROVE  JobInTeam(j)
BY DEF JobInTeam

\* The job that moved, judged by the slots before the step.
LEMMA MovedInTeam ==
  ASSUME RaceInv, NEW t \in Thread, NEW j, job' = [job EXCEPT ![t] = j], JobInTeam(j),
         Live' = Live, \A s \in Live : seat'[s].team = seat[s].team
  PROVE  JobInTeam(job[t])'
<1>1. job'[t] = j
  BY DEF RaceInv
<1>2. JobInTeam(j)'
  BY SameSlots
<1>3. QED
  BY <1>1, <1>2 DEF JobInTeam

\* Reading: the slot's team is compared, or is that of the request.
LEMMA ReaderInTeam ==
  ASSUME RaceInv, TeamsApart, NEW t \in Thread, UNCHANGED rows,
         \/ \E p \in Person, s \in Slot : ProposeReadOwn(t, p, s)
         \/ \E p \in Person, i \in Id : Answer(t, p, i)
         \/ \E g \in Slot : ProposeReadTarget(t, g)
         \/ AcceptReadProposerSlot(t) \/ AcceptReadTargetSlot(t)
         \/ DeclineReadTargetSlot(t) \/ DeclineReadProposerSlot(t)
  PROVE  JobInTeam(job[t])'
<1>0. /\ Live' = Live /\ \A s \in Live : seat'[s].team = seat[s].team
      /\ job[t] \in GoodJob /\ job[t] \in Job /\ JobInTeam(job[t])
      /\ \A s \in Live : InTeam(seat[s].team, seat[s].player)
  BY DEF rows, Live, RaceInv, GoodJob, TeamsApart, SeatsStayInTeam
<1>1. CASE \E p \in Person, s \in Slot : ProposeReadOwn(t, p, s)
  <2>1. PICK p \in Person, s \in Slot : ProposeReadOwn(t, p, s)
    BY <1>1
  <2>2. PICK j : j = [Idle EXCEPT !.pc = "target", !.who = p, !.give = s, !.giveRow = seat[s]]
    OBVIOUS
  <2>3. j.pc = "target" /\ j.give = s /\ j.giveRow = seat[s] /\ s \in Live
    BY <2>1, <2>2 DEF Idle, ProposeReadOwn, Owns, Live
  <2>4. JobInTeam(j)
    BY <1>0, <2>3 DEF JobInTeam
  <2>5. job' = [job EXCEPT ![t] = j]
    BY <2>1, <2>2 DEF ProposeReadOwn, Begin
  <2>6. QED
    BY <1>0, <2>4, <2>5, MovedInTeam
<1>2. CASE \E p \in Person, i \in Id : Answer(t, p, i)
  <2>1. PICK p \in Person, i \in Id, next \in {"accept_give", "decline_get"} :
          ReadRequest(t, p, i, next)
    BY <1>2 DEF Answer, AcceptReadRequest, DeclineReadRequest
  <2>2. PICK pc \in {"accept_give", "decline_get", "expire"} :
          job' = [job EXCEPT ![t] = [Idle EXCEPT !.pc = pc, !.who = p, !.id = i,
                    !.give = swap[i].give, !.get = swap[i].get, !.terms = swap[i].terms]]
    BY <2>1 DEF ReadRequest, Begin
  <2>3. PICK j : j = [Idle EXCEPT !.pc = pc, !.who = p, !.id = i,
                    !.give = swap[i].give, !.get = swap[i].get, !.terms = swap[i].terms]
    OBVIOUS
  <2>4. j.pc = pc /\ j.give = swap[i].give /\ j.get = swap[i].get
    BY <2>3 DEF Idle
  <2>5. seat[swap[i].give].team = seat[swap[i].get].team
    BY <2>1 DEF TeamsApart, RequestsInTeam, ReadRequest, Pending
  <2>6. JobInTeam(j)
    BY <2>4, <2>5 DEF JobInTeam
  <2>7. QED
    BY <1>0, <2>2, <2>3, <2>6, MovedInTeam
<1>3. CASE \E g \in Slot : ProposeReadTarget(t, g)
  <2>1. PICK g \in Slot : ProposeReadTarget(t, g)
    BY <1>3
  <2>2. PICK j : j = [job[t] EXCEPT !.pc = "insert", !.get = g, !.getRow = seat[g]]
    OBVIOUS
  <2>3. /\ j.pc = "insert" /\ j.get = g /\ j.getRow = seat[g]
        /\ j.give = job[t].give /\ j.giveRow = job[t].giveRow
    BY <1>0, <2>2 DEF Job
  <2>4. /\ job[t].pc = "target" /\ g \in Live /\ seat[g].team = job[t].giveRow.team
        /\ job' = [job EXCEPT ![t] = j]
    BY <2>1, <2>2 DEF ProposeReadTarget, At
  <2>5. JobInTeam(j)
    BY <1>0, <2>3, <2>4 DEF JobInTeam
  <2>6. QED
    BY <1>0, <2>4, <2>5, MovedInTeam
<1>4. CASE Return(t)
  <2>1. JobInTeam(Idle)
    BY IdleIsGood, NothingToKeep
  <2>2. QED
    BY <1>0, <1>4, <2>1, MovedInTeam DEF Return
<1>5. CASE AcceptReadProposerSlot(t) /\ ~Return(t)
  <2>1. PICK row : row = seat[job[t].give]
    OBVIOUS
  <2>2. PICK j : j = [job[t] EXCEPT !.pc = "accept_get", !.giveRow = row, !.told = row.player]
    OBVIOUS
  <2>3. /\ job[t].pc = "accept_give" /\ job' = [job EXCEPT ![t] = j] /\ row # Gone
    BY <1>5, <2>1, <2>2 DEF AcceptReadProposerSlot, At
  <2>4. job[t].give \in Live
    BY <1>0, <2>1, <2>3 DEF GoodJob, Answering, Live
  <2>5. /\ j.pc = "accept_get" /\ j.giveRow = row
        /\ j.give = job[t].give /\ j.get = job[t].get
    BY <1>0, <2>2 DEF Job
  <2>6. JobInTeam(j)
    BY <1>0, <2>1, <2>3, <2>4, <2>5 DEF JobInTeam
  <2>7. QED
    BY <1>0, <2>3, <2>6, MovedInTeam
<1>6. CASE AcceptReadTargetSlot(t) /\ ~Return(t)
  <2>1. PICK row : row = seat[job[t].get]
    OBVIOUS
  <2>2. PICK j : j = [job[t] EXCEPT !.pc = "accept_write", !.getRow = row]
    OBVIOUS
  <2>3. /\ job[t].pc = "accept_get" /\ job' = [job EXCEPT ![t] = j] /\ row # Gone
    BY <1>6, <2>1, <2>2 DEF AcceptReadTargetSlot, At, Owns
  <2>4. job[t].get \in Live
    BY <1>0, <2>1, <2>3 DEF GoodJob, Answering, Live
  <2>5. /\ j.pc = "accept_write" /\ j.getRow = row /\ j.giveRow = job[t].giveRow
        /\ j.give = job[t].give /\ j.get = job[t].get
    BY <1>0, <2>2 DEF Job
  <2>6. JobInTeam(j)
    BY <1>0, <2>1, <2>3, <2>4, <2>5 DEF JobInTeam
  <2>7. QED
    BY <1>0, <2>3, <2>6, MovedInTeam
<1>7. CASE (DeclineReadTargetSlot(t) \/ DeclineReadProposerSlot(t)) /\ ~Return(t)
  <2>1. PICK x : job' = [job EXCEPT ![t] = [job[t] EXCEPT !.pc = "decline_write"]]
                 \/ job' = [job EXCEPT ![t] = [job[t] EXCEPT !.pc = "mail", !.told = x]]
    BY <1>7 DEF DeclineReadTargetSlot, DeclineReadProposerSlot, Goto
  <2>2. PICK i, j : /\ i = [job[t] EXCEPT !.pc = "decline_write"]
                    /\ j = [job[t] EXCEPT !.pc = "mail", !.told = x]
    OBVIOUS
  <2>3. i.pc = "decline_write" /\ j.pc = "mail"
    BY <1>0, <2>2 DEF Job
  <2>4. JobInTeam(i) /\ JobInTeam(j)
    BY <2>3, NothingToKeep
  <2>5. job' = [job EXCEPT ![t] = i] \/ job' = [job EXCEPT ![t] = j]
    BY <2>1, <2>2
  <2>6. QED
    BY <1>0, <2>4, <2>5, MovedInTeam
<1>8. QED
  BY <1>1, <1>2, <1>3, <1>4, <1>5, <1>6, <1>7

LEMMA MoverInTeam ==
  ASSUME RaceInv, TeamsApart, NEW t \in Thread, Handler(t)
  PROVE  JobInTeam(job[t])'
<1>0. /\ Live' = Live /\ \A s \in Live : seat'[s].team = seat[s].team
      /\ job[t] \in Job /\ JobInTeam(job[t])
  BY HandlersKeepTeams DEF RaceInv, GoodJob, TeamsApart
<1>1. CASE Return(t)
  <2>1. JobInTeam(Idle)
    BY IdleIsGood, NothingToKeep
  <2>2. QED
    BY <1>0, <1>1, <2>1, MovedInTeam DEF Return
<1>2. CASE ProposeInsert(t)
  <2>1. PICK j : j = [job[t] EXCEPT !.pc = "target", !.get = None, !.getRow = None]
    OBVIOUS
  <2>2. /\ job[t].pc = "insert" /\ job' = [job EXCEPT ![t] = j]
    BY <1>2, <2>1 DEF ProposeInsert, At
  <2>3. j.pc = "target" /\ j.give = job[t].give /\ j.giveRow = job[t].giveRow
    BY <1>0, <2>1 DEF Job
  <2>4. JobInTeam(j)
    BY <1>0, <2>2, <2>3 DEF JobInTeam
  <2>5. QED
    BY <1>0, <2>2, <2>4, MovedInTeam
<1>3. CASE (AcceptWrite(t) \/ DeclineWrite(t) \/ ExpireWrite(t)) /\ ~Return(t)
  <2>0. PICK pc \in {"mail", "decline_told"} : Goto(t, pc)
    BY <1>3 DEF AcceptWrite, DeclineWrite, ExpireWrite, Resolve
  <2>1. PICK j : j = [job[t] EXCEPT !.pc = pc] /\ job' = [job EXCEPT ![t] = j]
    BY <1>0, <2>0 DEF Goto
  <2>2. j.pc = pc
    BY <1>0, <2>1 DEF Job
  <2>3. JobInTeam(j)
    BY <2>2, NothingToKeep
  <2>4. QED
    BY <1>0, <2>1, <2>3, MovedInTeam
<1>4. CASE UNCHANGED rows /\ ~Return(t)
  BY <1>1, <1>2, <1>3, <1>4, ReaderInTeam, HandlerSteps
<1>5. QED
  BY <1>1, <1>2, <1>3, <1>4, HandlerSteps
     DEF ProposeReadOwn, Answer, AcceptReadRequest, DeclineReadRequest, ReadRequest

\* The requests and the seats after a handler's step.
LEMMA HandlerTeams ==
  ASSUME RaceInv, TeamsApart, NEW t \in Thread, Handler(t)
  PROVE  SeatsStayInTeam' /\ RequestsInTeam'
<1>0. /\ Live' = Live /\ \A s \in Live : seat'[s].team = seat[s].team
      /\ job[t] \in GoodJob /\ JobInTeam(job[t]) /\ RowsTypeOK /\ RequestsPaired
  BY HandlersKeepTeams DEF RaceInv, RowsOK, TeamsApart
<1>1. SeatsStayInTeam'
  <2>1. CASE seat' = seat
    BY <2>1 DEF SeatsStayInTeam, TeamsApart, Live, InTeam
  <2>2. CASE AcceptWrite(t)
    <3>1. PICK j : j = job[t]
      OBVIOUS
    <3>2. /\ j.pc = "accept_write" /\ seat' = Exchanged(j)
          /\ SlotsToWrite(j) \subseteq Live
          /\ SlotsToWrite(j) \subseteq {j.give, j.get}
          /\ j.give \in Live => seat[j.give].team = j.giveRow.team
          /\ j.get \in Live => seat[j.get].team = j.giveRow.team
          /\ InTeam(j.giveRow.team, j.giveRow.player)
          /\ InTeam(j.giveRow.team, j.getRow.player)
          /\ j.giveRow \in Seat /\ j.getRow \in Seat
      BY <1>0, <2>2, <3>1
         DEF AcceptWrite, At, RowsStillThere, SlotsToWrite, JobInTeam, GoodJob
    <3>3. ASSUME NEW s \in Live' PROVE InTeam(seat'[s].team, seat'[s].player)
      <4>1. s \in Live /\ s \in Slot /\ seat'[s].team = seat[s].team /\ seat[s] \in Seat
        BY <1>0, <3>3, RowTypes
      <4>2. CASE s \notin SlotsToWrite(j)
        BY <3>2, <4>1, <4>2 DEF Exchanged, TeamsApart, SeatsStayInTeam
      <4>3. CASE s \in SlotsToWrite(j)
        <5>1. seat'[s].player = IF s = j.give THEN j.getRow.player ELSE j.giveRow.player
          BY <3>2, <4>1, <4>3 DEF Exchanged, Seat
        <5>2. seat[s].team = j.giveRow.team
          BY <3>2, <4>3
        <5>3. QED
          BY <3>2, <4>1, <5>1, <5>2
      <4>4. QED
        BY <4>2, <4>3
    <3>4. QED
      BY <3>3 DEF SeatsStayInTeam, InTeam
  <2>3. QED
    BY <2>1, <2>2, HandlerSteps
       DEF ProposeReadOwn, Answer, AcceptReadRequest, DeclineReadRequest, ReadRequest, rows,
           ProposeInsert, DeclineWrite, ExpireWrite, Resolve
<1>2. RequestsInTeam'
  <2>1. CASE \A i \in Used' : /\ i \in Used
                              /\ swap'[i].give = swap[i].give /\ swap'[i].get = swap[i].get
    BY <1>0, <2>1 DEF RequestsInTeam, RequestsPaired, TeamsApart
  <2>2. CASE ProposeInsert(t)
    <3>1. PICK j : j = job[t]
      OBVIOUS
    <3>2. PICK i \in Id : swap' = [swap EXCEPT ![i] =
                                    NewRequest(j.give, j.get, j.giveRow, j.getRow)]
      BY <2>2, <3>1 DEF ProposeInsert
    <3>3. swap'[i].give = j.give /\ swap'[i].get = j.get
      BY <1>0, <3>2 DEF RowsTypeOK, NewRequest
    <3>4. seat[j.give].team = seat[j.get].team /\ seat' = seat
      BY <1>0, <2>2, <3>1 DEF ProposeInsert, At, ForeignKeysHold, JobInTeam
    <3>5. \A k \in Used' : k # i => (k \in Used /\ swap'[k] = swap[k])
      <4>1. PICK row : swap' = [swap EXCEPT ![i] = row]
        BY <3>2
      <4>2. \A k \in Id : k # i => swap'[k] = swap[k]
        BY <1>0, <4>1 DEF RowsTypeOK
      <4>3. ASSUME NEW k \in Used', k # i PROVE k \in Used /\ swap'[k] = swap[k]
        <5>1. k \in Id /\ swap'[k] # NoRow
          BY DEF Used
        <5>2. QED
          BY <4>2, <4>3, <5>1 DEF Used
      <4>4. QED
        BY <4>3
    <3>6. QED
      BY <3>3, <3>4, <3>5 DEF RequestsInTeam, TeamsApart
  <2>3. CASE AcceptWrite(t)
    BY <2>1, <2>3, AcceptWriteInv
  <2>4. CASE DeclineWrite(t) \/ ExpireWrite(t)
    BY <2>1, <2>4, ResolveInv
  <2>5. CASE UNCHANGED rows
    BY <2>1, <2>5 DEF rows, Used
  <2>6. QED
    BY <2>2, <2>3, <2>4, <2>5, HandlerSteps
       DEF ProposeReadOwn, Answer, AcceptReadRequest, DeclineReadRequest, ReadRequest
<1>3. QED
  BY <1>1, <1>2

\* What an admin does to slots: they keep their team, and only slots.create
\* makes one of an id that has none.
LEMMA AdminSlots ==
  ASSUME RowsOK, Admin, NEW s \in Live, s \in Live'
  PROVE  seat'[s].team = seat[s].team
<1>1. s \in Slot /\ seat[s] \in Seat /\ seat \in [Slot -> Seat \union {Gone}]
  BY RowTypes DEF RowsOK, RowsTypeOK
<1>2. CASE \E S \in SUBSET Slot, shift \in Shift : MoveSlots(S, shift)
  BY <1>1, <1>2 DEF MoveSlots, Seat
<1>3. CASE \E u \in Slot, x \in Player \union {Nobody}, shift \in Shift :
             ReplacePlayer(u, x, shift)
  BY <1>1, <1>3 DEF ReplacePlayer, Seat
<1>4. CASE \E S \in SUBSET Slot : DeleteSlots(S)
  BY <1>1, <1>4 DEF DeleteSlots, Live
<1>5. CASE \E u \in Slot, x \in Player : AssignSlot(u, x)
  BY <1>1, <1>5 DEF AssignSlot, Seat
<1>6. CASE \E S \in SUBSET Slot, team \in Team : \E shifts \in [S -> Shift] :
             CreateSlots(S, team, shifts)
  BY <1>1, <1>6 DEF CreateSlots, AreNextSlots
<1>7. QED
  BY <1>2, <1>3, <1>4, <1>5, <1>6 DEF Admin

\* An admin acts, and no handler holds an id that gets a new slot.
LEMMA AdminKeepsApart ==
  ASSUME RaceInv, TeamsApart, NEW t \in Thread, AdminRequest(t), ~reused'
  PROVE  TeamsApart'
<1>1. RowsOK /\ Admin /\ job' = job
  BY DEF AdminRequest, RaceInv
<1>2. /\ RowsOK'
      /\ \A i \in Used' : /\ i \in Used
                          /\ swap'[i].give = swap[i].give /\ swap'[i].get = swap[i].get
  BY <1>1, AdminRows
<1>3. SeatsStayInTeam'
  BY <1>1, AdminTeams DEF RowsOK, TeamsApart
<1>4. RequestsInTeam'
  <2>1. ASSUME NEW i \in Used'
        PROVE  seat'[swap'[i].give].team = seat'[swap'[i].get].team
    <3>1. PICK g, h : g = swap[i].give /\ h = swap[i].get
      OBVIOUS
    <3>2. /\ i \in Used /\ swap'[i].give = g /\ swap'[i].get = h
          /\ g \in Live /\ h \in Live /\ g \in Live' /\ h \in Live'
      BY <1>1, <1>2, <3>1 DEF RowsOK, RequestsPaired
    <3>3. seat[g].team = seat[h].team
      BY <3>1, <3>2 DEF TeamsApart, RequestsInTeam
    <3>4. QED
      BY <1>1, <3>2, <3>3, AdminSlots
  <2>2. QED
    BY <2>1 DEF RequestsInTeam
<1>5. ASSUME NEW u \in Thread PROVE JobInTeam(job[u])'
  <2>1. PICK j : j = job[u]
    OBVIOUS
  <2>2. JobInTeam(j) /\ {j.give, j.get} \subseteq Held /\ job'[u] = j
    BY <1>1, <2>1 DEF TeamsApart, Held
  <2>3. \A s \in Live' : s \in Held => s \in Live
    BY DEF AdminRequest, Live
  <2>4. \A s \in {j.give, j.get} : s \in Live' => s \in Live /\ seat'[s].team = seat[s].team
    BY <1>1, <2>2, <2>3, AdminSlots
  <2>5. JobInTeam(j)'
    BY <2>2, <2>4, SameSlots
  <2>6. QED
    BY <2>2, <2>5 DEF JobInTeam
<1>6. QED
  BY <1>3, <1>4, <1>5 DEF TeamsApart

\* A handler's step: its own job, and the jobs of the others.
LEMMA HandlerKeepsApart ==
  ASSUME RaceInv, TeamsApart, NEW t \in Thread, Handler(t)
  PROVE  TeamsApart'
<1>1. SeatsStayInTeam' /\ RequestsInTeam'
  BY HandlerTeams
<1>2. ASSUME NEW u \in Thread PROVE JobInTeam(job[u])'
  <2>1. CASE u = t
    BY <2>1, MoverInTeam
  <2>2. CASE u # t
    <3>1. PICK j : j = job[u]
      OBVIOUS
    <3>2. job'[u] = j /\ JobInTeam(j)
      BY <2>2, <3>1, OtherJobsStay DEF TeamsApart
    <3>3. JobInTeam(j)'
      BY <3>2, HandlersKeepTeams, SameSlots
    <3>4. QED
      BY <3>2, <3>3 DEF JobInTeam
  <2>3. QED
    BY <2>1, <2>2
<1>3. QED
  BY <1>1, <1>2 DEF TeamsApart

\* A request that gets old is between the same two slots.
LEMMA TimeKeepsApart ==
  ASSUME RaceInv, TeamsApart, UNCHANGED <<seat, job>>,
         UNCHANGED swap \/ \E i \in Id : Age(i)
  PROVE  TeamsApart'
<1>1. seat' = seat /\ job' = job /\ Live' = Live /\ RowsTypeOK
  BY DEF Live, RaceInv, RowsOK
<1>2. \A i \in Used' : /\ i \in Used
                       /\ swap'[i].give = swap[i].give /\ swap'[i].get = swap[i].get
  <2>1. CASE UNCHANGED swap
    BY <2>1 DEF Used
  <2>2. CASE \E i \in Id : Age(i)
    <3>1. PICK k \in Id : Age(k)
      BY <2>2
    <3>2. k \in Used /\ swap[k] \in Request
      BY <1>1, <3>1, RowTypes DEF Age, Pending
    <3>3. /\ swap'[k] = [swap[k] EXCEPT !.stale = TRUE]
          /\ \A i \in Id : i # k => swap'[i] = swap[i]
      BY <1>1, <3>1 DEF Age, RowsTypeOK
    <3>4. swap'[k].give = swap[k].give /\ swap'[k].get = swap[k].get
      BY <3>2, <3>3 DEF Request
    <3>5. QED
      BY <3>2, <3>3, <3>4 DEF Used
  <2>3. QED
    BY <2>1, <2>2
<1>3. SeatsStayInTeam' /\ RequestsInTeam'
  BY <1>1, <1>2 DEF TeamsApart, SeatsStayInTeam, RequestsInTeam, InTeam
<1>4. \A u \in Thread : JobInTeam(job[u])'
  BY <1>1 DEF TeamsApart, JobInTeam, InTeam
<1>5. QED
  BY <1>3, <1>4 DEF TeamsApart

LEMMA TeamStep == TeamInv /\ [HandlerNext]_handlerVars => TeamInv'
<1>1. SUFFICES ASSUME TeamInv, [HandlerNext]_handlerVars, ~reused' PROVE TeamInv'
  <2>1. TeamInv /\ [HandlerNext]_handlerVars => RaceInv'
    BY RaceStep DEF TeamInv
  <2>2. QED
    BY <2>1 DEF TeamInv
<1>2. RaceInv /\ RaceInv'
  BY <1>1, RaceStep DEF TeamInv
<1>3. ~reused
  BY <1>1 DEF HandlerNext, AdminRequest, TimePasses, handlerVars
<1>4. TeamsApart
  BY <1>1, <1>3 DEF TeamInv
<1>5. TeamsApart'
  <2>1. CASE \E t \in Thread : Handler(t)
    BY <1>2, <1>4, <2>1, HandlerKeepsApart
  <2>2. CASE \E t \in Thread : AdminRequest(t)
    BY <1>1, <1>2, <1>4, <2>2, AdminKeepsApart
  <2>3. CASE TimePasses
    BY <1>2, <1>4, <2>3, TimeKeepsApart DEF TimePasses, Age
  <2>4. CASE UNCHANGED handlerVars
    BY <1>2, <1>4, <2>4, TimeKeepsApart DEF handlerVars
  <2>5. QED
    BY <1>1, <2>1, <2>2, <2>3, <2>4 DEF HandlerNext
<1>6. QED
  BY <1>2, <1>5 DEF TeamInv

\* The schedules the system starts from have nobody in another team's seat.
LEMMA InitTeams == Init => SeatsStayInTeam
BY ConstantsOK DEF Init, RowsInit, SeatsStayInTeam, Live

LEMMA TeamInit == Init => TeamInv
<1>1. SUFFICES ASSUME Init PROVE TeamInv
  OBVIOUS
<1>2. RaceInv /\ SeatsStayInTeam /\ Used = {}
  BY <1>1, RaceInit, InitTeams DEF Init, RowsInit, Used
<1>3. \A t \in Thread : job[t] = Idle
  BY <1>1 DEF Init
<1>4. \A t \in Thread : JobInTeam(job[t])
  BY <1>3, IdleIsGood, NothingToKeep
<1>5. QED
  BY <1>2, <1>4 DEF TeamInv, TeamsApart, RequestsInTeam

\* No interleaving of handlers and admins gives a player another team's duty,
\* with one exception: slots.create gave the id of a deleted slot to a new one
\* while a handler that had read the old slot was still at work.
THEOREM RacesStayInTeam == HandlerSpec => []TradesStayInTeam
<1>1. TeamInv => TradesStayInTeam
  BY DEF TeamInv, TeamsApart, TradesStayInTeam
<1>2. QED
  BY <1>1, TeamInit, TeamStep, PTL DEF HandlerSpec

-----------------------------------------------------------------------------
(* One thread.  Nothing comes between the steps of a handler but time, so  *)
(* its copies are the rows, and the request it answers is still pending.   *)

\* The pcs at which a handler has judged request j.id to be young enough.
Judging == Answering \ {"expire"}

Current(j) ==
  /\ j.pc # "idle" => j.who \in Person
  /\ j.pc \in {"target", "insert"} => j.giveRow = seat[j.give] /\ Owns(j.who, j.giveRow)
  /\ j.pc = "insert" =>
       /\ j.getRow = seat[j.get]
       /\ j.getRow.player # Nobody
       /\ j.getRow.team = j.giveRow.team
       /\ ~Owns(j.who, j.getRow)
  /\ j.pc \in Answering =>
       /\ j.id \in Pending
       /\ j.give = swap[j.id].give
       /\ j.get = swap[j.id].get
       /\ j.terms = swap[j.id].terms
  /\ j.pc = "expire" => swap[j.id].stale
  /\ j.pc \in {"accept_get", "accept_write"} =>
       j.giveRow = seat[j.give] /\ j.told = j.giveRow.player
  /\ j.pc = "accept_write" => j.getRow = seat[j.get] /\ Owns(j.who, j.getRow)
  /\ j.pc = "decline_write" => Owns(j.who, seat[j.get])
  /\ j.pc = "decline_told" => seat[j.give] = j.terms.give
  /\ j.pc = "mail" => j.told = j.terms.give.player

OneThread == \A t, u \in Thread : t = u

SoloInv == RaceInv /\ IInv /\ \A t \in Thread : Current(job[t])

\* A thread that has nothing to do depends on no row.
LEMMA IdleIsCurrent == Current(Idle) /\ Current(Idle)'
BY DEF Idle, Current, Answering

\* With one thread, it is enough that the job that moved is current.
LEMMA OnlyJob ==
  ASSUME OneThread, RaceInv, NEW t \in Thread, NEW j, job' = [job EXCEPT ![t] = j], Current(j)'
  PROVE  \A u \in Thread : Current(job[u])'
<1>1. \A u \in Thread : u = t
  BY DEF OneThread
<1>2. job'[t] = j
  BY DEF RaceInv
<1>3. Current(job[t])'
  BY <1>2 DEF Current
<1>4. QED
  BY <1>1, <1>3 DEF Current

\* What an accept writes is an accept of the request as it is.
LEMMA AcceptTakes ==
  ASSUME SoloInv, NEW t \in Thread, AcceptWrite(t)
  PROVE  /\ Takes(job[t].id)
         /\ Owns(job[t].who, seat[swap[job[t].id].get]) /\ job[t].who \in Person
         /\ job[t].told = job[t].terms.give.player
<1> DEFINE j == job[t]
           i == job[t].id
<1>1. j \in GoodJob /\ j.pc = "accept_write" /\ Current(j)
  BY DEF SoloInv, RaceInv, AcceptWrite, At
<1>2. /\ i \in Pending /\ j.give = swap[i].give /\ j.get = swap[i].get
      /\ j.giveRow = seat[j.give] /\ j.getRow = seat[j.get] /\ j.told = j.giveRow.player
      /\ j.terms = swap[i].terms /\ Owns(j.who, j.getRow) /\ j.who \in Person
  BY <1>1 DEF Current, Answering
<1>3. seat[swap[i].give] = swap[i].terms.give
  BY <1>2 DEF SoloInv, IInv, PendingAsOffered
<1>4. SupersededBy(j) = Superseded(i)
  BY <1>2 DEF SupersededBy, Superseded
<1>5. Exchanged(j) = Exchange(swap[i].give, swap[i].get)
  <2>1. /\ j.give \in Live /\ j.get \in Live /\ j.give # j.get
        /\ seat[j.give] \in Seat /\ seat[j.get] \in Seat /\ i \in Id
    BY <1>2, PendingSeats, RowTypes DEF SoloInv, IInv
  <2>2. ASSUME NEW s \in Slot PROVE Exchanged(j)[s] = Exchange(j.give, j.get)[s]
    <3>1. CASE s \notin {j.give, j.get}
      BY <3>1 DEF Exchanged, Exchange, SlotsToWrite, SoloInv, IInv, RowsTypeOK
    <3>2. CASE s \in {j.give, j.get} /\ j.giveRow.player # j.getRow.player
      BY <1>2, <2>1, <3>2 DEF Exchanged, Exchange, SlotsToWrite, SoloInv, IInv, RowsTypeOK
    <3>3. CASE s \in {j.give, j.get} /\ j.giveRow.player = j.getRow.player
      <4>1. \A row \in Seat : [row EXCEPT !.player = row.player] = row
        BY DEF Seat
      <4>2. Exchange(j.give, j.get)[s] = [seat[s] EXCEPT !.player = seat[s].player]
        BY <1>2, <2>1, <3>3 DEF Exchange, SoloInv, IInv, RowsTypeOK
      <4>3. Exchange(j.give, j.get)[s] = seat[s]
        BY <2>1, <3>3, <4>1, <4>2
      <4>4. QED
        BY <3>3, <4>3 DEF Exchanged, SlotsToWrite
    <3>4. QED
      BY <3>1, <3>2, <3>3
  <2>3. \E x, y : Exchange(j.give, j.get) = [seat EXCEPT ![j.give].player = x, ![j.get].player = y]
    BY DEF Exchange
  <2>4. DOMAIN Exchange(j.give, j.get) = Slot /\ DOMAIN Exchanged(j) = Slot
    BY DEF Exchange, Exchanged, SoloInv, IInv, RowsTypeOK
  <2>5. Exchanged(j) = Exchange(j.give, j.get)
    BY <2>2, <2>4 DEF Exchange, Exchanged
  <2>6. QED
    BY <1>2, <2>5
<1>6. Takes(i)
  <2>1. seat' = Exchange(swap[i].give, swap[i].get)
    BY <1>5 DEF AcceptWrite
  <2>2. QED
    BY <1>2, <1>4, <2>1 DEF AcceptWrite, Takes
<1>7. QED
  BY <1>2, <1>3, <1>6

-----------------------------------------------------------------------------
(* Steps of one thread keep its job current.                               *)

\* The first read of a handler.
LEMMA StartsCurrent ==
  ASSUME OneThread, SoloInv, NEW t \in Thread,
         \/ \E p \in Person, s \in Slot : ProposeReadOwn(t, p, s)
         \/ \E p \in Person, i \in Id : Answer(t, p, i)
  PROVE  \A u \in Thread : Current(job[u])'
<1>1. CASE \E p \in Person, s \in Slot : ProposeReadOwn(t, p, s)
  <2>1. PICK p \in Person, s \in Slot : ProposeReadOwn(t, p, s)
    BY <1>1
  <2>0. PICK j : j = [Idle EXCEPT !.pc = "target", !.who = p, !.give = s, !.giveRow = seat[s]]
    OBVIOUS
  <2>2. j.pc = "target" /\ j.who = p /\ j.give = s /\ j.giveRow = seat[s]
    BY <2>0 DEF Idle
  <2>3. job' = [job EXCEPT ![t] = j] /\ Owns(p, seat[s]) /\ seat' = seat
    BY <2>0, <2>1 DEF ProposeReadOwn, Begin, rows
  <2>4. Current(j)'
    BY <2>2, <2>3 DEF Current, Answering, Owns
  <2>5. QED
    BY <2>3, <2>4, OnlyJob DEF SoloInv
<1>2. CASE \E p \in Person, i \in Id : Answer(t, p, i)
  <2>1. PICK p \in Person, i \in Id, next \in {"accept_give", "decline_get"} :
          ReadRequest(t, p, i, next)
    BY <1>2 DEF Answer, AcceptReadRequest, DeclineReadRequest
  <2>2. PICK pc \in {"accept_give", "decline_get", "expire"} :
          /\ job' = [job EXCEPT ![t] = [Idle EXCEPT !.pc = pc, !.who = p, !.id = i,
                       !.give = swap[i].give, !.get = swap[i].get, !.terms = swap[i].terms]]
          /\ pc = "expire" => swap[i].stale
    BY <2>1 DEF ReadRequest, Begin
  <2>0. PICK j : j = [Idle EXCEPT !.pc = pc, !.who = p, !.id = i,
                     !.give = swap[i].give, !.get = swap[i].get, !.terms = swap[i].terms]
    OBVIOUS
  <2>3. /\ j.pc = pc /\ j.who = p /\ j.id = i /\ j.give = swap[i].give
        /\ j.get = swap[i].get /\ j.terms = swap[i].terms
    BY <2>0 DEF Idle
  <2>4. i \in Pending /\ swap' = swap
    BY <2>1 DEF ReadRequest, rows
  <2>5. job' = [job EXCEPT ![t] = j]
    BY <2>0, <2>2
  <2>6. Current(j)'
    BY <2>2, <2>3, <2>4 DEF Current, Answering, Pending, Used
  <2>7. QED
    BY <2>5, <2>6, OnlyJob DEF SoloInv
<1>3. QED
  BY <1>1, <1>2

\* The later reads.
LEMMA ReadsCurrent ==
  ASSUME OneThread, SoloInv, NEW t \in Thread, UNCHANGED rows,
         \/ \E g \in Slot : ProposeReadTarget(t, g)
         \/ AcceptReadProposerSlot(t) \/ AcceptReadTargetSlot(t)
         \/ DeclineReadTargetSlot(t) \/ DeclineReadProposerSlot(t)
  PROVE  \A u \in Thread : Current(job[u])'
<1>1. job[t] \in GoodJob /\ job[t] \in Job /\ Current(job[t])
  BY DEF SoloInv, RaceInv, GoodJob
<1>2. seat' = seat /\ swap' = swap /\ Pending' = Pending
  BY DEF rows, Pending, Used
<1>3. CASE Return(t)
  BY <1>3, OnlyJob, IdleIsCurrent DEF Return, SoloInv
<1>4. CASE \E g \in Slot : ProposeReadTarget(t, g)
  <2>1. PICK g \in Slot : ProposeReadTarget(t, g)
    BY <1>4
  <2>0. PICK j : j = [job[t] EXCEPT !.pc = "insert", !.get = g, !.getRow = seat[g]]
    OBVIOUS
  <2>2. /\ j.pc = "insert" /\ j.get = g /\ j.getRow = seat[g] /\ j.who = job[t].who
        /\ j.give = job[t].give /\ j.giveRow = job[t].giveRow
    BY <2>0, <1>1 DEF Job
  <2>3. job' = [job EXCEPT ![t] = j]
    BY <2>0, <2>1 DEF ProposeReadTarget
  <2>4. /\ job[t].pc = "target" /\ seat[g].player # Nobody /\ ~Owns(job[t].who, seat[g])
        /\ seat[g].team = job[t].giveRow.team
    BY <2>1 DEF ProposeReadTarget, At
  <2>5. Current(j)'
    BY <1>1, <1>2, <2>2, <2>4 DEF Current, Answering
  <2>6. QED
    BY <2>3, <2>5, OnlyJob DEF SoloInv
<1>5. CASE AcceptReadProposerSlot(t) /\ ~Return(t)
  <2>0. PICK j : j = [job[t] EXCEPT !.pc = "accept_get", !.giveRow = seat[job[t].give],
                              !.told = seat[job[t].give].player]
    OBVIOUS
  <2>1. job' = [job EXCEPT ![t] = j] /\ job[t].pc = "accept_give"
    BY <2>0, <1>5 DEF AcceptReadProposerSlot, At
  <2>2. /\ j.pc = "accept_get" /\ j.giveRow = seat[job[t].give] /\ j.told = seat[job[t].give].player
        /\ j.who = job[t].who /\ j.id = job[t].id /\ j.give = job[t].give
        /\ j.get = job[t].get /\ j.terms = job[t].terms
    BY <2>0, <1>1 DEF Job
  <2>3. Current(j)'
    BY <1>1, <1>2, <2>1, <2>2 DEF Current, Answering
  <2>4. QED
    BY <2>1, <2>3, OnlyJob DEF SoloInv
<1>6. CASE AcceptReadTargetSlot(t) /\ ~Return(t)
  <2>0. PICK j : j = [job[t] EXCEPT !.pc = "accept_write", !.getRow = seat[job[t].get]]
    OBVIOUS
  <2>1. /\ job' = [job EXCEPT ![t] = j] /\ job[t].pc = "accept_get"
        /\ Owns(job[t].who, seat[job[t].get])
    BY <2>0, <1>6 DEF AcceptReadTargetSlot, At
  <2>2. /\ j.pc = "accept_write" /\ j.getRow = seat[job[t].get] /\ j.told = job[t].told
        /\ j.giveRow = job[t].giveRow
        /\ j.who = job[t].who /\ j.id = job[t].id /\ j.give = job[t].give
        /\ j.get = job[t].get /\ j.terms = job[t].terms
    BY <2>0, <1>1 DEF Job
  <2>3. Current(j)'
    BY <1>1, <1>2, <2>1, <2>2 DEF Current, Answering
  <2>4. QED
    BY <2>1, <2>3, OnlyJob DEF SoloInv
<1>7. CASE DeclineReadTargetSlot(t) /\ ~Return(t)
  <2>0. PICK j : j = [job[t] EXCEPT !.pc = "decline_write"]
    OBVIOUS
  <2>1. /\ job' = [job EXCEPT ![t] = j] /\ job[t].pc = "decline_get"
        /\ Owns(job[t].who, seat[job[t].get])
    BY <2>0, <1>7 DEF DeclineReadTargetSlot, At, Goto
  <2>2. /\ j.pc = "decline_write"
        /\ j.who = job[t].who /\ j.id = job[t].id /\ j.give = job[t].give
        /\ j.get = job[t].get /\ j.terms = job[t].terms
    BY <2>0, <1>1 DEF Job
  <2>3. Current(j)'
    BY <1>1, <1>2, <2>1, <2>2 DEF Current, Answering
  <2>4. QED
    BY <2>1, <2>3, OnlyJob DEF SoloInv
<1>8. CASE DeclineReadProposerSlot(t) /\ ~Return(t)
  <2>0. PICK j : j = [job[t] EXCEPT !.pc = "mail", !.told = seat[job[t].give].player]
    OBVIOUS
  <2>1. job' = [job EXCEPT ![t] = j] /\ job[t].pc = "decline_told"
    BY <2>0, <1>8 DEF DeclineReadProposerSlot, At
  <2>2. /\ j.pc = "mail" /\ j.told = seat[job[t].give].player
        /\ j.who = job[t].who /\ j.terms = job[t].terms
    BY <2>0, <1>1 DEF Job
  <2>3. Current(j)'
    BY <1>1, <1>2, <2>1, <2>2 DEF Current, Answering
  <2>4. QED
    BY <2>1, <2>3, OnlyJob DEF SoloInv
<1>9. QED
  BY <1>3, <1>4, <1>5, <1>6, <1>7, <1>8

\* Inserting a request is one propose_swap of the rows as they are.
LEMMA InsertProposes ==
  ASSUME SoloInv, NEW t \in Thread, ProposeInsert(t)
  PROVE  /\ job[t].who \in Person /\ job[t].give \in Slot /\ job[t].get \in Slot
         /\ Propose(job[t].who, job[t].give, job[t].get)
<1>1. job[t] \in GoodJob /\ job[t].pc = "insert" /\ Current(job[t])
  BY DEF SoloInv, RaceInv, ProposeInsert, At
<1>2. /\ job[t].give \in Slot /\ job[t].get \in Slot /\ job[t].get # job[t].give
  BY <1>1 DEF GoodJob
<1>3. /\ job[t].who \in Person /\ job[t].getRow.team = job[t].giveRow.team
      /\ job[t].giveRow = seat[job[t].give] /\ Owns(job[t].who, job[t].giveRow)
      /\ job[t].getRow = seat[job[t].get] /\ job[t].getRow.player # Nobody
      /\ ~Owns(job[t].who, job[t].getRow)
  BY <1>1 DEF Current
<1>4. QED
  BY <1>2, <1>3 DEF ProposeInsert, ForeignKeysHold, Propose

\* The writes.
LEMMA WritesSolo ==
  ASSUME OneThread, SoloInv, NEW t \in Thread,
         ProposeInsert(t) \/ AcceptWrite(t) \/ DeclineWrite(t) \/ ExpireWrite(t)
  PROVE  IInv' /\ \A u \in Thread : Current(job[u])'
<1>1. job[t] \in GoodJob /\ job[t] \in Job /\ Current(job[t])
  BY DEF SoloInv, RaceInv, GoodJob
<1>2. CASE ProposeInsert(t)
  <2>1. IInv'
    BY <1>2, InsertProposes, ProposeInv DEF SoloInv
  <2>0. PICK j : j = [job[t] EXCEPT !.pc = "target", !.get = None, !.getRow = None]
    OBVIOUS
  <2>2. /\ job' = [job EXCEPT ![t] = j] /\ job[t].pc = "insert" /\ seat' = seat
    BY <2>0, <1>2 DEF ProposeInsert, At
  <2>3. /\ j.pc = "target" /\ j.who = job[t].who
        /\ j.give = job[t].give /\ j.giveRow = job[t].giveRow
    BY <2>0, <1>1 DEF Job
  <2>4. Current(j)'
    BY <1>1, <2>2, <2>3 DEF Current, Answering
  <2>5. QED
    BY <2>1, <2>2, <2>4, OnlyJob DEF SoloInv
<1>3. CASE AcceptWrite(t)
  <2>1. Takes(job[t].id) /\ job[t].id \in Id
    BY <1>3, AcceptTakes, PendingSeats DEF Takes, SoloInv
  <2>2. IInv'
    BY <2>1, AcceptInv DEF SoloInv
  <2>0. PICK j : j = [job[t] EXCEPT !.pc = "mail"]
    OBVIOUS
  <2>3. /\ job' = [job EXCEPT ![t] = j] /\ job[t].told = job[t].terms.give.player
        /\ job[t].who \in Person
    BY <2>0, <1>3, AcceptTakes DEF AcceptWrite, Goto
  <2>4. /\ j.pc = "mail" /\ j.who = job[t].who /\ j.told = job[t].told
        /\ j.terms = job[t].terms
    BY <2>0, <1>1 DEF Job
  <2>5. Current(j)'
    BY <2>3, <2>4 DEF Current, Answering
  <2>6. QED
    BY <2>2, <2>3, <2>5, OnlyJob DEF SoloInv
<1>4. CASE DeclineWrite(t) \/ ExpireWrite(t)
  <2>1. PICK status \in {"declined", "expired"}, next \in {"return", "decline_told"} :
          /\ Resolve(t, status, next)
          /\ job[t].pc \in {"decline_write", "expire"}
    BY <1>4 DEF DeclineWrite, ExpireWrite, At
  <2>2. job[t].id \in Pending
    BY <1>1, <2>1 DEF Current, Answering
  <2>3. /\ swap' = SettleAll({job[t].id}, status) /\ seat' = seat
        /\ IF next = "return" THEN Return(t) ELSE Goto(t, next)
    BY <2>1, <2>2 DEF Resolve, Pending
  <2>4. IInv'
    BY <2>2, <2>3, SettleInv DEF SoloInv, Status
  <2>5. CASE next = "return"
    BY <2>3, <2>4, <2>5, OnlyJob, IdleIsCurrent DEF Return, SoloInv
  <2>6. CASE next = "decline_told"
    <3>0. PICK j : j = [job[t] EXCEPT !.pc = "decline_told"]
      OBVIOUS
    <3>1. job' = [job EXCEPT ![t] = j]
      BY <3>0, <2>3, <2>6 DEF Goto
    <3>2. /\ j.pc = "decline_told" /\ j.who = job[t].who /\ j.give = job[t].give
          /\ j.terms = job[t].terms
      BY <3>0, <1>1 DEF Job
    <3>3. /\ job[t].who \in Person
          /\ seat[job[t].give] = job[t].terms.give
      BY <1>1, <2>1, <2>2 DEF Current, Answering, SoloInv, IInv, PendingAsOffered
    <3>4. Current(j)'
      BY <2>3, <3>2, <3>3 DEF Current, Answering
    <3>5. QED
      BY <2>4, <3>1, <3>4, OnlyJob DEF SoloInv
  <2>7. QED
    BY <2>5, <2>6
<1>5. QED
  BY <1>2, <1>3, <1>4

\* Time passes, or an admin acts while no handler runs.
LEMMA OthersSolo ==
  ASSUME OneThread, SoloInv, TimePasses \/ \E t \in Thread : AdminRequest(t)
  PROVE  IInv' /\ \A u \in Thread : Current(job[u])'
<1>1. CASE TimePasses
  <2>1. PICK i \in Id : Age(i) /\ job' = job
    BY <1>1 DEF TimePasses
  <2>2. IInv' /\ seat' = seat
    BY <2>1, AgeInv DEF SoloInv, Age
  <2>3. i \in Used /\ swap[i] \in Request
    BY <2>1, PendingSeats DEF Age, Pending, SoloInv
  <2>4. swap'[i] = [swap[i] EXCEPT !.stale = TRUE] /\ \A k \in Id : k # i => swap'[k] = swap[k]
    BY <2>1 DEF Age, SoloInv, IInv, RowsTypeOK
  <2>5. ASSUME NEW k \in Pending
        PROVE  /\ k \in Pending' /\ swap'[k].give = swap[k].give /\ swap'[k].get = swap[k].get
               /\ swap'[k].terms = swap[k].terms
               /\ swap[k].stale => swap'[k].stale
    <3>1. CASE k = i
      <4>1. /\ swap'[k].give = swap[k].give /\ swap'[k].get = swap[k].get
            /\ swap'[k].terms = swap[k].terms /\ swap'[k].status = swap[k].status
            /\ swap'[k].stale
        BY <2>3, <2>4, <3>1 DEF Request
      <4>2. swap'[k] # NoRow
        <5>1. swap'[k] \in Request
          BY <2>3, <2>4, <3>1 DEF Request
        <5>2. QED
          BY <5>1, ConstantsOK
      <4>3. QED
        BY <4>1, <4>2 DEF Pending, Used
    <3>2. CASE k # i
      BY <2>4, <3>2 DEF Pending, Used
    <3>3. QED
      BY <3>1, <3>2
  <2>6. ASSUME NEW u \in Thread PROVE Current(job[u])'
    <3>1. PICK j : j = job[u]
      OBVIOUS
    <3>2. Current(j) /\ job'[u] = j
      BY <2>1, <3>1 DEF SoloInv
    <3>3. Current(j)'
      BY <2>2, <2>5, <3>2 DEF Current, Answering
    <3>4. QED
      BY <3>2, <3>3 DEF Current
  <2>7. QED
    BY <2>2, <2>6
<1>2. CASE \E t \in Thread : AdminRequest(t)
  <2>1. PICK t \in Thread : job[t] = Idle /\ Admin /\ job' = job
    BY <1>2 DEF AdminRequest
  <2>2. IInv'
    BY <2>1, AdminType, AdminOffers, AdminTeams DEF SoloInv, IInv
  <2>3. \A u \in Thread : job'[u] = Idle
    BY <2>1 DEF OneThread
  <2>4. \A u \in Thread : Current(job[u])'
    BY <2>3, IdleIsCurrent DEF Current
  <2>5. QED
    BY <2>2, <2>4
<1>3. QED
  BY <1>1, <1>2

\* Reading rows changes none of what is known of them.
LEMMA ReadingKeepsOffers ==
  ASSUME IInv, UNCHANGED rows
  PROVE  IInv'
BY DEF rows, IInv, RowsTypeOK, PairsInTeam, PendingAsOffered, SeatsStayInTeam, Pending,
       Used, Live, InTeam

LEMMA SoloInit == Init => SoloInv
<1>1. SUFFICES ASSUME Init PROVE SoloInv
  OBVIOUS
<1>2. RaceInv /\ Pending = {}
  BY <1>1, RaceInit DEF Init, RowsInit, Pending, Used
<1>3. SeatsStayInTeam
  BY <1>1, InitTeams
<1>4. IInv
  BY <1>2, <1>3 DEF RaceInv, RowsOK, IInv, PairsInTeam, PendingAsOffered
<1>5. QED
  BY <1>1, <1>2, <1>4, IdleIsCurrent DEF Init, SoloInv

LEMMA SoloStep ==
  ASSUME OneThread
  PROVE  SoloInv /\ [HandlerNext]_handlerVars => SoloInv'
<1>1. SUFFICES ASSUME SoloInv, [HandlerNext]_handlerVars PROVE SoloInv'
  OBVIOUS
<1>2. RaceInv'
  BY <1>1, RaceStep DEF SoloInv
<1>3. IInv' /\ \A u \in Thread : Current(job[u])'
  <2>1. CASE \E t \in Thread : Handler(t)
    <3>1. PICK t \in Thread : Handler(t)
      BY <2>1
    <3>2. CASE \/ \E p \in Person, s \in Slot : ProposeReadOwn(t, p, s)
               \/ \E p \in Person, i \in Id : Answer(t, p, i)
      <4>1. UNCHANGED rows
        BY <3>2 DEF ProposeReadOwn, Answer, AcceptReadRequest, DeclineReadRequest, ReadRequest
      <4>2. QED
        BY <1>1, <3>2, <4>1, StartsCurrent, ReadingKeepsOffers DEF SoloInv
    <3>3. CASE UNCHANGED rows /\ Return(t)
      BY <1>1, <3>3, OnlyJob, IdleIsCurrent, ReadingKeepsOffers DEF Return, SoloInv
    <3>4. CASE UNCHANGED rows /\ (\/ \E g \in Slot : ProposeReadTarget(t, g)
                                  \/ AcceptReadProposerSlot(t) \/ AcceptReadTargetSlot(t)
                                  \/ DeclineReadTargetSlot(t) \/ DeclineReadProposerSlot(t))
      BY <1>1, <3>4, ReadsCurrent, ReadingKeepsOffers DEF SoloInv
    <3>5. CASE ProposeInsert(t) \/ AcceptWrite(t) \/ DeclineWrite(t) \/ ExpireWrite(t)
      BY <1>1, <3>5, WritesSolo
    <3>6. QED
      BY <3>1, <3>2, <3>3, <3>4, <3>5, HandlerSteps
  <2>2. CASE TimePasses \/ \E t \in Thread : AdminRequest(t)
    BY <1>1, <2>2, OthersSolo
  <2>3. CASE UNCHANGED handlerVars
    <3>1. UNCHANGED rows /\ job' = job /\ Pending' = Pending
      BY <2>3 DEF handlerVars, rows, Pending, Used
    <3>2. \A u \in Thread : Current(job[u])'
      BY <1>1, <3>1 DEF SoloInv, Current, rows
    <3>3. QED
      BY <1>1, <3>1, <3>2, ReadingKeepsOffers DEF SoloInv
  <2>4. QED
    BY <1>1, <2>1, <2>2, <2>3 DEF HandlerNext
<1>4. QED
  BY <1>2, <1>3 DEF SoloInv

LEMMA SoloInvariance == ASSUME OneThread PROVE HandlerSpec => []SoloInv
BY SoloInit, SoloStep, PTL DEF HandlerSpec

\* With one handler at a time, the answer is mailed to the family that made
\* the offer, wherever accepting has moved it.
THEOREM AnswersComeBack == ASSUME OneThread PROVE HandlerSpec => []AnswerReachesProposer
<1>1. SoloInv => AnswerReachesProposer
  BY DEF SoloInv, Current, AnswerReachesProposer, At
<1>2. QED
  BY <1>1, SoloInvariance, PTL

-----------------------------------------------------------------------------
(* One thread implements SwapBook.  BookSwap is the request rows with one  *)
(* difference: a request that a handler has judged young does not get old  *)
(* before the handler is done with it.                                     *)

\* Which request is judged, with one thread.
LEMMA JudgedByOne ==
  ASSUME OneThread, NEW t \in Thread
  PROVE  /\ \A i \in Id : Judged(i) <=> job[t].id = i /\ job[t].pc \in Judging
         /\ \A i \in Id : Judged(i)' <=> job'[t].id = i /\ job'[t].pc \in Judging
BY DEF OneThread, Judged, Judging, Answering

\* Nothing is judged: the book's requests are the rows.
LEMMA Unjudged ==
  ASSUME RowsTypeOK, \A i \in Id : ~Judged(i)
  PROVE  BookSwap = swap
BY DEF BookSwap, RowsTypeOK

LEMMA UnjudgedNext ==
  ASSUME RowsTypeOK', \A i \in Id : ~Judged(i)'
  PROVE  BookSwap' = swap'
<1>1. swap' = [i \in Id |-> swap'[i]]
  BY DEF RowsTypeOK
<1>2. BookSwap' = [i \in Id |-> swap'[i]]
  BY DEF BookSwap
<1>3. QED
  BY <1>1, <1>2

\* The book's requests and the rows differ in their age only.
LEMMA BookRows ==
  ASSUME RowsTypeOK
  PROVE  /\ BookSwap \in [Id -> Request \union {NoRow}]
         /\ Book!Used = Used /\ Book!Pending = Pending
         /\ \A S : Book!Touching(S) = Touching(S)
         /\ \A i \in Used : /\ BookSwap[i].give = swap[i].give
                            /\ BookSwap[i].get = swap[i].get
         /\ \A i \in Id : ~(i \in Pending /\ Judged(i)) => BookSwap[i] = swap[i]
         /\ \A i \in Pending : Judged(i) => BookSwap[i] = [swap[i] EXCEPT !.stale = FALSE]
<1>1. ASSUME NEW i \in Pending, Judged(i)
      PROVE  /\ BookSwap[i] = [swap[i] EXCEPT !.stale = FALSE]
             /\ BookSwap[i] \in Request /\ BookSwap[i] # NoRow
             /\ BookSwap[i].status = "pending"
             /\ BookSwap[i].give = swap[i].give /\ BookSwap[i].get = swap[i].get
  <2>1. i \in Id /\ swap[i] \in Request /\ swap[i].status = "pending"
    BY RowTypes DEF Pending
  <2>2. BookSwap[i] = [swap[i] EXCEPT !.stale = FALSE]
    BY <1>1, <2>1 DEF BookSwap
  <2>3. /\ BookSwap[i] \in Request
        /\ BookSwap[i].status = "pending"
        /\ BookSwap[i].give = swap[i].give /\ BookSwap[i].get = swap[i].get
    BY <2>1, <2>2 DEF Request
  <2>4. QED
    BY <2>2, <2>3, ConstantsOK
<1>2. \A i \in Id : ~(i \in Pending /\ Judged(i)) => BookSwap[i] = swap[i]
  BY DEF BookSwap
<1>3. BookSwap \in [Id -> Request \union {NoRow}]
  <2>1. \A i \in Id : BookSwap[i] \in Request \union {NoRow}
    BY <1>1, <1>2 DEF RowsTypeOK
  <2>2. QED
    BY <2>1 DEF BookSwap
<1>4. Book!Used = Used
  BY <1>1, <1>2 DEF Book!Used, Book!Id, Used, Id, Pending
<1>5. Book!Pending = Pending
  BY <1>1, <1>2, <1>4 DEF Book!Pending, Pending, Used
<1>6. \A i \in Used : BookSwap[i].give = swap[i].give /\ BookSwap[i].get = swap[i].get
  BY <1>1, <1>2 DEF Used
<1>7. \A S : Book!Touching(S) = Touching(S)
  BY <1>4, <1>6 DEF Book!Touching, Touching
<1>8. QED
  BY <1>1, <1>2, <1>3, <1>4, <1>5, <1>6, <1>7

\* A request the book still takes for young gets old there when its handler
\* stops without an answer.
LEMMA BookAges ==
  ASSUME SoloInv, NEW i \in Pending,
         BookSwap' = [BookSwap EXCEPT ![i] = swap[i]], UNCHANGED seat
  PROVE  Book!Age(i) \/ BookSwap' = BookSwap
<1>1. i \in Id /\ swap[i] \in Request
  BY PendingSeats DEF SoloInv
<1>2. CASE BookSwap[i] = swap[i]
  BY <1>1, <1>2, BookRows DEF SoloInv, IInv
<1>3. CASE BookSwap[i] # swap[i]
  <2>1. BookSwap[i] = [swap[i] EXCEPT !.stale = FALSE]
    BY <1>1, <1>3, BookRows DEF SoloInv, IInv
  <2>2. swap[i].stale = TRUE
    BY <1>1, <1>3, <2>1 DEF Request
  <2>3. swap[i] = [BookSwap[i] EXCEPT !.stale = TRUE] /\ ~BookSwap[i].stale
    BY <1>1, <2>1, <2>2 DEF Request
  <2>4. QED
    BY <2>3, BookRows DEF Book!Age, SoloInv, IInv
<1>4. QED
  BY <1>2, <1>3

\* Reading and returning is nothing to the book, or a request getting old.
LEMMA ReadingAges ==
  ASSUME OneThread, SoloInv, NEW t \in Thread, UNCHANGED rows,
         \/ job'[t].pc \notin Judging
         \/ job'[t].pc \in Judging /\ job[t].pc \in Judging /\ job'[t].id = job[t].id
  PROVE  UNCHANGED <<seat, BookSwap>> \/ \E i \in Id : Book!Age(i)
<1>1. seat' = seat /\ swap' = swap /\ Pending' = Pending /\ RowsTypeOK /\ RowsTypeOK'
  BY DEF rows, Pending, Used, SoloInv, IInv, RowsTypeOK
<1>2. CASE job'[t].pc \in Judging
  <2>1. \A i \in Id : Judged(i)' <=> Judged(i)
    BY <1>2, JudgedByOne DEF OneThread
  <2>2. QED
    BY <1>1, <2>1 DEF BookSwap
<1>3. CASE job'[t].pc \notin Judging /\ job[t].pc \notin Judging
  <2>1. (\A i \in Id : ~Judged(i)) /\ (\A i \in Id : ~Judged(i)')
    BY <1>3, JudgedByOne
  <2>2. QED
    BY <1>1, <2>1, Unjudged, UnjudgedNext
<1>4. CASE job'[t].pc \notin Judging /\ job[t].pc \in Judging
  <2>1. job[t].id \in Pending /\ job[t].id \in Id
    BY <1>4, PendingSeats DEF SoloInv, Current, Judging
  <2>2. BookSwap' = swap
    BY <1>1, <1>4, JudgedByOne, UnjudgedNext
  <2>3. \A i \in Id : i # job[t].id => BookSwap[i] = swap[i]
    BY <1>1, JudgedByOne, BookRows
  <2>4. BookSwap' = [BookSwap EXCEPT ![job[t].id] = swap[job[t].id]]
    BY <1>1, <2>1, <2>2, <2>3, BookRows DEF RowsTypeOK
  <2>5. QED
    BY <1>1, <2>1, <2>4, BookAges
<1>5. QED
  BY <1>2, <1>3, <1>4

\* The insert of a request is the book's Propose.
LEMMA InsertIsPropose ==
  ASSUME OneThread, SoloInv, SoloInv', NEW t \in Thread, ProposeInsert(t)
  PROVE  \E p \in Person, s, g \in Slot : Book!Propose(p, s, g)
<1>1. /\ job[t].who \in Person /\ job[t].give \in Slot /\ job[t].get \in Slot
      /\ Propose(job[t].who, job[t].give, job[t].get)
  BY InsertProposes
<1>2. job[t].pc = "insert" /\ job'[t].pc = "target"
  <2>1. job[t] \in Job /\ job \in [Thread -> GoodJob]
    BY DEF SoloInv, RaceInv, GoodJob
  <2>2. QED
    BY <2>1 DEF ProposeInsert, At, Job
<1>3. BookSwap = swap /\ BookSwap' = swap'
  BY <1>2, JudgedByOne, Unjudged, UnjudgedNext DEF SoloInv, IInv, Judging, Answering
<1>4. Book!Propose(job[t].who, job[t].give, job[t].get)
  BY <1>1, <1>3
     DEF Propose, Book!Propose, Owns, Book!Owns, Live, Book!Live, IsNextId, Book!IsNextId,
         Used, Book!Used, Id, Book!Id, NewRequest, Book!NewRequest
<1>5. QED
  BY <1>1, <1>4

\* Settling overwrites the age: it gives the same row in the book.
LEMMA SettleInBook ==
  ASSUME SoloInv, NEW i \in Used, NEW status
  PROVE  Book!Settle(BookSwap[i], status) = Settle(swap[i], status)
<1>1. i \in Id /\ swap[i] \in Request
  BY RowTypes DEF SoloInv, IInv
<1>2. CASE i \in Pending /\ Judged(i)
  <2>1. BookSwap[i] = [swap[i] EXCEPT !.stale = FALSE]
    BY <1>2, BookRows DEF SoloInv, IInv
  <2>2. QED
    BY <1>1, <2>1 DEF Settle, Book!Settle, Request
<1>3. CASE ~(i \in Pending /\ Judged(i))
  <2>1. BookSwap[i] = swap[i]
    BY <1>1, <1>3, BookRows DEF SoloInv, IInv
  <2>2. QED
    BY <2>1 DEF Settle, Book!Settle
<1>4. QED
  BY <1>2, <1>3

\* The request a handler is about to write to, as the book has it.
LEMMA BookRequest ==
  ASSUME OneThread, SoloInv, NEW t \in Thread, job[t].pc \in Judging
  PROVE  /\ job[t].id \in Book!Pending /\ job[t].id \in Id
         /\ ~BookSwap[job[t].id].stale
         /\ BookSwap[job[t].id].give = swap[job[t].id].give
         /\ BookSwap[job[t].id].get = swap[job[t].id].get
         /\ \A k \in Id : k # job[t].id => BookSwap[k] = swap[k]
<1> DEFINE i == job[t].id
<1>1. i \in Pending /\ i \in Id /\ swap[i] \in Request /\ RowsTypeOK
  BY PendingSeats DEF SoloInv, Current, Judging, IInv
<1>2. Judged(i) /\ \A k \in Id : k # i => ~Judged(k)
  BY <1>1, JudgedByOne
<1>3. BookSwap[i] = [swap[i] EXCEPT !.stale = FALSE] /\ i \in Book!Pending
  BY <1>1, <1>2, BookRows
<1>4. ~BookSwap[i].stale /\ BookSwap[i].give = swap[i].give /\ BookSwap[i].get = swap[i].get
  BY <1>1, <1>3 DEF Request
<1>5. QED
  BY <1>1, <1>2, <1>3, <1>4, BookRows

\* The write of an accept is the book's Accept.
LEMMA WriteIsAccept ==
  ASSUME OneThread, SoloInv, SoloInv', NEW t \in Thread, AcceptWrite(t)
  PROVE  \E p \in Person, i \in Id : Book!Accept(p, i)
<1> DEFINE i == job[t].id
<1>1. /\ job[t].pc = "accept_write" /\ job'[t].pc = "mail"
  <2>1. job[t] \in Job /\ job \in [Thread -> GoodJob]
    BY DEF SoloInv, RaceInv, GoodJob
  <2>2. QED
    BY <2>1 DEF AcceptWrite, At, Goto, Job
<1>2. /\ Takes(i) /\ Owns(job[t].who, seat[swap[i].get]) /\ job[t].who \in Person
  BY AcceptTakes
<1>3. /\ i \in Book!Pending /\ i \in Id /\ ~BookSwap[i].stale
      /\ BookSwap[i].give = swap[i].give /\ BookSwap[i].get = swap[i].get
      /\ \A k \in Id : k # i => BookSwap[k] = swap[k]
  BY <1>1, BookRequest DEF Judging, Answering
<1>4. BookSwap' = swap'
  BY <1>1, JudgedByOne, UnjudgedNext DEF SoloInv, IInv, Judging, Answering
<1>5. Book!Superseded(i) = Superseded(i) /\ Superseded(i) \subseteq Used /\ i \in Used
  BY <1>2, <1>3, BookRows DEF Book!Superseded, Superseded, Touching, Takes, Pending, SoloInv, IInv
<1> HIDE DEF i
<1>6. BookSwap' = [j \in Id |-> IF j = i THEN Book!Settle(BookSwap[j], "accepted")
                                ELSE IF j \in Book!Superseded(i)
                                THEN Book!Settle(BookSwap[j], "declined")
                                ELSE BookSwap[j]]
  <2>1. ASSUME NEW j \in Id
        PROVE  (IF j = i THEN Settle(swap[j], "accepted")
                ELSE IF j \in Superseded(i) THEN Settle(swap[j], "declined") ELSE swap[j])
             = (IF j = i THEN Book!Settle(BookSwap[j], "accepted")
                ELSE IF j \in Book!Superseded(i) THEN Book!Settle(BookSwap[j], "declined")
                ELSE BookSwap[j])
    BY <1>3, <1>5, SettleInBook
  <2>2. QED
    BY <1>2, <1>4, <2>1 DEF Takes
<1>7. Book!Accept(job[t].who, i)
  <2>1. seat' = Book!Exchange(BookSwap[i].give, BookSwap[i].get)
    BY <1>2, <1>3 DEF Takes, Exchange, Book!Exchange
  <2>2. Book!Owns(job[t].who, seat[BookSwap[i].get])
    BY <1>2, <1>3 DEF Owns, Book!Owns
  <2>3. QED
    BY <1>3, <1>6, <2>1, <2>2 DEF Book!Accept, Book!Id, Id
<1>8. QED
  BY <1>2, <1>3, <1>7

\* The writes of a decline and of an expiry are the book's.
LEMMA WriteIsDecline ==
  ASSUME OneThread, SoloInv, SoloInv', NEW t \in Thread, DeclineWrite(t)
  PROVE  \E p \in Person, i \in Id : Book!Decline(p, i)
<1> DEFINE i == job[t].id
<1>1. /\ job[t].pc = "decline_write" /\ job[t] \in Job /\ job \in [Thread -> GoodJob]
      /\ job[t] \in GoodJob /\ Current(job[t])
  BY DEF SoloInv, RaceInv, GoodJob, DeclineWrite, At
<1>2. /\ i \in Pending /\ job[t].who \in Person /\ job[t].get = swap[i].get
      /\ Owns(job[t].who, seat[job[t].get])
  BY <1>1 DEF Current, Answering
<1>3. swap' = SettleAll({i}, "declined") /\ seat' = seat /\ Goto(t, "decline_told")
  BY <1>2 DEF DeclineWrite, Resolve, Pending
<1>4. job'[t].pc = "decline_told"
  BY <1>1, <1>3 DEF Goto, Job
<1>5. /\ i \in Book!Pending /\ i \in Id /\ ~BookSwap[i].stale
      /\ BookSwap[i].give = swap[i].give /\ BookSwap[i].get = swap[i].get
      /\ \A k \in Id : k # i => BookSwap[k] = swap[k]
  BY <1>1, BookRequest DEF Judging, Answering
<1>6. BookSwap' = swap'
  BY <1>4, JudgedByOne, UnjudgedNext DEF SoloInv, IInv, Judging, Answering
<1>7. i \in Used
  BY <1>2 DEF Pending
<1> HIDE DEF i
<1>8. BookSwap' = Book!SettleAll({i}, "declined")
  <2>1. \A k \in Id : (IF k \in {i} THEN Settle(swap[k], "declined") ELSE swap[k])
                    = (IF k \in {i} THEN Book!Settle(BookSwap[k], "declined") ELSE BookSwap[k])
    BY <1>5, <1>7, SettleInBook
  <2>2. QED
    BY <1>3, <1>6, <2>1 DEF SettleAll, Book!SettleAll, Id, Book!Id
<1>9. Book!Decline(job[t].who, i)
  BY <1>2, <1>3, <1>5, <1>8 DEF Book!Decline, Owns, Book!Owns
<1>10. QED
  BY <1>2, <1>5, <1>9

LEMMA WriteIsExpiry ==
  ASSUME OneThread, SoloInv, SoloInv', NEW t \in Thread, ExpireWrite(t)
  PROVE  \E i \in Id : Book!ExpireOnAnswer(i)
<1> DEFINE i == job[t].id
<1>1. job[t].pc = "expire" /\ job \in [Thread -> GoodJob] /\ Current(job[t])
  BY DEF SoloInv, RaceInv, ExpireWrite, At
<1>2. i \in Pending /\ swap[i].stale /\ i \in Id
  BY <1>1, PendingSeats DEF Current, Answering, SoloInv
<1>3. swap' = SettleAll({i}, "expired") /\ seat' = seat /\ Return(t)
  BY <1>2 DEF ExpireWrite, Resolve, Pending
<1>4. job'[t].pc = "idle"
  BY <1>1, <1>3, IdleIsGood DEF Return
<1>5. BookSwap' = swap' /\ BookSwap = swap
  BY <1>1, <1>4, JudgedByOne, Unjudged, UnjudgedNext DEF SoloInv, IInv, Judging, Answering
<1>6. i \in Book!Pending
  BY <1>2, BookRows DEF SoloInv, IInv
<1>7. BookSwap' = Book!SettleAll({i}, "expired")
  BY <1>3, <1>5 DEF SettleAll, Book!SettleAll, Settle, Book!Settle, Id, Book!Id
<1>8. Book!ExpireOnAnswer(i)
  BY <1>2, <1>3, <1>5, <1>6, <1>7 DEF Book!ExpireOnAnswer
<1>9. QED
  BY <1>2, <1>8

\* An admin's step between two handlers is the book's.
LEMMA AdminIsAdmin ==
  ASSUME OneThread, SoloInv, SoloInv', NEW t \in Thread, AdminRequest(t)
  PROVE  Book!Admin
<1>1. job[t].pc = "idle" /\ job' = job /\ Admin
  BY IdleIsGood DEF AdminRequest
<1>2. BookSwap = swap /\ BookSwap' = swap'
  BY <1>1, JudgedByOne, Unjudged, UnjudgedNext DEF SoloInv, IInv, Judging, Answering
<1>3. /\ Book!Pending = Pending /\ \A S : Book!Touching(S) = Touching(S)
      /\ Book!Live = Live
  BY BookRows DEF SoloInv, IInv, Book!Live, Live
<1>4. ASSUME NEW changed, NEW deleted, CancelSwaps(changed, deleted)
      PROVE  Book!CancelSwaps(changed, deleted)
  BY <1>2, <1>3, <1>4 DEF CancelSwaps, Book!CancelSwaps, Settle, Book!Settle, Id, Book!Id
<1>5. \A S : OneShift(S) => Book!OneShift(S)
  BY <1>3 DEF OneShift, Book!OneShift
<1>6. \A s, x : InTeam(s, x) => Book!InTeam(s, x)
  BY DEF InTeam, Book!InTeam
<1>7. CASE \E S \in SUBSET Slot, shift \in Shift : MoveSlots(S, shift)
  BY <1>4, <1>5, <1>7 DEF MoveSlots, Book!MoveSlots, Book!Admin
<1>8. CASE \E s \in Slot, x \in Player \union {Nobody}, shift \in Shift :
             ReplacePlayer(s, x, shift)
  BY <1>3, <1>4, <1>6, <1>8 DEF ReplacePlayer, Book!ReplacePlayer, Book!Admin
<1>9. CASE \E S \in SUBSET Slot : DeleteSlots(S)
  BY <1>4, <1>5, <1>9 DEF DeleteSlots, Book!DeleteSlots, Book!Admin
<1>10. CASE \E s \in Slot, x \in Player : AssignSlot(s, x)
  BY <1>2, <1>3, <1>6, <1>10 DEF AssignSlot, Book!AssignSlot, Book!Admin
<1>11. CASE \E S \in SUBSET Slot, team \in Team : \E shifts \in [S -> Shift] :
              CreateSlots(S, team, shifts)
  <2>1. PICK S \in SUBSET Slot, team \in Team : \E shifts \in [S -> Shift] :
          CreateSlots(S, team, shifts)
    BY <1>11
  <2>2. PICK shifts \in [S -> Shift] : CreateSlots(S, team, shifts)
    BY <2>1
  <2>3. Book!CreateSlots(S, team, shifts)
    BY <1>2, <1>3, <2>2 DEF CreateSlots, Book!CreateSlots, AreNextSlots, Book!AreNextSlots
  <2>4. QED
    BY <2>3 DEF Book!Admin
<1>12. QED
  BY <1>1, <1>7, <1>8, <1>9, <1>10, <1>11 DEF Admin

\* A request that gets old while no handler has judged it gets old in the book;
\* one that is being answered does not yet.
LEMMA TimeIsTime ==
  ASSUME SoloInv, SoloInv', TimePasses
  PROVE  UNCHANGED <<seat, BookSwap>> \/ \E i \in Id : Book!Age(i)
<1>1. PICK i \in Id : Age(i) /\ job' = job
  BY DEF TimePasses
<1>2. /\ i \in Pending /\ ~swap[i].stale /\ seat' = seat
      /\ swap' = [swap EXCEPT ![i].stale = TRUE] /\ RowsTypeOK
  BY <1>1 DEF Age, SoloInv, IInv
<1>2a. swap[i] \in Request
  BY <1>2, PendingSeats DEF SoloInv
<1>3. /\ swap'[i] = [swap[i] EXCEPT !.stale = TRUE]
      /\ \A k \in Id : k # i => swap'[k] = swap[k]
  BY <1>2 DEF RowsTypeOK
<1>4. swap'[i].status = swap[i].status /\ swap'[i] \in Request /\ swap'[i] # NoRow
  <2>1. swap'[i].status = swap[i].status /\ swap'[i] \in Request
    BY <1>3, <1>2a DEF Request
  <2>2. QED
    BY <2>1, ConstantsOK
<1>5. Pending' = Pending
  BY <1>2, <1>3, <1>4 DEF Pending, Used
<1>6. \A k : Judged(k)' <=> Judged(k)
  BY <1>1 DEF Judged
<1>7. CASE Judged(i)
  <2>1. [swap'[i] EXCEPT !.stale = FALSE] = [swap[i] EXCEPT !.stale = FALSE]
    BY <1>3, <1>2a DEF Request
  <2>2. ASSUME NEW k \in Id
        PROVE  (IF k \in Pending' /\ Judged(k)' THEN [swap'[k] EXCEPT !.stale = FALSE]
                ELSE swap'[k])
             = (IF k \in Pending /\ Judged(k) THEN [swap[k] EXCEPT !.stale = FALSE]
                ELSE swap[k])
    <3>1. CASE k = i
      BY <1>2, <1>5, <1>6, <1>7, <2>1, <3>1
    <3>2. CASE k # i
      BY <1>3, <1>5, <1>6, <3>2
    <3>3. QED
      BY <3>1, <3>2
  <2>3. BookSwap' = BookSwap
    BY <2>2 DEF BookSwap
  <2>4. QED
    BY <1>2, <2>3
<1>8. CASE ~Judged(i)
  <2>1. BookSwap[i] = swap[i] /\ i \in Book!Pending
    BY <1>2, <1>8, BookRows
  <2>2. \A k \in Id : BookSwap'[k] = IF k = i THEN swap'[i] ELSE BookSwap[k]
    BY <1>3, <1>5, <1>6, <1>8 DEF BookSwap
  <2>3. BookSwap' = [BookSwap EXCEPT ![i].stale = TRUE]
    BY <1>3, <2>1, <2>2 DEF BookSwap
  <2>4. QED
    BY <1>2, <2>1, <2>3 DEF Book!Age
<1>9. QED
  BY <1>7, <1>8

\* Run by one thread, the handlers implement SwapBook: a handler is one of
\* its operations, at the handler's write, or nothing.
THEOREM OneAtATime == ASSUME OneThread PROVE HandlerSpec => ImplementsBook
<1>1. Init => Book!RowsInit
  <2>1. SUFFICES ASSUME Init PROVE Book!RowsInit
    OBVIOUS
  <2>2. RowsTypeOK /\ Pending = {}
    BY <2>1, SoloInit DEF SoloInv, IInv, Init, RowsInit, Pending, Used
  <2>3. BookSwap = swap
    BY <2>2, BookRows DEF RowsTypeOK, BookSwap
  <2>4. QED
    BY <2>1, <2>3 DEF Init, RowsInit, Book!RowsInit, Id, Book!Id
<1>2. SoloInv /\ SoloInv' /\ [HandlerNext]_handlerVars => [Book!Next]_(Book!vars)
  <2>1. SUFFICES ASSUME SoloInv, SoloInv', [HandlerNext]_handlerVars
                 PROVE  Book!Next \/ UNCHANGED <<seat, BookSwap>>
    BY DEF Book!vars, Book!rows
  <2>2. CASE \E t \in Thread : Handler(t)
    <3>1. PICK t \in Thread : Handler(t)
      BY <2>2
    <3>2. job[t] \in GoodJob /\ job[t] \in Job /\ job \in [Thread -> GoodJob]
      BY <2>1 DEF SoloInv, RaceInv, GoodJob
    <3>3. CASE UNCHANGED rows
      <4>1. \/ job'[t].pc \notin Judging
            \/ job'[t].pc \in Judging /\ job[t].pc \in Judging /\ job'[t].id = job[t].id
            \/ \E p \in Person, i \in Id : Answer(t, p, i)
        <5>1. CASE \E p \in Person, s \in Slot : ProposeReadOwn(t, p, s)
          BY <3>2, <5>1 DEF ProposeReadOwn, Begin, Idle, Judging, Answering
        <5>2. CASE Return(t)
          BY <3>2, <5>2, IdleIsGood DEF Return, Judging, Answering
        <5>3. CASE \E g \in Slot : ProposeReadTarget(t, g)
          BY <3>2, <5>3 DEF ProposeReadTarget, Job, Judging, Answering
        <5>3a. CASE DeclineReadProposerSlot(t) /\ ~Return(t)
          <6>1. job'[t].pc = "mail"
            BY <3>2, <5>3a DEF DeclineReadProposerSlot, Job
          <6>2. QED
            BY <6>1 DEF Judging, Answering
        <5>4. CASE AcceptReadProposerSlot(t) \/ AcceptReadTargetSlot(t)
                     \/ DeclineReadTargetSlot(t)
          BY <3>2, <5>2, <5>4
             DEF AcceptReadProposerSlot, AcceptReadTargetSlot, DeclineReadTargetSlot, At,
                 Goto, Job, Judging, Answering
        <5>5. CASE ProposeInsert(t) \/ AcceptWrite(t) \/ DeclineWrite(t) \/ ExpireWrite(t)
          BY <3>2, <5>2, <5>5
             DEF ProposeInsert, AcceptWrite, DeclineWrite, ExpireWrite, Resolve, At, Goto,
                 Job, Judging, Answering
        <5>6. QED
          BY <3>1, <5>1, <5>2, <5>3, <5>4, <5>5, <5>3a, HandlerSteps
      <4>2. CASE \E p \in Person, i \in Id : Answer(t, p, i)
        <5>1. PICK p \in Person, i \in Id, next \in {"accept_give", "decline_get"} :
                ReadRequest(t, p, i, next)
          BY <4>2 DEF Answer, AcceptReadRequest, DeclineReadRequest
        <5>2. /\ job'[t].id = i
              /\ job'[t].pc = (IF swap[i].stale THEN "expire" ELSE next)
              /\ job[t].pc = "idle"
          BY <3>2, <5>1, IdleIsGood DEF ReadRequest, Begin, Idle
        <5>3. \A k \in Id : ~Judged(k)
          BY <5>2, <2>1, JudgedByOne DEF Judging, Answering
        <5>4. BookSwap = swap /\ i \in Pending
          BY <2>1, <5>1, <5>3, Unjudged DEF SoloInv, IInv, ReadRequest
        <5>5. \A k \in Id : Judged(k)' => k = i /\ ~swap[i].stale
          BY <5>2, <2>1, JudgedByOne DEF Judging, Answering
        <5>6. ~swap[i].stale => [swap[i] EXCEPT !.stale = FALSE] = swap[i]
          <6>1. swap[i] \in Request
            BY <2>1, <5>4, PendingSeats DEF SoloInv
          <6>2. QED
            BY <6>1 DEF Request
        <5>3a. BookSwap' = swap
          <6>1. Pending' = Pending /\ swap' = swap
            BY <3>3 DEF rows, Pending, Used
          <6>2. swap = [k \in Id |-> swap[k]]
            BY <2>1 DEF SoloInv, IInv, RowsTypeOK
          <6>3. QED
            BY <5>5, <5>6, <6>1, <6>2 DEF BookSwap
        <5>8. QED
          BY <3>3, <5>4, <5>3a DEF rows
      <4>3. CASE \/ job'[t].pc \notin Judging
                 \/ job'[t].pc \in Judging /\ job[t].pc \in Judging /\ job'[t].id = job[t].id
        BY <2>1, <3>3, <4>3, ReadingAges DEF Book!Next, Book!Id, Id
      <4>4. QED
        BY <4>1, <4>2, <4>3
    <3>4. CASE ProposeInsert(t) \/ AcceptWrite(t) \/ DeclineWrite(t) \/ ExpireWrite(t)
      BY <2>1, <3>4, InsertIsPropose, WriteIsAccept, WriteIsDecline, WriteIsExpiry
         DEF Book!Next, Book!Parents, Book!Id, Id
    <3>5. QED
      BY <3>1, <3>3, <3>4, HandlerSteps
         DEF ProposeReadOwn, Answer, AcceptReadRequest, DeclineReadRequest, ReadRequest
  <2>3. CASE \E t \in Thread : AdminRequest(t)
    BY <2>1, <2>3, AdminIsAdmin DEF Book!Next
  <2>4. CASE TimePasses
    BY <2>1, <2>4, TimeIsTime DEF Book!Next, Book!Id, Id
  <2>5. CASE UNCHANGED handlerVars
    BY <2>5 DEF handlerVars, BookSwap, Pending, Used, Judged
  <2>6. QED
    BY <2>1, <2>2, <2>3, <2>4, <2>5 DEF HandlerNext
<1>3. QED
  BY <1>1, <1>2, SoloInvariance, PTL DEF HandlerSpec, ImplementsBook, Book!Spec

-----------------------------------------------------------------------------
(* Two answers, or any number, to one offer.  With MaxId = 1 every accept  *)
(* is of the same request, and no admin deletes it: whatever the accepts   *)
(* have written, its two seats have the same two players, so copies of     *)
(* different players are the two that are there.                           *)

PairOn(j) == {seat[j.give].player, seat[j.get].player}

OfPair(j) ==
  /\ j.pc \in {"accept_give", "accept_get", "accept_write"} =>
       j.id \in Used /\ j.give = swap[j.id].give /\ j.get = swap[j.id].get
  /\ j.pc \in {"accept_get", "accept_write"} => j.giveRow.player \in PairOn(j)
  /\ j.pc = "accept_write" => j.getRow.player \in PairOn(j)

PairInv == RaceInv /\ \A t \in Thread : OfPair(job[t])

\* What the page lets parents do are steps of the handlers.
LEMMA PageIsHandler ==
  ASSUME NEW t \in Thread, PageHandler(t)
  PROVE  Handler(t)
BY DEF PageHandler, Handler, Incoming, Pending, Used

\* Without admins, requests stay, on their slots.
LEMMA RequestsStay ==
  ASSUME RaceInv, PageNext
  PROVE  \A i \in Used : /\ i \in Used'
                         /\ swap'[i].give = swap[i].give
                         /\ swap'[i].get = swap[i].get
<1> SUFFICES ASSUME NEW i \in Used
             PROVE  /\ i \in Used'
                    /\ swap'[i].give = swap[i].give /\ swap'[i].get = swap[i].get
  OBVIOUS
<1>1. i \in Id /\ swap[i] \in Request
  BY RowTypes DEF RaceInv, RowsOK
<1>2. ASSUME NEW status \in {"accepted", "declined", "expired"},
             swap'[i] = Settle(swap[i], status)
      PROVE  /\ i \in Used'
             /\ swap'[i].give = swap[i].give /\ swap'[i].get = swap[i].get
  BY <1>1, <1>2, SettleType, ConstantsOK DEF Used, Status
<1>3. CASE swap'[i] = swap[i]
  BY <1>3 DEF Used
<1>4. CASE TimePasses
  <2>1. PICK k \in Id : swap' = [swap EXCEPT ![k].stale = TRUE]
    BY <1>4 DEF TimePasses, Age
  <2>2. CASE k = i
    <3>1. swap'[i] = [swap[i] EXCEPT !.stale = TRUE]
      BY <1>1, <2>1, <2>2 DEF RaceInv, RowsOK, RowsTypeOK
    <3>2. /\ swap'[i] \in Request
          /\ swap'[i].give = swap[i].give /\ swap'[i].get = swap[i].get
      BY <1>1, <3>1 DEF Request
    <3>3. QED
      BY <1>1, <3>2, ConstantsOK DEF Used
  <2>3. CASE k # i
    BY <1>1, <1>3, <2>1, <2>3 DEF RaceInv, RowsOK, RowsTypeOK
  <2>4. QED
    BY <2>2, <2>3
<1>5. CASE \E t \in Thread : PageHandler(t)
  <2>1. PICK t \in Thread : Handler(t)
    BY <1>5, PageIsHandler
  <2>2. CASE UNCHANGED rows
    BY <1>3, <2>2 DEF rows
  <2>3. CASE ProposeInsert(t)
    BY <1>1, <1>3, <2>3 DEF ProposeInsert, IsNextId, Id, RaceInv, RowsOK, RowsTypeOK
  <2>4. CASE AcceptWrite(t)
    BY <1>1, <1>2, <1>3, <2>4 DEF AcceptWrite
  <2>5. CASE DeclineWrite(t) \/ ExpireWrite(t)
    <3>1. swap' = swap \/ \E status \in {"declined", "expired"} :
                            swap' = SettleAll({job[t].id}, status)
      BY <2>5 DEF DeclineWrite, ExpireWrite, Resolve
    <3>2. QED
      BY <1>1, <1>2, <1>3, <3>1 DEF SettleAll
  <2>6. QED
    BY <2>1, <2>2, <2>3, <2>4, <2>5, HandlerSteps
       DEF ProposeReadOwn, Answer, AcceptReadRequest, DeclineReadRequest, ReadRequest
<1>6. QED
  BY <1>4, <1>5 DEF PageNext

\* An accept leaves the two players on the two seats, one way or the other.
LEMMA AcceptKeepsPair ==
  ASSUME RaceInv, NEW t \in Thread, OfPair(job[t]), AcceptWrite(t),
         NEW g, g = job[t].give, NEW h, h = job[t].get
  PROVE  /\ g \in Live /\ h \in Live /\ g # h /\ Live' = Live
         /\ \A s \in Slot : s \notin {g, h} => seat'[s] = seat[s]
         /\ \/ seat' = seat
            \/ /\ seat[g].player # seat[h].player
               /\ seat'[g].player = seat[h].player
               /\ seat'[h].player = seat[g].player
            \/ /\ seat'[g].player = seat[g].player
               /\ seat'[h].player = seat[h].player
<1>1. /\ job[t].pc = "accept_write" /\ job[t].id \in Used
      /\ g = swap[job[t].id].give /\ h = swap[job[t].id].get
      /\ job[t].giveRow.player \in {seat[g].player, seat[h].player}
      /\ job[t].getRow.player \in {seat[g].player, seat[h].player}
      /\ seat' = Exchanged(job[t])
  BY DEF AcceptWrite, At, OfPair, PairOn
<1>2. g \in Live /\ h \in Live /\ g # h /\ g \in Slot /\ h \in Slot
  BY <1>1 DEF RaceInv, RowsOK, RequestsPaired, Live
<1>3. seat[g] \in Seat /\ seat[h] \in Seat
  BY <1>2, RowTypes DEF RaceInv, RowsOK
<1>4. CASE job[t].giveRow.player = job[t].getRow.player
  <2>1. seat' = [s \in Slot |-> seat[s]]
    BY <1>1, <1>4 DEF Exchanged, SlotsToWrite
  <2>2. seat' = seat
    BY <2>1 DEF RaceInv, RowsOK, RowsTypeOK
  <2>3. QED
    BY <1>2, <2>2 DEF Live
<1>5. CASE job[t].giveRow.player # job[t].getRow.player
  <2>1. /\ seat'[g] = [seat[g] EXCEPT !.player = job[t].getRow.player]
        /\ seat'[h] = [seat[h] EXCEPT !.player = job[t].giveRow.player]
        /\ \A s \in Slot : s \notin {g, h} => seat'[s] = seat[s]
    BY <1>1, <1>2, <1>5 DEF Exchanged, SlotsToWrite
  <2>2. /\ seat'[g] \in Seat /\ seat'[h] \in Seat
        /\ seat'[g].player = job[t].getRow.player
        /\ seat'[h].player = job[t].giveRow.player
    BY <1>1, <1>3, <2>1 DEF Seat
  <2>3. Live' = Live
    BY <1>2, <2>1, <2>2, ConstantsOK DEF Live
  <2>4. QED
    BY <1>1, <1>2, <1>5, <2>1, <2>2, <2>3
<1>6. QED
  BY <1>4, <1>5

\* A step that keeps the requests on their slots and the players of each pair
\* keeps what every thread knows of its pair.
LEMMA OthersOfPair ==
  ASSUME PairInv, PageNext, NEW u \in Thread, job'[u] = job[u],
         job[u].pc \in {"accept_give", "accept_get", "accept_write"} =>
           {seat'[job[u].give].player, seat'[job[u].get].player} = PairOn(job[u])
  PROVE  OfPair(job[u])'
<1>1. PICK j : j = job[u]
  OBVIOUS
<1>2. OfPair(j)
  BY <1>1 DEF PairInv
<1>3. \A i \in Used : i \in Used' /\ swap'[i].give = swap[i].give
                                  /\ swap'[i].get = swap[i].get
  BY RequestsStay DEF PairInv
<1>4. OfPair(j)'
  BY <1>1, <1>2, <1>3 DEF OfPair, PairOn
<1>5. QED
  BY <1>1, <1>4 DEF OfPair, PairOn

\* What the thread that moved knows of its pair.
LEMMA MoverOfPair ==
  ASSUME PairInv, NEW t \in Thread, PageHandler(t)
  PROVE  OfPair(job[t])'
<1>1. job[t] \in GoodJob /\ job[t] \in Job /\ job \in [Thread -> GoodJob] /\ OfPair(job[t])
  BY DEF PairInv, RaceInv, GoodJob
<1>2. SUFFICES ASSUME job'[t].pc \in {"accept_give", "accept_get", "accept_write"}
               PROVE  OfPair(job[t])'
  BY DEF OfPair
<1>3. Handler(t)
  BY PageIsHandler
<1>4. CASE \E p \in Person, i \in Id : Answer(t, p, i)
  <2>1. PICK p \in Person, i \in Id, next \in {"accept_give", "decline_get"} :
          ReadRequest(t, p, i, next)
    BY <1>4 DEF Answer, AcceptReadRequest, DeclineReadRequest
  <2>2. /\ job'[t].pc \in {"accept_give", "decline_get", "expire"} /\ job'[t].id = i
        /\ job'[t].give = swap[i].give /\ job'[t].get = swap[i].get
        /\ i \in Used /\ swap' = swap
    BY <1>1, <2>1 DEF ReadRequest, Begin, Idle, Pending, rows
  <2>3. QED
    BY <2>2 DEF OfPair, Used
<1>5. CASE AcceptReadProposerSlot(t) /\ ~Return(t)
  <2>1. job[t].pc = "accept_give" /\ swap' = swap /\ seat' = seat
    BY <1>5 DEF AcceptReadProposerSlot, At, rows
  <2>2. /\ job'[t].pc = "accept_get" /\ job'[t].id = job[t].id
        /\ job'[t].give = job[t].give /\ job'[t].get = job[t].get
        /\ job'[t].giveRow = seat[job[t].give]
    BY <1>1, <1>5 DEF AcceptReadProposerSlot, Job
  <2>3. QED
    BY <1>1, <2>1, <2>2 DEF OfPair, PairOn, Used
<1>6. CASE AcceptReadTargetSlot(t) /\ ~Return(t)
  <2>1. job[t].pc = "accept_get" /\ swap' = swap /\ seat' = seat
    BY <1>6 DEF AcceptReadTargetSlot, At, rows
  <2>2. /\ job'[t].pc = "accept_write" /\ job'[t].id = job[t].id
        /\ job'[t].give = job[t].give /\ job'[t].get = job[t].get
        /\ job'[t].giveRow = job[t].giveRow
        /\ job'[t].getRow = seat[job[t].get]
    BY <1>1, <1>6 DEF AcceptReadTargetSlot, Job
  <2>3. QED
    BY <1>1, <2>1, <2>2 DEF OfPair, PairOn, Used
<1>7. CASE Return(t)
  <2>1. job'[t].pc = "idle"
    BY <1>1, <1>7, IdleIsGood DEF Return
  <2>2. QED
    BY <1>2, <2>1
<1>8. CASE \/ \E p \in Person, s \in Slot : ProposeReadOwn(t, p, s)
           \/ \E g \in Slot : ProposeReadTarget(t, g)
           \/ ProposeInsert(t)
  <2>1. CASE \E p \in Person, s \in Slot : ProposeReadOwn(t, p, s)
    BY <1>1, <1>2, <2>1 DEF ProposeReadOwn, Begin, Idle
  <2>2. CASE \E g \in Slot : ProposeReadTarget(t, g)
    BY <1>1, <1>2, <2>2 DEF ProposeReadTarget, Job
  <2>3. CASE ProposeInsert(t)
    BY <1>1, <1>2, <2>3 DEF ProposeInsert, Job
  <2>4. QED
    BY <1>8, <2>1, <2>2, <2>3
<1>9. CASE (AcceptWrite(t) \/ DeclineReadProposerSlot(t)) /\ ~Return(t)
  <2>1. job'[t].pc = "mail"
    BY <1>1, <1>9 DEF AcceptWrite, DeclineReadProposerSlot, Goto, Job
  <2>2. QED
    BY <1>2, <2>1
<1>10. CASE (DeclineReadTargetSlot(t) \/ DeclineWrite(t) \/ ExpireWrite(t)) /\ ~Return(t)
  <2>1. Goto(t, "decline_write") \/ Goto(t, "decline_told")
    BY <1>10 DEF DeclineReadTargetSlot, DeclineWrite, ExpireWrite, Resolve
  <2>2. job'[t].pc \in {"decline_write", "decline_told"}
    BY <1>1, <2>1 DEF Goto, Job
  <2>3. QED
    BY <1>2, <2>2
<1>11. QED
  BY <1>3, <1>4, <1>5, <1>6, <1>7, <1>8, <1>9, <1>10, HandlerSteps

\* What a step of the page does to the seats: nothing, or an accept.
LEMMA OnlyAcceptsMove ==
  ASSUME PageNext, ~\E t \in Thread : AcceptWrite(t)
  PROVE  seat' = seat
<1>1. CASE TimePasses
  BY <1>1 DEF TimePasses, Age
<1>2. CASE \E t \in Thread : PageHandler(t)
  <2>1. PICK t \in Thread : Handler(t)
    BY <1>2, PageIsHandler
  <2>2. QED
    BY <2>1, HandlerSteps
       DEF ProposeReadOwn, Answer, AcceptReadRequest, DeclineReadRequest, ReadRequest, rows,
           ProposeInsert, DeclineWrite, ExpireWrite, Resolve
<1>3. QED
  BY <1>1, <1>2 DEF PageNext

LEMMA PairStep ==
  ASSUME MaxId = 1
  PROVE  PairInv /\ [PageNext]_handlerVars => PairInv'
<1>1. SUFFICES ASSUME PairInv, [PageNext]_handlerVars PROVE PairInv'
  OBVIOUS
<1>2. CASE UNCHANGED handlerVars
  <2>1. RaceInv'
    BY <1>1, <1>2, RaceStep DEF PairInv
  <2>2. \A t \in Thread : OfPair(job[t])'
    BY <1>1, <1>2 DEF PairInv, OfPair, PairOn, handlerVars, Used
  <2>3. QED
    BY <2>1, <2>2 DEF PairInv
<1>3. CASE TimePasses
  <2>1. RaceInv'
    BY <1>1, <1>3, RaceStep DEF PairInv, HandlerNext
  <2>2. \A u \in Thread : OfPair(job[u])'
    <3>1. seat' = seat /\ job' = job
      BY <1>3 DEF TimePasses, Age
    <3>2. QED
      BY <1>1, <1>3, <3>1, OthersOfPair DEF PageNext, PairOn
  <2>3. QED
    BY <2>1, <2>2 DEF PairInv
<1>4. CASE PageNext /\ \E t \in Thread : PageHandler(t)
  <2>1. PICK t \in Thread : PageHandler(t)
    BY <1>4
  <2>2. RaceInv'
    BY <1>1, <2>1, PageIsHandler, HandlerInv DEF PairInv
  <2>3. ASSUME NEW u \in Thread PROVE OfPair(job[u])'
    <3>1. CASE u = t
      BY <1>1, <2>1, <3>1, MoverOfPair
    <3>2. CASE u # t
      <4>1. job'[u] = job[u]
        BY <1>1, <2>1, <3>2, PageIsHandler, OtherJobsStay DEF PairInv
      <4>2. ASSUME job[u].pc \in {"accept_give", "accept_get", "accept_write"}
            PROVE  {seat'[job[u].give].player, seat'[job[u].get].player} = PairOn(job[u])
        <5>1. CASE ~\E v \in Thread : AcceptWrite(v)
          <6>1. seat' = seat
            BY <1>4, <5>1, OnlyAcceptsMove
          <6>2. QED
            BY <6>1 DEF PairOn
        <5>2. CASE \E v \in Thread : AcceptWrite(v)
          <6>1. PICK v \in Thread : AcceptWrite(v)
            BY <5>2
          <6>2. /\ job[u] \in GoodJob /\ job[v] \in GoodJob /\ job[v].pc = "accept_write"
                /\ OfPair(job[u]) /\ OfPair(job[v])
            BY <1>1, <6>1 DEF PairInv, RaceInv, AcceptWrite, At
          <6>3. job[u].id = 1 /\ job[v].id = 1
            <7>1. job[u].id \in Id /\ job[v].id \in Id
              BY <4>2, <6>2 DEF GoodJob, Answering
            <7>2. QED
              BY <7>1 DEF Id
          <6>4. job[u].give = job[v].give /\ job[u].get = job[v].get
            BY <4>2, <6>2, <6>3 DEF OfPair
          <6>5. QED
            BY <1>1, <6>1, <6>2, <6>4, AcceptKeepsPair DEF PairInv, PairOn
        <5>3. QED
          BY <5>1, <5>2
      <4>3. QED
        BY <1>1, <1>4, <4>1, <4>2, OthersOfPair
    <3>3. QED
      BY <3>1, <3>2
  <2>4. QED
    BY <2>2, <2>3 DEF PairInv
<1>5. QED
  BY <1>1, <1>2, <1>3, <1>4 DEF PageNext

LEMMA PairInit == Init => PairInv
BY RaceInit, IdleIsGood DEF Init, PairInv, OfPair

LEMMA PairInvariance == ASSUME MaxId = 1 PROVE ParentSpec => []PairInv
BY PairInit, PairStep, PTL DEF ParentSpec

\* Exchanging two players, or leaving them, changes nobody's number of duties.
LEMMA ExchangeKeepsDuties ==
  ASSUME IsFiniteSet(Slot), NEW x, NEW g \in Live, NEW h \in Live, Live' = Live,
         \A s \in Slot : s \notin {g, h} => seat'[s] = seat[s],
         \/ /\ seat[g].player # seat[h].player
            /\ seat'[g].player = seat[h].player
            /\ seat'[h].player = seat[g].player
         \/ /\ seat'[g].player = seat[g].player
            /\ seat'[h].player = seat[h].player
  PROVE  Duties(x)' = Duties(x)
<1> DEFINE Now == {s \in Live : seat[s].player = x}
           Then == {s \in Live : seat'[s].player = x}
<1>1. Duties(x) = Cardinality(Now) /\ Duties(x)' = Cardinality(Then)
  BY DEF Duties
<1>2. IsFiniteSet(Now)
  <2>1. Now \in SUBSET Slot
    BY DEF Live
  <2>2. QED
    BY <2>1, FS_Subset
<1>3. \A s \in Live : s \notin {g, h} => (s \in Now <=> s \in Then)
  BY DEF Live
<1>4. Then = Now \/ \E a \in Now, b \in {g, h} : b \notin Now /\ Then = (Now \ {a}) \union {b}
  <2>1. CASE seat[g].player # seat[h].player /\ seat[g].player = x /\ seat'[h].player = x
             /\ seat'[g].player = seat[h].player
    <3>1. g \in Now /\ h \notin Now /\ Then = (Now \ {g}) \union {h}
      BY <1>3, <2>1
    <3>2. QED
      BY <3>1
  <2>2. CASE seat[g].player # seat[h].player /\ seat[h].player = x /\ seat'[g].player = x
             /\ seat'[h].player = seat[g].player
    <3>1. h \in Now /\ g \notin Now /\ Then = (Now \ {h}) \union {g}
      BY <1>3, <2>2
    <3>2. QED
      BY <3>1
  <2>3. CASE (seat'[g].player = x <=> seat[g].player = x)
             /\ (seat'[h].player = x <=> seat[h].player = x)
    BY <1>3, <2>3
  <2>4. QED
    BY <2>1, <2>2, <2>3
<1> HIDE DEF Now, Then
<1>5. Cardinality(Then) = Cardinality(Now)
  <2>1. SUFFICES ASSUME NEW a \in Now, NEW b, b \notin Now, Then = (Now \ {a}) \union {b}
                 PROVE  Cardinality(Then) = Cardinality(Now)
    BY <1>4
  <2>2. IsFiniteSet(Now \ {a}) /\ Cardinality(Now \ {a}) = Cardinality(Now) - 1
    BY <1>2, FS_RemoveElement
  <2>3. Cardinality(Then) = Cardinality(Now \ {a}) + 1
    BY <2>1, <2>2, FS_AddElement
  <2>4. Cardinality(Now) \in Nat
    BY <1>2, FS_CardinalityType
  <2>5. QED
    BY <2>2, <2>3, <2>4
<1>6. QED
  BY <1>1, <1>5

\* However many parents answer one offer at the same time, no duty is lost or
\* doubled.
THEOREM AnswersConserve ==
  ASSUME MaxId = 1, IsFiniteSet(Slot)
  PROVE  ParentSpec => DutiesConserved
<1>1. PairInv /\ [PageNext]_handlerVars => [\A x \in Player : Duties(x)' = Duties(x)]_handlerVars
  <2>1. SUFFICES ASSUME PairInv, PageNext, NEW x \in Player PROVE Duties(x)' = Duties(x)
    OBVIOUS
  <2>2. CASE ~\E t \in Thread : AcceptWrite(t)
    <3>1. seat' = seat
      BY <2>1, <2>2, OnlyAcceptsMove
    <3>2. QED
      BY <3>1 DEF Duties, Live
  <2>3. CASE \E t \in Thread : AcceptWrite(t)
    <3>1. PICK t \in Thread : AcceptWrite(t)
      BY <2>3
    <3>2. PICK g, h : g = job[t].give /\ h = job[t].get
      OBVIOUS
    <3>3. RaceInv /\ OfPair(job[t])
      BY <2>1 DEF PairInv
    <3>4. /\ g \in Live /\ h \in Live /\ g # h /\ Live' = Live
          /\ \A s \in Slot : s \notin {g, h} => seat'[s] = seat[s]
          /\ \/ seat' = seat
             \/ /\ seat[g].player # seat[h].player
                /\ seat'[g].player = seat[h].player
                /\ seat'[h].player = seat[g].player
             \/ /\ seat'[g].player = seat[g].player
                /\ seat'[h].player = seat[h].player
      BY <3>1, <3>2, <3>3, AcceptKeepsPair
    <3>5. QED
      BY <3>4, ExchangeKeepsDuties
  <2>4. QED
    BY <2>2, <2>3
<1>2. QED
  BY <1>1, PairInvariance, PTL DEF ParentSpec, DutiesConserved

-----------------------------------------------------------------------------
(* An accepted offer took effect, once, if nobody may act for both of its  *)
(* players: whoever may finds a child of their own on the seat after the    *)
(* first accept, and a second one exchanges them back.                      *)

\* The offer of the player at g for the player at h, in the schedule r.
Offer(r, g, h) ==
  /\ r[g].player \in Player /\ r[h].player \in Player
  /\ r[g].player # r[h].player

\* Nobody may answer it who may act for the first.
Apart(r, g, h) == ~BothFamilies(r[g].player, r[h].player)

Traded(r, g, h) == seat[g].player = r[h].player /\ seat[h].player = r[g].player

Untraded(r, g, h) == seat[g].player = r[g].player /\ seat[h].player = r[h].player

OffersOnce(r) ==
  \A i \in Used :
    /\ Offer(r, swap[i].give, swap[i].get)
    /\ Apart(r, swap[i].give, swap[i].get) =>
         /\ Traded(r, swap[i].give, swap[i].get) \/ Untraded(r, swap[i].give, swap[i].get)
         /\ swap[i].status = "pending" => Untraded(r, swap[i].give, swap[i].get)
         /\ swap[i].status = "accepted" => Traded(r, swap[i].give, swap[i].get)

\* While there is no offer every copy is of the first schedule; the copies of
\* an accept are of the schedule before the trade, or the trade has been made.
TradeJob(r, j) ==
  /\ Used = {} /\ j.pc \in {"target", "insert"} =>
       j.who \in Person /\ j.giveRow = r[j.give] /\ Owns(j.who, j.giveRow)
  /\ Used = {} /\ j.pc = "insert" =>
       j.getRow = r[j.get] /\ j.getRow.player # Nobody /\ ~Owns(j.who, j.getRow)
  /\ Apart(r, j.give, j.get) =>
       /\ j.pc \in {"accept_give", "accept_get", "accept_write"} =>
            j.who \in Person /\ r[j.get].player \in KidsOf[j.who]
       /\ j.pc = "accept_get" =>
            j.giveRow.player = r[j.give].player \/ Traded(r, j.give, j.get)
       /\ j.pc = "accept_write" =>
            j.giveRow.player = r[j.give].player /\ j.getRow.player = r[j.get].player

TradeInv(r) ==
  /\ PairInv
  /\ OffersOnce(r)
  /\ Used = {} => seat = r
  /\ \A t \in Thread : TradeJob(r, job[t])

\* The steps of the page, with an answer only to an offer for one's own seat.
LEMMA PageSteps ==
  ASSUME NEW t \in Thread, PageHandler(t)
  PROVE  \/ \E p \in Person, s \in Slot : ProposeReadOwn(t, p, s)
         \/ \E p \in Person, i \in Id, next \in {"accept_give", "decline_get"} :
              /\ i \in Incoming(p)
              /\ ReadRequest(t, p, i, next)
         \/ UNCHANGED rows /\ Return(t)
         \/ /\ UNCHANGED rows
            /\ \/ \E g \in Slot : ProposeReadTarget(t, g)
               \/ AcceptReadProposerSlot(t) \/ AcceptReadTargetSlot(t)
               \/ DeclineReadTargetSlot(t) \/ DeclineReadProposerSlot(t)
         \/ ProposeInsert(t) \/ AcceptWrite(t) \/ DeclineWrite(t) \/ ExpireWrite(t)
<1>1. CASE \E p \in Person : \E i \in Incoming(p) : Answer(t, p, i)
  <2>1. PICK p \in Person : \E k \in Incoming(p) : Answer(t, p, k)
    BY <1>1
  <2>2. PICK i \in Incoming(p) : Answer(t, p, i)
    BY <2>1
  <2>3. i \in Id
    BY DEF Incoming, Pending, Used
  <2>4. QED
    BY <2>2, <2>3 DEF Answer, AcceptReadRequest, DeclineReadRequest
<1>2. CASE \E p \in Person, s \in Slot : ProposeReadOwn(t, p, s)
  BY <1>2
<1>3. CASE Continue(t)
  BY <1>3 DEF Continue, ProposeReadTarget, ProposeRefused, ProposeDone,
       AcceptReadProposerSlot, AcceptReadTargetSlot, AcceptFails, DeclineReadTargetSlot,
       DeclineReadProposerSlot, SendAnswer, LockedOut
<1>4. QED
  BY <1>1, <1>2, <1>3 DEF PageHandler

\* The one request, and the two seats of whoever accepts it.
LEMMA TheOffer ==
  ASSUME MaxId = 1, NEW r, TradeInv(r), NEW t \in Thread,
         job[t].pc \in {"accept_give", "accept_get", "accept_write"}
  PROVE  /\ job[t].id \in Used /\ Used = {1} /\ job[t].id = 1
         /\ job[t].give = swap[1].give /\ job[t].get = swap[1].get
         /\ Offer(r, job[t].give, job[t].get)
         /\ Apart(r, job[t].give, job[t].get) =>
              Traded(r, job[t].give, job[t].get) \/ Untraded(r, job[t].give, job[t].get)
<1>1. OfPair(job[t])
  BY DEF TradeInv, PairInv
<1>2. job[t].id \in Used /\ Used \subseteq {1}
  BY <1>1 DEF OfPair, Used, Id
<1>3. job[t].id = 1 /\ Used = {1}
  BY <1>2
<1>4. QED
  BY <1>1, <1>3 DEF OfPair, TradeInv, OffersOnce

\* The seats after an accept: the trade as it was offered.
LEMMA AcceptTrades ==
  ASSUME MaxId = 1, NEW r, TradeInv(r), NEW t \in Thread, AcceptWrite(t),
         Apart(r, job[t].give, job[t].get)
  PROVE  /\ seat'[job[t].give].player = r[job[t].get].player
         /\ seat'[job[t].get].player = r[job[t].give].player
<1>1. /\ job[t].pc = "accept_write" /\ seat' = Exchanged(job[t])
      /\ SlotsToWrite(job[t]) \subseteq Live
      /\ TradeJob(r, job[t]) /\ RaceInv
  BY DEF AcceptWrite, At, RowsStillThere, TradeInv, PairInv
<1>2. /\ job[t].giveRow.player = r[job[t].give].player
      /\ job[t].getRow.player = r[job[t].get].player
      /\ r[job[t].give].player # r[job[t].get].player
  BY <1>1, TheOffer DEF TradeJob, Offer
<1>3. SlotsToWrite(job[t]) = {job[t].give, job[t].get}
  BY <1>2 DEF SlotsToWrite
<1>4. job[t].give # job[t].get
  BY <1>1, TheOffer DEF RaceInv, RowsOK, RequestsPaired
<1>5. /\ job[t].give \in Slot /\ job[t].get \in Slot
      /\ seat[job[t].give] \in Seat /\ seat[job[t].get] \in Seat
  BY <1>1, <1>3, RowTypes DEF RaceInv, RowsOK
<1>6. /\ seat'[job[t].give] = [seat[job[t].give] EXCEPT !.player = job[t].getRow.player]
      /\ seat'[job[t].get] = [seat[job[t].get] EXCEPT !.player = job[t].giveRow.player]
  BY <1>1, <1>3, <1>4, <1>5 DEF Exchanged
<1>7. QED
  BY <1>2, <1>5, <1>6 DEF Seat

\* The thread that moved.
LEMMA MoverTrades ==
  ASSUME MaxId = 1, NEW r, TradeInv(r), PageNext, NEW t \in Thread, PageHandler(t)
  PROVE  TradeJob(r, job[t])'
<1>1. /\ job[t] \in GoodJob /\ job[t] \in Job /\ job \in [Thread -> GoodJob]
      /\ TradeJob(r, job[t])
  BY DEF TradeInv, PairInv, RaceInv, GoodJob
<1>2. Used' = {} => Used = {} /\ seat = r
  BY RequestsStay DEF TradeInv, PairInv
<1>3. CASE \E p \in Person, s \in Slot : ProposeReadOwn(t, p, s)
  <2>1. PICK p \in Person, s \in Slot : ProposeReadOwn(t, p, s)
    BY <1>3
  <2>2. /\ job'[t].pc = "target" /\ job'[t].who = p /\ job'[t].give = s
        /\ job'[t].giveRow = seat[s] /\ Owns(p, seat[s])
    BY <1>1, <2>1 DEF ProposeReadOwn, Begin, Idle
  <2>3. QED
    BY <1>2, <2>2 DEF TradeJob, Owns
<1>4. CASE \E p \in Person, i \in Id, next \in {"accept_give", "decline_get"} :
             i \in Incoming(p) /\ ReadRequest(t, p, i, next)
  <2>1. PICK p \in Person, i \in Id, next \in {"accept_give", "decline_get"} :
          i \in Incoming(p) /\ ReadRequest(t, p, i, next)
    BY <1>4
  <2>2. /\ job'[t].pc \in {"accept_give", "decline_get", "expire"} /\ job'[t].who = p
        /\ job'[t].give = swap[i].give /\ job'[t].get = swap[i].get
    BY <1>1, <2>1 DEF ReadRequest, Begin, Idle
  <2>3. i \in Used /\ swap[i].status = "pending" /\ Owns(p, seat[swap[i].get])
    BY <2>1 DEF Incoming, Pending
  <2>4. Apart(r, swap[i].give, swap[i].get) => r[swap[i].get].player \in KidsOf[p]
    BY <2>3 DEF TradeInv, OffersOnce, Untraded, Owns
  <2>5. QED
    BY <2>2, <2>4 DEF TradeJob, Apart
<1>5. CASE Return(t)
  <2>1. job'[t].pc = "idle"
    BY <1>1, <1>5, IdleIsGood DEF Return
  <2>2. QED
    BY <2>1 DEF TradeJob
<1>6. CASE \E g \in Slot : ProposeReadTarget(t, g)
  <2>1. PICK g \in Slot : ProposeReadTarget(t, g)
    BY <1>6
  <2>2. /\ job'[t].pc = "insert" /\ job'[t].who = job[t].who /\ job'[t].give = job[t].give
        /\ job'[t].giveRow = job[t].giveRow /\ job'[t].get = g /\ job'[t].getRow = seat[g]
    BY <1>1, <2>1 DEF ProposeReadTarget, Job
  <2>3. job[t].pc = "target" /\ seat[g].player # Nobody /\ ~Owns(job[t].who, seat[g])
    BY <2>1 DEF ProposeReadTarget, At
  <2>4. QED
    BY <1>1, <1>2, <2>2, <2>3 DEF TradeJob, Owns
<1>7. CASE AcceptReadProposerSlot(t) /\ ~Return(t)
  <2>1. job[t].pc = "accept_give" /\ seat' = seat /\ swap' = swap
    BY <1>7 DEF AcceptReadProposerSlot, At, rows
  <2>2. /\ job'[t].pc = "accept_get" /\ job'[t].who = job[t].who
        /\ job'[t].give = job[t].give /\ job'[t].get = job[t].get
        /\ job'[t].giveRow = seat[job[t].give]
    BY <1>1, <1>7 DEF AcceptReadProposerSlot, Job
  <2>3. Apart(r, job[t].give, job[t].get) =>
          \/ seat[job[t].give].player = r[job[t].give].player
          \/ Traded(r, job[t].give, job[t].get)
    BY <2>1, TheOffer DEF Untraded
  <2>4. QED
    BY <1>1, <2>1, <2>2, <2>3 DEF TradeJob, Traded, Apart
<1>8. CASE AcceptReadTargetSlot(t) /\ ~Return(t)
  <2>1. /\ job[t].pc = "accept_get" /\ Owns(job[t].who, seat[job[t].get])
        /\ seat' = seat /\ swap' = swap
    BY <1>8 DEF AcceptReadTargetSlot, At, rows
  <2>2. /\ job'[t].pc = "accept_write" /\ job'[t].who = job[t].who
        /\ job'[t].give = job[t].give /\ job'[t].get = job[t].get
        /\ job'[t].giveRow = job[t].giveRow
        /\ job'[t].getRow = seat[job[t].get]
    BY <1>1, <1>8 DEF AcceptReadTargetSlot, Job
  \* The answerer's child is on the seat, and the proposer's is not theirs.
  <2>3. Apart(r, job[t].give, job[t].get) => ~Traded(r, job[t].give, job[t].get)
    BY <1>1, <2>1, TheOffer DEF TradeJob, Traded, Apart, BothFamilies, Owns
  <2>4. Apart(r, job[t].give, job[t].get) =>
          /\ job[t].giveRow.player = r[job[t].give].player
          /\ seat[job[t].get].player = r[job[t].get].player
    BY <1>1, <2>1, <2>3, TheOffer DEF TradeJob, Untraded
  <2>5. QED
    BY <1>1, <2>1, <2>2, <2>4 DEF TradeJob, Apart
<1>9. CASE ProposeInsert(t)
  <2>1. Used' # {}
    <3>1. PICK i \in Id : swap' = [swap EXCEPT ![i] =
                     NewRequest(job[t].give, job[t].get, job[t].giveRow, job[t].getRow)]
      BY <1>9 DEF ProposeInsert
    <3>2. NewRequest(job[t].give, job[t].get, job[t].giveRow, job[t].getRow) \in Request
      <4>1. job[t].pc = "insert"
        BY <1>9 DEF ProposeInsert, At
      <4>2. QED
        BY <1>1, <4>1, NewRequestType DEF GoodJob
    <3>3. swap'[i] # NoRow
      BY <3>1, <3>2, ConstantsOK DEF TradeInv, PairInv, RaceInv, RowsOK, RowsTypeOK
    <3>4. QED
      BY <3>3 DEF Used
  <2>2. job'[t].pc = "target"
    BY <1>1, <1>9 DEF ProposeInsert, Job
  <2>3. QED
    BY <2>1, <2>2 DEF TradeJob
<1>10. CASE (AcceptWrite(t) \/ DeclineReadProposerSlot(t)) /\ ~Return(t)
  <2>1. job'[t].pc = "mail"
    BY <1>1, <1>10 DEF AcceptWrite, DeclineReadProposerSlot, Goto, Job
  <2>2. QED
    BY <2>1 DEF TradeJob
<1>11. CASE (DeclineReadTargetSlot(t) \/ DeclineWrite(t) \/ ExpireWrite(t)) /\ ~Return(t)
  <2>1. Goto(t, "decline_write") \/ Goto(t, "decline_told")
    BY <1>11 DEF DeclineReadTargetSlot, DeclineWrite, ExpireWrite, Resolve
  <2>2. job'[t].pc \in {"decline_write", "decline_told"}
    BY <1>1, <2>1 DEF Goto, Job
  <2>3. QED
    BY <2>2 DEF TradeJob
<1>12. QED
  BY <1>3, <1>4, <1>5, <1>6, <1>7, <1>8, <1>9, <1>10, <1>11, PageSteps

\* Who is offered what, after every step.
LEMMA OffersStep ==
  ASSUME MaxId = 1, NEW r \in Rosters, TradeInv(r), PageNext
  PROVE  OffersOnce(r)'
<1>1. RowsTypeOK /\ RaceInv /\ Used \subseteq {1}
  BY DEF TradeInv, PairInv, RaceInv, RowsOK, Used, Id
<1>2. ASSUME seat' = seat, Used' = Used,
             \A i \in Used : /\ swap'[i].give = swap[i].give /\ swap'[i].get = swap[i].get
                             /\ swap'[i].status \in {"pending", "accepted"} =>
                                  swap'[i].status = swap[i].status
      PROVE  OffersOnce(r)'
  BY <1>2 DEF TradeInv, OffersOnce, Offer, Apart, Traded, Untraded
<1>3. CASE TimePasses
  <2>1. PICK i \in Id : Age(i)
    BY <1>3 DEF TimePasses
  <2>2. i \in Used /\ swap[i] \in Request
    BY <1>1, <2>1, RowTypes DEF Age, Pending
  <2>3. /\ swap'[i] = [swap[i] EXCEPT !.stale = TRUE]
        /\ \A k \in Id : k # i => swap'[k] = swap[k]
        /\ seat' = seat
    BY <1>1, <2>1 DEF Age, RowsTypeOK
  <2>4. /\ swap'[i] \in Request /\ swap'[i].status = swap[i].status
        /\ swap'[i].give = swap[i].give /\ swap'[i].get = swap[i].get
    BY <2>2, <2>3 DEF Request
  <2>5. swap'[i] # NoRow
    BY <2>4, ConstantsOK
  <2>6. Used' = Used
    BY <2>2, <2>3, <2>5 DEF Used
  <2>7. \A k \in Used : /\ swap'[k].give = swap[k].give /\ swap'[k].get = swap[k].get
                        /\ swap'[k].status = swap[k].status
    BY <2>3, <2>4 DEF Used
  <2>8. QED
    BY <1>2, <2>3, <2>6, <2>7
<1>4. CASE UNCHANGED rows
  BY <1>2, <1>4 DEF rows, Used
<1>5. ASSUME NEW t \in Thread, ProposeInsert(t)
      PROVE  OffersOnce(r)'
  <2>1. /\ job[t] \in GoodJob /\ job[t].pc = "insert" /\ TradeJob(r, job[t])
    BY <1>5 DEF ProposeInsert, At, TradeInv, PairInv, RaceInv
  <2>2. Used = {} /\ swap' = [swap EXCEPT ![1] =
                      NewRequest(job[t].give, job[t].get, job[t].giveRow, job[t].getRow)]
    BY <1>1, <1>5 DEF ProposeInsert, IsNextId, Id
  <2>3. seat = r /\ seat' = seat
    BY <1>5, <2>2 DEF TradeInv, ProposeInsert
  <2>4. /\ job[t].give \in Slot /\ job[t].get \in Slot
        /\ job[t].who \in Person
        /\ job[t].giveRow = r[job[t].give] /\ Owns(job[t].who, r[job[t].give])
        /\ job[t].getRow = r[job[t].get] /\ r[job[t].get].player # Nobody
        /\ ~Owns(job[t].who, r[job[t].get])
        /\ r[job[t].give] \in Seat /\ r[job[t].get] \in Seat
    BY <2>1, <2>2 DEF GoodJob, TradeJob
  <2>5. Offer(r, job[t].give, job[t].get)
    <3> DEFINE x == r[job[t].give].player
               y == r[job[t].get].player
               p == job[t].who
    <3>1. r[job[t].get] # Gone /\ r[job[t].give] # Gone
      BY <2>4, ConstantsOK
    <3>2. y \in Player
      BY <2>4 DEF Seat
    <3>3. p \in Person /\ x \in KidsOf[p] /\ y \notin KidsOf[p]
      BY <2>4, <3>1 DEF Owns
    <3>4. x \in Player /\ x # y
      BY <3>3, ConstantsOK
    <3>5. QED
      BY <3>2, <3>4 DEF Offer
  <2>6. 1 \in Id
    BY DEF Id
  <2>7. /\ swap'[1].give = job[t].give /\ swap'[1].get = job[t].get
        /\ swap'[1].status = "pending"
    BY <1>1, <2>2, <2>6 DEF RowsTypeOK, NewRequest
  <2>8. Used' \subseteq {1}
    BY DEF Used, Id
  <2>9. \A i \in Used' : i = 1
    BY <2>8
  <2>10. QED
    BY <2>3, <2>5, <2>7, <2>9 DEF OffersOnce, Untraded, Offer, Apart
<1>6. ASSUME NEW t \in Thread, AcceptWrite(t)
      PROVE  OffersOnce(r)'
  <2>1. /\ job[t].id = 1 /\ Used = {1} /\ Offer(r, job[t].give, job[t].get)
        /\ job[t].give = swap[1].give /\ job[t].get = swap[1].get
    BY <1>6, TheOffer DEF AcceptWrite, At
  <2>2. swap'[1] = Settle(swap[1], "accepted") /\ swap[1] \in Request /\ 1 \in Id
    BY <1>1, <1>6, <2>1, RowTypes DEF AcceptWrite
  <2>3. /\ swap'[1].give = job[t].give /\ swap'[1].get = job[t].get
        /\ swap'[1].status = "accepted"
    BY <2>1, <2>2, SettleType DEF Status
  <2>4. Apart(r, job[t].give, job[t].get) =>
          /\ seat'[job[t].give].player = r[job[t].get].player
          /\ seat'[job[t].get].player = r[job[t].give].player
    BY <1>6, AcceptTrades
  <2>5. \A i \in Used' : i = 1
    BY DEF Used, Id
  <2>6. QED
    BY <2>1, <2>3, <2>4, <2>5 DEF OffersOnce, Traded, Offer, Apart
<1>7. ASSUME NEW t \in Thread, DeclineWrite(t) \/ ExpireWrite(t), ~UNCHANGED rows
      PROVE  OffersOnce(r)'
  <2>1. PICK status \in {"declined", "expired"} :
          job[t].id \in Used /\ swap' = SettleAll({job[t].id}, status) /\ seat' = seat
    BY <1>7 DEF DeclineWrite, ExpireWrite, Resolve, rows
  <2>2. job[t].id = 1 /\ 1 \in Used /\ 1 \in Id /\ swap[1] \in Request
    BY <1>1, <2>1, RowTypes
  <2>3. swap'[1] = Settle(swap[1], status)
    BY <2>1, <2>2 DEF SettleAll
  <2>4. /\ swap'[1].give = swap[1].give /\ swap'[1].get = swap[1].get
        /\ swap'[1].status = status /\ swap'[1] \in Request
    BY <2>2, <2>3, SettleType DEF Status
  <2>5. swap'[1] # NoRow
    BY <2>4, ConstantsOK
  <2>6. Used' = {1} /\ Used = {1}
    BY <1>1, <2>2, <2>5 DEF Used, Id
  <2>7. QED
    BY <1>2, <2>1, <2>4, <2>6
<1>8. QED
  <2>1. CASE \E t \in Thread : PageHandler(t)
    <3>1. PICK t \in Thread : PageHandler(t)
      BY <2>1
    <3>2. \/ UNCHANGED rows \/ ProposeInsert(t) \/ AcceptWrite(t)
          \/ DeclineWrite(t) \/ ExpireWrite(t)
      BY <3>1, PageSteps DEF ProposeReadOwn, ReadRequest
    <3>3. QED
      BY <1>4, <1>5, <1>6, <1>7, <3>2
  <2>2. QED
    BY <1>3, <2>1 DEF PageNext

LEMMA TradeStep ==
  ASSUME MaxId = 1, NEW r \in Rosters
  PROVE  TradeInv(r) /\ [PageNext]_handlerVars => TradeInv(r)'
<1>1. SUFFICES ASSUME TradeInv(r), [PageNext]_handlerVars PROVE TradeInv(r)'
  OBVIOUS
<1>2. PairInv'
  BY <1>1, PairStep DEF TradeInv
<1>3. CASE UNCHANGED handlerVars
  <2>1. seat' = seat /\ Used' = Used /\ job' = job /\ swap' = swap
    BY <1>3 DEF handlerVars, Used
  <2>2. OffersOnce(r)' /\ (Used' = {} => seat' = r)
    BY <1>1, <2>1 DEF TradeInv, OffersOnce, Offer, Apart, Traded, Untraded
  <2>3. \A t \in Thread : TradeJob(r, job[t])'
    BY <1>1, <2>1 DEF TradeInv, TradeJob, Traded, Owns, Apart
  <2>4. QED
    BY <1>2, <2>2, <2>3 DEF TradeInv
<1>4. CASE PageNext
  <2>1. OffersOnce(r)'
    BY <1>1, <1>4, OffersStep
  <2>2. Used' = {} => Used = {}
    BY <1>1, <1>4, RequestsStay DEF TradeInv, PairInv
  <2>3. Used' = {} => seat' = r
    <3>1. CASE \E t \in Thread : AcceptWrite(t)
      <4>1. Used # {}
        BY <1>1, <3>1, TheOffer DEF AcceptWrite, At
      <4>2. QED
        BY <2>2, <4>1
    <3>2. CASE ~\E t \in Thread : AcceptWrite(t)
      BY <1>1, <1>4, <2>2, <3>2, OnlyAcceptsMove DEF TradeInv
    <3>3. QED
      BY <3>1, <3>2
  \* What has been traded stays traded.
  <2>4. ASSUME NEW u \in Thread, job[u].pc = "accept_get",
               Apart(r, job[u].give, job[u].get), Traded(r, job[u].give, job[u].get)
        PROVE  /\ seat'[job[u].give].player = r[job[u].get].player
               /\ seat'[job[u].get].player = r[job[u].give].player
    <3>1. CASE \E t \in Thread : AcceptWrite(t)
      <4>1. PICK t \in Thread : AcceptWrite(t)
        BY <3>1
      <4>2. job[u].give = job[t].give /\ job[u].get = job[t].get
        BY <1>1, <2>4, <4>1, TheOffer DEF AcceptWrite, At
      <4>3. Apart(r, job[t].give, job[t].get)
        BY <2>4, <4>2
      <4>4. QED
        BY <1>1, <4>1, <4>2, <4>3, AcceptTrades
    <3>2. CASE ~\E t \in Thread : AcceptWrite(t)
      BY <1>4, <2>4, <3>2, OnlyAcceptsMove DEF Traded
    <3>3. QED
      BY <3>1, <3>2
  <2>5. ASSUME NEW u \in Thread, job'[u] = job[u]
        PROVE  TradeJob(r, job[u])'
    BY <1>1, <2>2, <2>4, <2>5 DEF TradeInv, TradeJob, Traded, Owns, Apart
  <2>6. ASSUME NEW u \in Thread PROVE TradeJob(r, job[u])'
    <3>1. CASE TimePasses
      BY <2>5, <3>1 DEF TimePasses
    <3>2. CASE \E t \in Thread : PageHandler(t)
      <4>1. PICK t \in Thread : PageHandler(t)
        BY <3>2
      <4>2. CASE u = t
        BY <1>1, <1>4, <4>1, <4>2, MoverTrades
      <4>3. CASE u # t
        BY <1>1, <2>5, <4>1, <4>3, PageIsHandler, OtherJobsStay DEF TradeInv, PairInv
      <4>4. QED
        BY <4>2, <4>3
    <3>3. QED
      BY <1>4, <3>1, <3>2 DEF PageNext
  <2>7. QED
    BY <1>2, <2>1, <2>3, <2>6 DEF TradeInv
<1>5. QED
  BY <1>1, <1>3, <1>4

LEMMA TradeInit ==
  ASSUME NEW r, Rosters = {r}
  PROVE  Init => TradeInv(r)
<1>1. SUFFICES ASSUME Init PROVE TradeInv(r)
  OBVIOUS
<1>2. PairInv /\ Used = {} /\ seat = r
  BY <1>1, PairInit DEF Init, RowsInit, Used
<1>3. \A t \in Thread : TradeJob(r, job[t])
  BY <1>1, IdleIsGood DEF Init, TradeJob
<1>4. QED
  BY <1>2, <1>3 DEF TradeInv, OffersOnce

LEMMA TradeInvariance ==
  ASSUME MaxId = 1, NEW r, Rosters = {r}
  PROVE  ParentSpec => []TradeInv(r)
<1>1. TradeInv(r) /\ [PageNext]_handlerVars => TradeInv(r)'
  BY TradeStep
<1>2. Init => TradeInv(r)
  BY TradeInit
<1>3. QED
  BY <1>1, <1>2, PTL DEF ParentSpec

\* However many parents of the families concerned answer one offer at the same
\* time, from whatever schedule: an offer that was accepted took effect exactly
\* once, if nobody may act for both of its players.
THEOREM AcceptedTakesEffect ==
  ASSUME MaxId = 1, NEW r, Rosters = {r}
  PROVE  ParentSpec => []AcceptedMeansTraded
<1>1. TradeInv(r) => AcceptedMeansTraded
  BY DEF TradeInv, OffersOnce, Traded, Apart, AcceptedMeansTraded
<1>2. QED
  BY <1>1, TradeInvariance, PTL

=============================================================================
