--------------------------- MODULE Staffing_proofs ---------------------------
(***************************************************************************)
(* Proofs about Bemanna, for any team, schedule, season and locks: nobody  *)
(* gets a second shift on a day, the loads are what a recount gives, and   *)
(* whoever could still take a drawn seat had no fewer shifts.              *)
(*                                                                         *)
(* The invariant behind all three is that the bookkeeping is exact: a day  *)
(* is held and a shift has a mate exactly when some seat, filled before or *)
(* by this plan, says so, and seats are drawn in order, after all locks.   *)
(***************************************************************************)
EXTENDS Staffing, FiniteSetTheorems, TLAPS

\* A local variable of a plan is empty between two plans.
Quiet == ~busy => todo = {} /\ DOMAIN result = {}

\* Only empty seats are decided, and each of them once.
Picked ==
  /\ todo \intersect Filled = {} /\ DOMAIN result \intersect Filled = {}
  /\ todo \intersect DOMAIN result = {}

HeldExact ==
  busy => \A p \in Player, d \in Day :
            d \in held[p] <=> \E t \in Slot : Dated(t) /\ Holder(t) = p /\ row[t].day = d

MatesExact ==
  busy => \A p \in Player, t \in Slot :
            <<ShiftKey(t), p>> \in mates
              <=> \E u \in Slot : Holder(u) = p /\ ShiftKey(u) = ShiftKey(t)

AllApart ==
  \A s \in DOMAIN result, t \in Slot : (t # s /\ Holder(t) = result[s]) => Apart(s, t)

\* Once a seat is drawn, no lock is left and every seat still to come is later.
DrawnInOrder ==
  \A s \in DOMAIN result \ DOMAIN locked :
    /\ DOMAIN locked \intersect todo = {}
    /\ \A t \in todo : Before(s, t)

IInv ==
  /\ TypeOK /\ Quiet /\ Picked
  /\ HeldExact /\ MatesExact /\ AllApart
  /\ LoadsAreCounts /\ DrawnInOrder /\ FewestFirst

-----------------------------------------------------------------------------
(* The order and the counts.                                               *)

\* Before is a strict order on the slots.
LEMMA BeforeIsStrict ==
  ASSUME TypeOK, NEW s \in Slot, NEW t \in Slot, Before(s, t)
  PROVE  ~Before(t, s) /\ s # t
<1>1. /\ row[s].day \in Nat /\ row[t].day \in Nat
      /\ row[s].time \in Nat /\ row[t].time \in Nat
      /\ s \in Nat /\ t \in Nat
  BY StaffingOK DEF TypeOK, Row
<1> QED BY <1>1 DEF Before

\* What is counted is finite, and a count a natural number.
LEMMA CountsAreNat ==
  ASSUME NEW S, S \subseteq Slot
  PROVE  IsFiniteSet(S) /\ Cardinality(S) \in Nat
BY StaffingOK, FS_Subset, FS_CardinalityType

\* A seat can still be given to p exactly when it is apart from all of p's.
LEMMA FreeIffApart ==
  ASSUME IInv, busy, NEW s \in todo, NEW p \in Player
  PROVE  Free(s, p) <=> \A t \in Slot : Holder(t) = p => Apart(s, t)
<1>1. s \in Slot /\ row[s].day \in Day \union {Undated}
  BY DEF IInv, TypeOK, Row
<1>2. <<ShiftKey(s), p>> \in mates <=> \E u \in Slot : Holder(u) = p /\ ShiftKey(u) = ShiftKey(s)
  BY <1>1 DEF IInv, MatesExact
<1>3. CASE Dated(s)
  <2>1. row[s].day \in held[p]
          <=> \E t \in Slot : Dated(t) /\ Holder(t) = p /\ row[t].day = row[s].day
    BY <1>1, <1>3 DEF IInv, HeldExact, Dated
  <2>2. \A t \in Slot : row[t].day = row[s].day => Dated(t)
    BY <1>3 DEF Dated
  <2>3. \A t \in Slot : ShiftKey(t) = ShiftKey(s) => row[t].day = row[s].day
    BY DEF ShiftKey
  <2> QED BY <1>2, <1>3, <2>1, <2>2, <2>3 DEF Free, Apart
<1>4. CASE ~Dated(s)
  BY <1>2, <1>4 DEF Free, Apart
<1> QED BY <1>3, <1>4

-----------------------------------------------------------------------------
(* Giving a seat.                                                          *)

\* The predicates that only look at the rows are unchanged with them.
SameRows ==
  /\ row' = row /\ Filled' = Filled
  /\ \A t \in Slot : Dated(t)' = Dated(t) /\ ShiftKey(t)' = ShiftKey(t)
  /\ \A t, u \in Slot : Before(t, u)' = Before(t, u) /\ Apart(t, u)' = Apart(t, u)
  /\ \A a \in Season, p \in Player : Counted(a, p)' = Counted(a, p)

\* What Give leaves as it was, and who has which seat after it.
Given(s, p) ==
  /\ s \in Slot /\ s \notin DOMAIN result /\ s \notin Filled
  /\ SameRows /\ locked' = locked /\ season' = season /\ busy' = busy
  /\ DOMAIN result' = DOMAIN result \union {s}
  /\ result'[s] = p
  /\ \A t \in DOMAIN result : result'[t] = result[t]
  /\ Holder(s) = Nobody /\ Holder(s)' = p
  /\ \A t \in Slot \ {s} : Holder(t)' = Holder(t)

LEMMA AfterGive ==
  ASSUME IInv, busy, NEW s \in todo, NEW p \in Player, Give(s, p)
  PROVE  Given(s, p)
<1>1. s \in Slot /\ s \notin DOMAIN result /\ s \notin Filled
  BY DEF IInv, TypeOK, Picked
<1>2. /\ row' = row /\ locked' = locked /\ season' = season /\ busy' = busy
      /\ DOMAIN result' = DOMAIN result \union {s}
      /\ result'[s] = p
      /\ \A t \in DOMAIN result : result'[t] = result[t]
  BY <1>1 DEF Give
<1>3. Holder(s) = Nobody
  BY <1>1 DEF Holder, Filled
<1>4. Holder(s)' = p /\ \A t \in Slot \ {s} : Holder(t)' = Holder(t)
  BY <1>2 DEF Holder
<1>5. SameRows
  BY <1>2 DEF SameRows, Filled, Dated, ShiftKey, Before, Apart, Counted
<1> QED BY <1>1, <1>2, <1>3, <1>4, <1>5 DEF Given

\* Giving an empty seat to a player who is free for it keeps the bookkeeping
\* exact, whether the seat is locked or drawn.
LEMMA GiveKeepsTypes ==
  ASSUME IInv, busy, NEW s \in todo, NEW p \in Player, Give(s, p)
  PROVE  TypeOK' /\ Quiet' /\ Picked'
<1>0. Given(s, p)
  BY AfterGive
<1> USE <1>0 DEF Given, SameRows
<1>2. todo' = todo \ {s}
  BY DEF Give
<1>3. Quiet'
  BY DEF Quiet
<1>4. Picked'
  BY <1>2 DEF IInv, Picked
<1>5. load' \in [Player -> Nat]
  BY DEF Give, IInv, TypeOK
<1>6. held' \in [Player -> SUBSET Day]
  <2>1. Dated(s) => row[s].day \in Day
    BY DEF IInv, TypeOK, Row, Dated
  <2> QED BY <2>1 DEF Give, IInv, TypeOK
<1>7. mates' \subseteq ((Day \union {Undated}) \X Time \X Place) \X Player
  <2>1. ShiftKey(s) \in (Day \union {Undated}) \X Time \X Place
    BY DEF IInv, TypeOK, Row, ShiftKey
  <2> QED BY <2>1 DEF Give, IInv, TypeOK
<1>8. /\ row' \in [Slot -> Row] /\ todo' \subseteq Slot /\ season' \in Season /\ busy' \in BOOLEAN
      /\ DOMAIN locked' \subseteq Slot /\ \A u \in DOMAIN locked' : locked'[u] \in Player
      /\ DOMAIN result' \subseteq Slot /\ \A u \in DOMAIN result' : result'[u] \in Player
  BY <1>2 DEF IInv, TypeOK
<1> QED BY <1>3, <1>4, <1>5, <1>6, <1>7, <1>8 DEF TypeOK

LEMMA GiveKeepsHeld ==
  ASSUME IInv, busy, NEW s \in todo, NEW p \in Player, Give(s, p)
  PROVE  HeldExact'
<1>0. Given(s, p)
  BY AfterGive
<1> USE <1>0 DEF Given, SameRows
<1>1. SUFFICES ASSUME NEW q \in Player, NEW d \in Day
               PROVE  d \in held'[q] <=> \E t \in Slot : Dated(t) /\ Holder(t)' = q /\ row[t].day = d
  BY DEF HeldExact
<1>2. d \in held[q] <=> \E t \in Slot : Dated(t) /\ Holder(t) = q /\ row[t].day = d
  BY DEF IInv, HeldExact
<1>3. held \in [Player -> SUBSET Day] /\ Nobody # q
  BY StaffingOK DEF IInv, TypeOK
<1>4. d \in held'[q] <=> d \in held[q] \/ (q = p /\ Dated(s) /\ d = row[s].day)
  BY <1>3 DEF Give
<1>5. (\E t \in Slot : Dated(t) /\ Holder(t)' = q /\ row[t].day = d)
        <=> \/ \E t \in Slot : Dated(t) /\ Holder(t) = q /\ row[t].day = d
            \/ q = p /\ Dated(s) /\ d = row[s].day
  BY <1>3
<1> QED BY <1>2, <1>4, <1>5

LEMMA GiveKeepsMates ==
  ASSUME IInv, busy, NEW s \in todo, NEW p \in Player, Give(s, p)
  PROVE  MatesExact'
<1>0. Given(s, p)
  BY AfterGive
<1> USE <1>0 DEF Given, SameRows
<1>1. SUFFICES ASSUME NEW q \in Player, NEW t \in Slot
               PROVE  <<ShiftKey(t), q>> \in mates'
                        <=> \E u \in Slot : Holder(u)' = q /\ ShiftKey(u) = ShiftKey(t)
  BY DEF MatesExact
<1>2. <<ShiftKey(t), q>> \in mates <=> \E u \in Slot : Holder(u) = q /\ ShiftKey(u) = ShiftKey(t)
  BY DEF IInv, MatesExact
<1>3. <<ShiftKey(t), q>> \in mates'
        <=> <<ShiftKey(t), q>> \in mates \/ (q = p /\ ShiftKey(t) = ShiftKey(s))
  BY DEF Give
<1>4. Nobody # q
  BY StaffingOK
<1>5. (\E u \in Slot : Holder(u)' = q /\ ShiftKey(u) = ShiftKey(t))
        <=> \/ \E u \in Slot : Holder(u) = q /\ ShiftKey(u) = ShiftKey(t)
            \/ q = p /\ ShiftKey(t) = ShiftKey(s)
  BY <1>4
<1> QED BY <1>2, <1>3, <1>5

LEMMA GiveKeepsApart ==
  ASSUME IInv, busy, NEW s \in todo, NEW p \in Player, Give(s, p), Free(s, p)
  PROVE  AllApart'
<1>0. Given(s, p)
  BY AfterGive
<1> USE <1>0 DEF Given, SameRows
<1>1. SUFFICES ASSUME NEW u \in DOMAIN result', NEW t \in Slot, t # u, Holder(t)' = result'[u]
               PROVE  Apart(u, t)
  BY DEF AllApart, IInv, TypeOK
<1>2. \A v \in Slot : Holder(v) = p => Apart(s, v)
  BY FreeIffApart
<1>3. CASE u = s
  BY <1>1, <1>2, <1>3
<1>4. CASE u # s /\ t # s
  BY <1>1, <1>4 DEF IInv, AllApart
<1>5. CASE u # s /\ t = s
  <2>1. u \in DOMAIN result /\ u \in Slot /\ Holder(u) = p
    BY <1>1, <1>5 DEF IInv, TypeOK, Holder
  <2>2. Apart(s, u)
    BY <1>2, <2>1
  <2> QED BY <1>5, <2>2 DEF Apart, Dated, ShiftKey
<1> QED BY <1>3, <1>4, <1>5

LEMMA GiveKeepsLoads ==
  ASSUME IInv, busy, NEW s \in todo, NEW p \in Player, Give(s, p)
  PROVE  LoadsAreCounts'
<1>0. Given(s, p)
  BY AfterGive
<1> USE <1>0 DEF Given, SameRows
<1> DEFINE Has(q) == Counted(season, q) \union {t \in DOMAIN result : result[t] = q}
<1>1. \A q \in Player : Counted(season, q)' = Counted(season, q)
  BY DEF Counted, Dated
<1>2. SUFFICES ASSUME NEW q \in Player
               PROVE  load'[q] = Cardinality(Counted(season, q)
                                   \union {t \in DOMAIN result' : result'[t] = q})
  BY <1>1 DEF LoadsAreCounts
<1>3. load[q] = Cardinality(Has(q)) /\ load \in [Player -> Nat]
  BY DEF IInv, LoadsAreCounts, TypeOK
<1>4. Has(q) \subseteq Slot /\ s \notin Has(q)
  BY DEF Counted, Filled, IInv, TypeOK
<1>5. CASE q = p
  <2>1. Counted(season, q) \union {t \in DOMAIN result' : result'[t] = q} = Has(q) \union {s}
    BY <1>5
  <2>2. Cardinality(Has(q) \union {s}) = Cardinality(Has(q)) + 1
    BY <1>4, CountsAreNat, FS_AddElement
  <2>3. load'[q] = load[q] + 1
    BY <1>3, <1>5 DEF Give
  <2> QED BY <1>3, <2>1, <2>2, <2>3
<1>6. CASE q # p
  <2>1. Counted(season, q) \union {t \in DOMAIN result' : result'[t] = q} = Has(q)
    BY <1>6
  <2>2. load'[q] = load[q]
    BY <1>3, <1>6 DEF Give
  <2> QED BY <1>3, <2>1, <2>2
<1> QED BY <1>5, <1>6

\* A lock is given before anything is drawn, and draws follow the order.
GivenInTurn(s) ==
  \/ s \in DOMAIN locked
  \/ Drawing(s)

LEMMA GiveKeepsOrder ==
  ASSUME IInv, busy, NEW s \in todo, NEW p \in Player, Give(s, p), GivenInTurn(s)
  PROVE  DrawnInOrder'
<1>0. Given(s, p)
  BY AfterGive
<1> USE <1>0 DEF Given, SameRows
<1>1. todo' = todo \ {s} /\ todo \subseteq Slot /\ DOMAIN result \subseteq Slot
  BY DEF Give, IInv, TypeOK
<1>2. SUFFICES ASSUME NEW u \in DOMAIN result', u \notin DOMAIN locked
               PROVE  /\ DOMAIN locked \intersect todo' = {}
                      /\ \A t \in todo' : Before(u, t)
  BY <1>1 DEF DrawnInOrder
<1>3. CASE u = s
  BY <1>1, <1>2, <1>3 DEF GivenInTurn, Drawing, IsFirst
<1>4. CASE u # s
  BY <1>1, <1>2, <1>4 DEF IInv, DrawnInOrder
<1> QED BY <1>3, <1>4

\* A drawn seat goes to somebody free with the fewest shifts.
FewestNow(s, p) ==
  s \in DOMAIN locked \/ \A q \in Pool : Free(s, q) => load[p] <= load[q]

LEMMA GiveKeepsFairness ==
  ASSUME IInv, busy, NEW s \in todo, NEW p \in Player, Give(s, p),
         GivenInTurn(s), FewestNow(s, p)
  PROVE  FewestFirst'
<1>0. Given(s, p)
  BY AfterGive
<1> USE <1>0 DEF Given, SameRows
<1>1. /\ DOMAIN result \subseteq Slot /\ season \in Season
      /\ \A u \in DOMAIN result : result[u] \in Player
      /\ Pool \subseteq Player
  BY DEF IInv, TypeOK, Pool
<1> DEFINE Then(q, u) == Counted(season, q) \union
                         {t \in DOMAIN result' : result'[t] = q /\ (t \in DOMAIN locked \/ Before(t, u))}
           Now(q, u) == Counted(season, q) \union
                        {t \in DOMAIN result : result[t] = q /\ (t \in DOMAIN locked \/ Before(t, u))}
<1>2. SUFFICES ASSUME NEW u \in DOMAIN result', u \notin DOMAIN locked, NEW q \in Pool,
                      \A t \in Slot : Holder(t)' = q => Apart(u, t)
               PROVE  Cardinality(Then(result'[u], u)) <= Cardinality(Then(q, u))
  BY <1>1 DEF FewestFirst, LoadAt, Counted
<1>3. \A t \in Slot : Holder(t) = q => Apart(u, t)
  BY <1>1, <1>2, StaffingOK
<1>4. CASE u # s
  <2>1. u \in DOMAIN result /\ result'[u] = result[u]
    BY <1>2, <1>4
  <2>2. s \notin DOMAIN locked /\ ~Before(s, u)
    BY <1>1, <1>2, <2>1, BeforeIsStrict DEF IInv, DrawnInOrder
  <2>3. \A x \in Player : Then(x, u) = Now(x, u)
    BY <2>2
  <2>4. Cardinality(Now(result[u], u)) <= Cardinality(Now(q, u))
    BY <1>2, <1>3, <2>1 DEF IInv, FewestFirst, LoadAt
  <2>5. Then(result'[u], u) = Now(result[u], u) /\ Then(q, u) = Now(q, u)
    BY <1>1, <2>1, <2>3
  <2> HIDE DEF Then, Now
  <2> QED BY <2>4, <2>5
<1>5. CASE u = s
  <2>1. \A t \in DOMAIN result : t \in DOMAIN locked \/ Before(t, s)
    BY DEF IInv, DrawnInOrder
  <2>2. ~Before(s, s)
    BY BeforeIsStrict DEF IInv
  <2>3. \A x \in Player : Then(x, s) = Counted(season, x) \union {t \in DOMAIN result : result[t] = x}
    BY <1>2, <1>5, <2>1, <2>2
  <2>4. \A x \in Player : Cardinality(Then(x, s)) = load[x] /\ load[x] \in Nat
    BY <2>3 DEF IInv, LoadsAreCounts, TypeOK
  <2>5. Free(s, q)
    BY <1>1, <1>3, <1>5, FreeIffApart
  <2>6. load[p] <= load[q]
    BY <1>2, <1>5, <2>5 DEF FewestNow
  <2> QED BY <1>1, <1>5, <2>4, <2>6
<1> QED BY <1>4, <1>5

LEMMA GiveKeeps ==
  ASSUME IInv, NEW s \in todo, NEW p \in Player, Give(s, p), Free(s, p),
         GivenInTurn(s), FewestNow(s, p)
  PROVE  IInv'
<1>1. busy
  BY DEF IInv, Quiet
<1> QED BY <1>1, GiveKeepsTypes, GiveKeepsHeld, GiveKeepsMates, GiveKeepsApart, GiveKeepsLoads,
           GiveKeepsOrder, GiveKeepsFairness DEF IInv

-----------------------------------------------------------------------------
(* The steps.                                                              *)

LEMMA LockKeeps ==
  ASSUME IInv, NEW s \in Slot, Lock(s)
  PROVE  IInv'
<1>1. s \in todo /\ s \in DOMAIN locked /\ locked[s] \in Player
  BY DEF Lock, IsFirst, IInv, TypeOK
<1>2. Free(s, locked[s]) /\ Give(s, locked[s])
  BY DEF Lock
<1> QED BY <1>1, <1>2, GiveKeeps DEF GivenInTurn, FewestNow

\* Nobody who is free ranks before the one drawn, so none has fewer shifts.
LEMMA DrawKeeps ==
  ASSUME IInv, NEW s \in Slot, NEW p \in Player, Draw(s, p)
  PROVE  IInv'
<1>1. s \in todo /\ Drawing(s) /\ Free(s, p) /\ Give(s, p)
  BY DEF Draw, Drawing, IsFirst, Eligible
<1>2. ASSUME NEW q \in Pool, Free(s, q)
      PROVE  load[p] <= load[q]
  <2>1. load[p] \in Nat /\ load[q] \in Nat
    BY DEF IInv, TypeOK, Pool
  <2>2. ~(load[q] < load[p])
    BY <1>2 DEF Draw, Eligible, RanksBefore
  <2> QED BY <2>1, <2>2
<1> QED BY <1>1, <1>2, GiveKeeps DEF GivenInTurn, FewestNow

LEMMA LeaveFreeKeeps ==
  ASSUME IInv, NEW s \in Slot, LeaveFree(s)
  PROVE  IInv'
<1>1. /\ UNCHANGED <<row, locked, season, load, held, mates, result, busy>>
      /\ todo' = todo \ {s}
  BY DEF LeaveFree
<1>2. TypeOK' /\ Quiet' /\ Picked'
  BY <1>1 DEF IInv, TypeOK, Quiet, Picked, Filled
<1>3. HeldExact' /\ MatesExact' /\ AllApart'
  BY <1>1 DEF IInv, HeldExact, MatesExact, AllApart, Holder, Apart, Dated, ShiftKey
<1>4. LoadsAreCounts' /\ FewestFirst'
  BY <1>1 DEF IInv, LoadsAreCounts, FewestFirst, LoadAt, Counted, Filled, Holder, Apart, Before,
              Dated, ShiftKey, Pool
<1>5. DrawnInOrder'
  BY <1>1 DEF IInv, DrawnInOrder, Before
<1> QED BY <1>2, <1>3, <1>4, <1>5 DEF IInv

\* Between two plans there is nothing to keep but the rows.
LEMMA DoneKeeps ==
  ASSUME IInv, Done, row' \in [Slot -> Row]
  PROVE  IInv'
<1>1. DOMAIN result' = {} /\ DOMAIN locked' = {} /\ todo' = {} /\ ~busy'
  BY DEF Done, Nothing
<1>2. TypeOK'
  BY <1>1 DEF Done, IInv, TypeOK
<1> QED BY <1>1, <1>2 DEF IInv, Quiet, Picked, HeldExact, MatesExact, AllApart, LoadsAreCounts,
                          DrawnInOrder, FewestFirst

LEMMA WriteKeeps ==
  ASSUME IInv, Write
  PROVE  IInv'
<1>1. ASSUME NEW s \in Slot, s \in DOMAIN result
      PROVE  [row[s] EXCEPT !.player = result[s]] \in Row
  BY <1>1 DEF IInv, TypeOK, Row
<1>2. row' \in [Slot -> Row]
  BY <1>1 DEF Write, IInv, TypeOK
<1> QED BY <1>2, DoneKeeps DEF Write

\* The bookkeeping starts out exact.
LEMMA BeginKeeps ==
  ASSUME IInv, NEW empty \in SUBSET (Slot \ Filled), NEW lock \in Locks(empty), NEW a \in Season,
         Begin(empty, lock, a)
  PROVE  IInv'
<1>1. /\ row' = row /\ todo' = empty /\ locked' = lock /\ season' = a /\ busy'
      /\ DOMAIN result' = {}
      /\ load' = [p \in Player |-> Cardinality(Counted(a, p))]
      /\ held' = [p \in Player |-> {row[s].day : s \in {t \in Filled : Dated(t) /\ row[t].player = p}}]
      /\ mates' = {<<ShiftKey(s), row[s].player>> : s \in Filled}
  BY DEF Begin, Nothing
<1>2. SameRows
  BY <1>1 DEF SameRows, Filled, Dated, ShiftKey, Before, Apart, Counted
<1>3. \A t \in Slot : Holder(t)' = row[t].player
  BY <1>1 DEF Holder
<1>4. row \in [Slot -> Row]
  BY DEF IInv, TypeOK
<1>5. DOMAIN lock \subseteq Slot /\ \A s \in DOMAIN lock : lock[s] \in Player
  BY DEF Locks
<1>6. TypeOK'
  <2>1. load' \in [Player -> Nat]
    <3>1. \A p \in Player : Counted(a, p) \subseteq Slot
      BY DEF Counted, Filled
    <3> QED BY <1>1, <3>1, CountsAreNat
  <2>2. held' \in [Player -> SUBSET Day]
    <3>1. \A t \in Filled : Dated(t) => row[t].day \in Day
      BY <1>4 DEF Filled, Dated, Row
    <3> QED BY <1>1, <3>1
  <2>3. mates' \subseteq ((Day \union {Undated}) \X Time \X Place) \X Player
    <3>1. \A t \in Filled : ShiftKey(t) \in (Day \union {Undated}) \X Time \X Place
                            /\ row[t].player \in Player
      BY <1>4 DEF Filled, ShiftKey, Row
    <3> QED BY <1>1, <3>1
  <2> QED BY <1>1, <1>4, <1>5, <2>1, <2>2, <2>3 DEF TypeOK
<1>7. Quiet' /\ Picked'
  BY <1>1, <1>2 DEF Quiet, Picked, SameRows
<1>8. HeldExact'
  <2>1. ASSUME NEW p \in Player, NEW d \in Day
        PROVE  d \in held'[p] <=> \E t \in Slot : Dated(t) /\ row[t].player = p /\ row[t].day = d
    BY <1>1, StaffingOK DEF Filled
  <2> QED BY <1>1, <1>2, <1>3, <2>1 DEF HeldExact, SameRows
<1>9. MatesExact'
  <2>1. ASSUME NEW p \in Player, NEW t \in Slot
        PROVE  <<ShiftKey(t), p>> \in mates'
                 <=> \E u \in Slot : row[u].player = p /\ ShiftKey(u) = ShiftKey(t)
    BY <1>1, StaffingOK DEF Filled
  <2> QED BY <1>1, <1>2, <1>3, <2>1 DEF MatesExact, SameRows
<1>10. LoadsAreCounts'
  <2>1. ASSUME NEW p \in Player
        PROVE  load'[p] = Cardinality(Counted(season, p)' \union {s \in DOMAIN result' : result'[s] = p})
    <3>1. Counted(season, p)' = Counted(a, p)
      BY <1>1 DEF Counted, Filled, Dated
    <3>2. Counted(a, p) \union {s \in DOMAIN result' : result'[s] = p} = Counted(a, p)
      BY <1>1
    <3> QED BY <1>1, <3>1, <3>2
  <2> QED BY <2>1 DEF LoadsAreCounts
<1>11. AllApart' /\ DrawnInOrder' /\ FewestFirst'
  BY <1>1 DEF AllApart, DrawnInOrder, FewestFirst
<1> QED BY <1>6, <1>7, <1>8, <1>9, <1>10, <1>11 DEF IInv

LEMMA InitEstablishes ==
  Init => IInv
<1>1. SUFFICES ASSUME Init
               PROVE  IInv
  OBVIOUS
<1>2. DOMAIN result = {} /\ DOMAIN locked = {} /\ todo = {} /\ ~busy
  BY <1>1 DEF Init, Nothing
<1>3. TypeOK
  BY <1>1, <1>2, StaffingOK DEF Init, TypeOK
<1> QED BY <1>2, <1>3 DEF IInv, Quiet, Picked, HeldExact, MatesExact, AllApart, LoadsAreCounts,
                          DrawnInOrder, FewestFirst

LEMMA StutterKeeps ==
  ASSUME IInv, UNCHANGED vars
  PROVE  IInv'
<1>1. UNCHANGED <<row, todo, locked, season, load, held, mates, result, busy>>
  BY DEF vars
<1>2. TypeOK' /\ Quiet' /\ Picked'
  BY <1>1 DEF IInv, TypeOK, Quiet, Picked, Filled
<1>3. HeldExact' /\ MatesExact' /\ AllApart'
  BY <1>1 DEF IInv, HeldExact, MatesExact, AllApart, Holder, Apart, Dated, ShiftKey
<1>4. LoadsAreCounts' /\ FewestFirst'
  BY <1>1 DEF IInv, LoadsAreCounts, FewestFirst, LoadAt, Counted, Filled, Holder, Apart, Before,
              Dated, ShiftKey, Pool
<1>5. DrawnInOrder'
  BY <1>1 DEF IInv, DrawnInOrder, Before
<1> QED BY <1>2, <1>3, <1>4, <1>5 DEF IInv

LEMMA StepsKeep ==
  IInv /\ [Next]_vars => IInv'
<1>1. SUFFICES ASSUME IInv, [Next]_vars
               PROVE  IInv'
  OBVIOUS
<1>2. CASE \E empty \in SUBSET (Slot \ Filled) :
             \E lock \in Locks(empty), a \in Season : Begin(empty, lock, a)
  BY <1>1, <1>2, BeginKeeps
<1>3. CASE \E s \in Slot : Lock(s)
  BY <1>1, <1>3, LockKeeps
<1>4. CASE \E s \in Slot : RefuseLock(s)
  <2>1. Done /\ row' = row
    BY <1>4 DEF RefuseLock
  <2> QED BY <1>1, <2>1, DoneKeeps DEF IInv, TypeOK
<1>5. CASE \E s \in Slot : LeaveFree(s)
  BY <1>1, <1>5, LeaveFreeKeeps
<1>6. CASE \E s \in Slot, p \in Player : Draw(s, p)
  BY <1>1, <1>6, DrawKeeps
<1>7. CASE Write
  BY <1>1, <1>7, WriteKeeps
<1>8. CASE UNCHANGED vars
  BY <1>1, <1>8, StutterKeeps
<1> QED BY <1>1, <1>2, <1>3, <1>4, <1>5, <1>6, <1>7, <1>8 DEF Next

LEMMA Invariance ==
  Spec => []IInv
BY InitEstablishes, StepsKeep, PTL DEF Spec

-----------------------------------------------------------------------------
(* The results.                                                            *)

\* A plan gives seats to players only, and its books hold only days and shifts
\* of the team.
THEOREM StaffedByPlayers == Spec => []TypeOK
BY Invariance, PTL DEF IInv

\* The loads that decide who is next are never out of step with the seats: not
\* across locks, undated shifts or the borders of the season.
THEOREM LoadsStayExact == Spec => []LoadsAreCounts
BY Invariance, PTL DEF IInv

\* However long the list of seats, and wherever the locks are, whoever could
\* still take a drawn seat when the plan is complete had no fewer shifts.
THEOREM FairFirst == Spec => []FewestFirst
BY Invariance, PTL DEF IInv

\* No plan puts a player on two shifts of a day, or twice on an undated shift.
THEOREM OneShiftADay == Spec => NoSecondShift
<1>1. IInv /\ [Next]_vars =>
        [Write => \A s \in DOMAIN result, t \in Slot :
                    (t # s /\ row'[t].player = result[s]) => Apart(s, t)]_vars
  <2>1. SUFFICES ASSUME IInv, Write, NEW s \in DOMAIN result, NEW t \in Slot,
                        t # s, row'[t].player = result[s]
                 PROVE  Apart(s, t)
    OBVIOUS
  <2>2. row'[t].player = Holder(t)
    <3>1. row[t] \in Row
      BY <2>1 DEF IInv, TypeOK
    <3>2. row'[t] = IF t \in DOMAIN result THEN [row[t] EXCEPT !.player = result[t]] ELSE row[t]
      BY <2>1 DEF Write
    <3>3. [row[t] EXCEPT !.player = result[t]].player = result[t]
      BY <3>1 DEF Row
    <3> QED BY <3>2, <3>3 DEF Holder
  <2> QED BY <2>1, <2>2 DEF IInv, AllApart
<1> QED BY <1>1, Invariance, PTL DEF Spec, NoSecondShift

=============================================================================
