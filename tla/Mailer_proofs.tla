----------------------------- MODULE Mailer_proofs -----------------------------
(***************************************************************************)
(* The reminder mailer, for any schedules, families, lead times and        *)
(* failures: the scheduled jobs tell nobody the same thing about the same  *)
(* shift twice although nothing is remembered between them, and whatever a *)
(* job mails agrees with the schedule as it read it.                       *)
(***************************************************************************)
EXTENDS Mailer, FiniteSetTheorems, WellFoundedInduction, TLAPS

\* The job is the day's own, not one somebody runs by hand.
Scheduled == job.at # "idle" /\ ~job.byHand

\* What an entry of told says was due on a day up to d.
DueBy(e, d) == \E o \in Lead : e[3] = RoleFor(o) /\ e[2].due - o <= d

IsDuePair(pair, date) ==
  \E o \in Lead : pair.role = RoleFor(o) /\ pair.occ.shift.due - date = o

JobTypes ==
  /\ job.at \in {"idle", "seats", "people", "send"}
  /\ job.at = "idle" => job = Idle
  /\ job.at = "seats" => job = [at |-> "seats", date |-> job.date, byHand |-> job.byHand]
  /\ job.at = "people" =>
       /\ job = [at |-> "people", date |-> job.date, byHand |-> job.byHand, rows |-> job.rows]
       /\ job.rows \in [Seat -> Row]
  /\ job.at = "send" =>
       /\ job = [at |-> "send", date |-> job.date, byHand |-> job.byHand, occs |-> job.occs,
                 todo |-> job.todo, failed |-> job.failed]
       /\ \A pair \in job.todo : /\ pair.occ.shift \in Shift
                                 /\ IsDuePair(pair, job.date)
       /\ \A a, b \in job.todo : a.occ.shift = b.occ.shift /\ a.role = b.role => a = b

IInv ==
  /\ day \in Day /\ ran \in BOOLEAN /\ row \in [Seat -> Row]
  /\ JobTypes
  /\ \A e \in told : e[2] \in Shift
  /\ \A e \in told : DueBy(e, IF ran THEN day ELSE day - 1)
  /\ Scheduled => ran /\ job.date = day
  /\ Scheduled /\ job.at \in {"seats", "people"} => \A e \in told : DueBy(e, day - 1)
  /\ Scheduled /\ job.at = "send" =>
       \A e \in told, pair \in job.todo : e[2] = pair.occ.shift => e[3] # pair.role

-----------------------------------------------------------------------------
(* The message tells which lead time it was sent at.                       *)

LEMMA LeadOK ==
  /\ Lead # {} /\ Lead \subseteq Nat
  /\ IsFiniteSet(Lead) /\ Cardinality(Lead) \in Nat /\ Cardinality(Lead) <= 2
BY MailerOK, FS_CardinalityType

LEMMA AtMostTwo ==
  ASSUME NEW a \in Lead, NEW b \in Lead, NEW c \in Lead, a # b
  PROVE  c = a \/ c = b
<1> SUFFICES ASSUME c # a, c # b PROVE FALSE
  OBVIOUS
<1>1. IsFiniteSet({a}) /\ Cardinality({a}) = 1
  BY FS_Singleton
<1>2. IsFiniteSet({a} \cup {b}) /\ Cardinality({a} \cup {b}) = 2
  BY <1>1, FS_AddElement
<1>3. IsFiniteSet(({a} \cup {b}) \cup {c}) /\ Cardinality(({a} \cup {b}) \cup {c}) = 3
  BY <1>2, FS_AddElement
<1>4. ({a} \cup {b}) \cup {c} \in SUBSET Lead
  OBVIOUS
<1>5. Cardinality(({a} \cup {b}) \cup {c}) <= Cardinality(Lead)
  BY <1>4, FS_Subset, LeadOK
<1>6. Cardinality(Lead) \in Nat
  BY LeadOK
<1>7. QED
  BY <1>3, <1>5, <1>6, LeadOK

LEMMA TwoLeads ==
  ASSUME NEW a \in Lead, NEW b \in Lead, a # b
  PROVE  Cardinality(Lead) = 2
<1>1. IsFiniteSet({a}) /\ Cardinality({a}) = 1
  BY FS_Singleton
<1>2. IsFiniteSet({a} \cup {b}) /\ Cardinality({a} \cup {b}) = 2
  BY <1>1, FS_AddElement
<1>3. {a} \cup {b} \in SUBSET Lead
  OBVIOUS
<1>4. 2 <= Cardinality(Lead)
  BY <1>2, <1>3, FS_Subset, LeadOK
<1>5. Cardinality(Lead) \in Nat
  BY LeadOK
<1>6. QED
  BY <1>4, <1>5, LeadOK

LEMMA RoleTellsLead ==
  ASSUME NEW a \in Lead, NEW b \in Lead, RoleFor(a) = RoleFor(b)
  PROVE  a = b
<1> SUFFICES ASSUME a # b PROVE FALSE
  OBVIOUS
<1>1. Cardinality(Lead) = 2
  BY TwoLeads
<1>2. (\A o \in Lead : o <= a) <=> (\A o \in Lead : o <= b)
  BY <1>1 DEF RoleFor
<1>3. \A o \in Lead : o = a \/ o = b
  BY AtMostTwo
<1>4. a \in Nat /\ b \in Nat
  BY LeadOK
<1>5. QED
  BY <1>2, <1>3, <1>4

\* What was due before a day is not due on it.
LEMMA NotAgain ==
  ASSUME NEW date \in Day, NEW e, e[2] \in Shift, DueBy(e, date - 1),
         NEW pair, pair.occ.shift = e[2], IsDuePair(pair, date)
  PROVE  e[3] # pair.role
<1> SUFFICES ASSUME e[3] = pair.role PROVE FALSE
  OBVIOUS
<1>1. PICK o \in Lead : e[3] = RoleFor(o) /\ e[2].due - o <= date - 1
  BY DEF DueBy
<1>2. PICK p \in Lead : pair.role = RoleFor(p) /\ e[2].due - date = p
  BY DEF IsDuePair
<1>3. o = p
  BY <1>1, <1>2, RoleTellsLead
<1>4. o \in Nat /\ date \in Int /\ e[2].due \in Int
  BY MailerOK DEF Day, Shift
<1>5. QED
  BY <1>1, <1>2, <1>3, <1>4

LEMMA DueByLater ==
  ASSUME NEW e, e[2] \in Shift, NEW c \in Int, NEW d \in Int, c <= d, DueBy(e, c)
  PROVE  DueBy(e, d)
<1>1. PICK o \in Lead : e[3] = RoleFor(o) /\ e[2].due - o <= c
  BY DEF DueBy
<1>2. o \in Int /\ e[2].due \in Int
  BY MailerOK DEF Day, Shift
<1>3. e[2].due - o <= d
  BY <1>1, <1>2
<1>4. QED
  BY <1>1, <1>3 DEF DueBy

-----------------------------------------------------------------------------
(* What the job makes of the schedule.                                     *)

\* A finite set has an element of least value.
LEMMA FiniteLeast ==
  ASSUME NEW S, IsFiniteSet(S), S # {}, NEW key \in [S -> Int]
  PROVE  \E x \in S : \A y \in S : key[x] <= key[y]
<1> DEFINE below(x) == {y \in S : key[y] <= key[x]}
           T == {below(x) : x \in S}
<1>1. IsWellFoundedOn(StrictSubsetOrdering(S), FiniteSubsetsOf(S))
  BY FS_StrictSubsetOrderingWellFounded
<1>2. FiniteSubsetsOf(S) = SUBSET S
  BY FS_FiniteSubsetsOfFinite
<1>3. T \in SUBSET SUBSET S /\ T # {}
  <2>1. \A x \in S : below(x) \in SUBSET S
    OBVIOUS
  <2> HIDE DEF below
  <2>2. QED
    BY <2>1
<1>4. PICK U \in T : \A V \in T : <<V, U>> \notin StrictSubsetOrdering(S)
  <2> HIDE DEF T
  <2>1. QED
    BY <1>1, <1>2, <1>3, WFMin
<1>5. PICK x \in S : U = below(x)
  BY <1>4
<1>6. ASSUME NEW y \in S, key[y] < key[x] PROVE FALSE
  <2>1. below(y) \subseteq below(x) /\ x \notin below(y) /\ x \in below(x)
    BY <1>6
  <2>2. <<below(y), below(x)>> \in StrictSubsetOrdering(S)
    BY <2>1 DEF StrictSubsetOrdering
  <2>3. QED
    BY <1>4, <1>5, <2>2
<1>7. QED
  BY <1>6

Filled(rows) == {s \in Seat : rows[s].player # Nobody}

\* The answer lists the filled seats, all of them and nothing else.
LEMMA EntriesAreFilled ==
  ASSUME NEW rows, NEW entries \in Entries(rows)
  PROVE  /\ IsFiniteSet(DOMAIN entries) /\ DOMAIN entries \subseteq Int
         /\ \A i \in DOMAIN entries : entries[i] \in Filled(rows)
         /\ \A s \in Filled(rows) : \E i \in DOMAIN entries : entries[i] = s
         /\ ToSet(entries) = Filled(rows)
<1> DEFINE n == Cardinality(Filled(rows))
<1>1. IsFiniteSet(Filled(rows)) /\ n \in Nat
  BY FS_Subset, FS_CardinalityType, MailerOK DEF Filled
<1>2. /\ entries \in [1 .. n -> Filled(rows)]
      /\ \A i, j \in 1 .. n : i # j => entries[i] # entries[j]
  BY DEF Entries, SetToSeqs, Filled
<1> HIDE DEF n
<1>3. IsFiniteSet(1 .. n) /\ Cardinality(1 .. n) = n
  BY <1>1, FS_Interval
<1>4. entries \in Injection(1 .. n, Filled(rows))
  BY <1>2 DEF Injection, IsInjective
<1>5. entries \in Surjection(1 .. n, Filled(rows))
  BY <1>1, <1>3, <1>4, FS_Injection DEF n
<1>6. \A s \in Filled(rows) : \E i \in 1 .. n : entries[i] = s
  BY <1>5 DEF Surjection
<1>7. DOMAIN entries = 1 .. n
  BY <1>2
<1>8. QED
  BY <1>1, <1>2, <1>3, <1>6, <1>7 DEF ToSet

\* Among rows of the answer there is a first.
LEMMA FirstRow ==
  ASSUME NEW rows, NEW entries \in Entries(rows), NEW I \in SUBSET DOMAIN entries, I # {}
  PROVE  \E i \in I : \A j \in I : i <= j
<1>1. IsFiniteSet(I) /\ I \subseteq Int
  BY EntriesAreFilled, FS_Subset
<1>2. [i \in I |-> i] \in [I -> Int]
  BY <1>1
<1>3. \E i \in I : \A j \in I : [k \in I |-> k][i] <= [k \in I |-> k][j]
  BY <1>1, <1>2, FiniteLeast
<1>4. QED
  BY <1>3

\* Who is listed stands on the shift and wants mail, and is listed once.
LEMMA PeopleStand ==
  ASSUME NEW rows, NEW off, NEW entries \in Entries(rows), NEW sh
  PROVE  /\ \A e \in People(rows, off, entries, sh) :
              /\ e[2] \in Parent \ off
              /\ \E s \in Filled(rows) : /\ ShiftOf(rows, s) = sh
                                         /\ e[2] \in ParentsOf[rows[s].player]
         /\ \A e, f \in People(rows, off, entries, sh) : e[2] = f[2] => e = f
<1>1. ASSUME NEW e \in People(rows, off, entries, sh)
      PROVE  /\ e[1] \in RowsOf(rows, entries, sh) /\ e[2] \in Parent \ off /\ e = <<e[1], e[2]>>
             /\ e[2] \in ParentsAt(rows, entries, e[1])
             /\ \A i \in RowsOf(rows, entries, sh) :
                  e[2] \in ParentsAt(rows, entries, i) => e[1] <= i
  BY DEF People
<1>2. \A i \in RowsOf(rows, entries, sh) :
        i \in Int /\ entries[i] \in Filled(rows) /\ ShiftOf(rows, entries[i]) = sh
  BY EntriesAreFilled DEF RowsOf
<1>3. ASSUME NEW e \in People(rows, off, entries, sh), NEW f \in People(rows, off, entries, sh),
             e[2] = f[2]
      PROVE  e = f
  <2>1. e[1] <= f[1] /\ f[1] <= e[1] /\ e[1] \in Int /\ f[1] \in Int
    BY <1>1, <1>2, <1>3
  <2>2. e[1] = f[1]
    BY <2>1
  <2>3. QED
    BY <1>1, <1>3, <2>2
<1>4. QED
  BY <1>1, <1>2, <1>3 DEF ParentsAt

\* Whoever stands on a shift and wants mail is listed.
LEMMA StandingAreListed ==
  ASSUME NEW rows, NEW off, NEW entries \in Entries(rows), NEW s \in Filled(rows),
         NEW q \in Parent \ off, q \in ParentsOf[rows[s].player]
  PROVE  \E e \in People(rows, off, entries, ShiftOf(rows, s)) : e[2] = q
<1> DEFINE I == {i \in RowsOf(rows, entries, ShiftOf(rows, s)) : q \in ParentsAt(rows, entries, i)}
<1>1. I \in SUBSET DOMAIN entries /\ I # {}
  BY EntriesAreFilled DEF RowsOf, ParentsAt
<1>2. PICK i \in I : \A j \in I : i <= j
  <2> HIDE DEF I
  <2>1. QED
    BY <1>1, FirstRow
<1>3. <<i, q>> \in People(rows, off, entries, ShiftOf(rows, s))
  BY <1>2 DEF People
<1>4. QED
  BY <1>3

\* An occurrence is that of its shift; there is one for every shift somebody
\* with an open mailbox stands on.
LEMMA OccurrencesAre ==
  ASSUME NEW rows, NEW off, NEW entries \in Entries(rows)
  PROVE  /\ \A o \in Occurrences(rows, off, entries) :
              /\ o = OccurrenceOf(rows, off, entries, o.shift)
              /\ \E s \in Filled(rows) : o.shift = ShiftOf(rows, s)
         /\ \A s \in Filled(rows) :
              ParentsOf[rows[s].player] \intersect (Parent \ off) # {} =>
                OccurrenceOf(rows, off, entries, ShiftOf(rows, s))
                  \in Occurrences(rows, off, entries)
<1>1. ToSet(entries) = Filled(rows)
  BY EntriesAreFilled
<1>2. \A sh : OccurrenceOf(rows, off, entries, sh).shift = sh
  BY DEF OccurrenceOf
<1>3. \A o \in Occurrences(rows, off, entries) :
        \E s \in Filled(rows) : o = OccurrenceOf(rows, off, entries, ShiftOf(rows, s))
  BY <1>1 DEF Occurrences
<1>4. ASSUME NEW s \in Filled(rows), ParentsOf[rows[s].player] \intersect (Parent \ off) # {}
      PROVE  OccurrenceOf(rows, off, entries, ShiftOf(rows, s)) \in Occurrences(rows, off, entries)
  <2>1. PICK q \in Parent \ off : q \in ParentsOf[rows[s].player]
    BY <1>4
  <2>2. People(rows, off, entries, ShiftOf(rows, s)) # {}
    BY <2>1, StandingAreListed
  <2>3. Mailed(OccurrenceOf(rows, off, entries, ShiftOf(rows, s)))
    BY <2>2 DEF Mailed, OccurrenceOf
  <2>4. QED
    BY <1>1, <2>3 DEF Occurrences
<1>5. QED
  BY <1>2, <1>3, <1>4

\* One occurrence to a shift.
LEMMA OccurrencePerShift ==
  ASSUME NEW rows \in [Seat -> Row], NEW off, NEW entries \in Entries(rows)
  PROVE  /\ \A o \in Occurrences(rows, off, entries) : o.shift \in Shift
         /\ \A o, p \in Occurrences(rows, off, entries) : o.shift = p.shift => o = p
<1>1. \A s \in Filled(rows) : ShiftOf(rows, s) \in Shift
  BY DEF ShiftOf, Shift, Row, Filled
<1>2. QED
  BY <1>1, OccurrencesAre

LEMMA DuePairs ==
  ASSUME NEW rows \in [Seat -> Row], NEW off, NEW entries \in Entries(rows), NEW date,
         NEW occs, occs = Occurrences(rows, off, entries)
  PROVE  /\ \A pair \in DueOn(occs, date) : /\ pair.occ.shift \in Shift
                                            /\ IsDuePair(pair, date)
         /\ \A a, b \in DueOn(occs, date) :
              a.occ.shift = b.occ.shift /\ a.role = b.role => a = b
<1>1. \A pair \in DueOn(occs, date) :
        \E o \in occs, offset \in Lead :
          /\ pair = [occ |-> o, role |-> RoleFor(offset)]
          /\ o.shift.due - date = offset
  BY DEF DueOn, IsDue
<1>2. \A pair \in DueOn(occs, date) : /\ pair.occ \in occs
                                      /\ pair = [occ |-> pair.occ, role |-> pair.role]
                                      /\ IsDuePair(pair, date)
  BY <1>1 DEF IsDuePair
<1>3. QED
  BY <1>2, OccurrencePerShift

LEMMA MessageOf ==
  ASSUME NEW occs, NEW pair
  PROVE  Message(occs, pair).shift = pair.occ.shift /\ Message(occs, pair).role = pair.role
BY DEF Message

-----------------------------------------------------------------------------
(* Every step keeps the invariant.                                         *)

\* The job ends or never began: nothing is left of it but told.
LEMMA IdleInv ==
  ASSUME IInv, job' = Idle, day' \in Day, ran' \in BOOLEAN, row' = row, told' = told,
         (IF ran THEN day ELSE day - 1) <= (IF ran' THEN day' ELSE day' - 1)
  PROVE  IInv'
<1>1. JobTypes'
  BY DEF JobTypes, Idle
<1>2. ~Scheduled'
  BY DEF Scheduled, Idle
<1>3. (IF ran THEN day ELSE day - 1) \in Int /\ (IF ran' THEN day' ELSE day' - 1) \in Int
  BY MailerOK DEF IInv, Day
<1>4. \A e \in told' : e[2] \in Shift /\ DueBy(e, IF ran' THEN day' ELSE day' - 1)
  BY <1>3, DueByLater DEF IInv
<1>5. QED
  BY <1>1, <1>2, <1>4 DEF IInv

LEMMA BeginInv ==
  ASSUME IInv, NEW date \in Day, NEW byHand \in BOOLEAN, Begin(date, byHand)
  PROVE  IInv'
<1>1. job' = [at |-> "seats", date |-> date, byHand |-> byHand]
  BY DEF Begin
<1>2. /\ day' = day /\ row' = row /\ told' = told /\ ran' = (ran \/ ~byHand)
      /\ byHand \/ (~ran /\ date = day)
  BY DEF Begin
<1>3. JobTypes'
  BY <1>1 DEF JobTypes
<1>4. day \in Int
  BY MailerOK DEF IInv, Day
<1>5. \A e \in told : e[2] \in Shift /\ DueBy(e, IF ran THEN day ELSE day - 1)
  BY DEF IInv
<1>6. \A e \in told : DueBy(e, IF ran' THEN day ELSE day - 1)
  <2>1. CASE ran
    BY <1>2, <1>5, <2>1 DEF IInv
  <2>2. CASE ~ran
    BY <1>4, <1>5, <2>2, DueByLater
  <2>3. QED
    BY <2>1, <2>2
<1>7. ~byHand => ran' /\ date = day /\ \A e \in told : DueBy(e, day - 1)
  BY <1>2, <1>5
<1>8. QED
  BY <1>1, <1>2, <1>3, <1>5, <1>6, <1>7 DEF IInv, Scheduled

LEMMA ReadSeatsInv == ASSUME IInv, ReadSeats PROVE IInv'
<1>1. job' = [at |-> "people", date |-> job.date, byHand |-> job.byHand, rows |-> row]
  BY DEF ReadSeats
<1>2. day' = day /\ row' = row /\ told' = told /\ ran' = ran /\ job.at = "seats"
  BY DEF ReadSeats
<1>3. JobTypes'
  BY <1>1 DEF JobTypes, IInv
<1>4. QED
  BY <1>1, <1>2, <1>3 DEF IInv, Scheduled

LEMMA ReadPeopleInv == ASSUME IInv, ReadPeople PROVE IInv'
<1> DEFINE occs(entries) == Occurrences(job.rows, muted, entries)
<1>1. PICK entries \in Entries(job.rows) :
        job' = [at |-> "send", date |-> job.date, byHand |-> job.byHand,
                occs |-> occs(entries), todo |-> DueOn(occs(entries), job.date), failed |-> {}]
  BY DEF ReadPeople
<1>2. day' = day /\ row' = row /\ told' = told /\ ran' = ran /\ job.at = "people"
  BY DEF ReadPeople
<1>3. job.rows \in [Seat -> Row]
  BY <1>2 DEF IInv, JobTypes
<1>4. /\ \A pair \in DueOn(occs(entries), job.date) :
           pair.occ.shift \in Shift /\ IsDuePair(pair, job.date)
      /\ \A a, b \in DueOn(occs(entries), job.date) :
           a.occ.shift = b.occ.shift /\ a.role = b.role => a = b
  BY <1>3, DuePairs
<1> HIDE DEF occs
<1>5. job'.todo = DueOn(occs(entries), job.date) /\ job'.date = job.date
      /\ job'.byHand = job.byHand /\ job'.at = "send"
  BY <1>1
<1>6. JobTypes'
  BY <1>1, <1>4, <1>5 DEF JobTypes, IsDuePair
<1>7. ASSUME Scheduled', NEW e \in told, NEW pair \in job'.todo, e[2] = pair.occ.shift
      PROVE  e[3] # pair.role
  <2>1. Scheduled
    BY <1>2, <1>5, <1>7 DEF Scheduled
  <2>2. job.date = day /\ DueBy(e, day - 1) /\ e[2] \in Shift /\ day \in Day
    BY <1>2, <2>1 DEF IInv
  <2>3. QED
    BY <1>4, <1>5, <1>7, <2>2, NotAgain
<1>8. Scheduled' => Scheduled
  BY <1>2, <1>5 DEF Scheduled
<1>9. QED
  BY <1>2, <1>5, <1>6, <1>7, <1>8 DEF IInv, Scheduled

\* The job has dealt with one pair: mailed it, or failed to.
LEMMA DoneWithPair ==
  ASSUME IInv, job.at = "send", NEW pair \in job.todo, NEW failed,
         job' = [at |-> "send", date |-> job.date, byHand |-> job.byHand, occs |-> job.occs,
                 todo |-> job.todo \ {pair}, failed |-> failed]
  PROVE  JobTypes' /\ (Scheduled' <=> Scheduled)
<1>1. \A p \in job'.todo : p \in job.todo
  OBVIOUS
<1>2. JobTypes'
  BY <1>1 DEF IInv, JobTypes
<1>3. QED
  BY <1>2 DEF Scheduled

\* Some of the group was told, or nobody.
LEMMA PairInv ==
  ASSUME IInv, job.at = "send", NEW pair \in job.todo, NEW failed, NEW whom,
         job' = [at |-> "send", date |-> job.date, byHand |-> job.byHand, occs |-> job.occs,
                 todo |-> job.todo \ {pair}, failed |-> failed],
         Tell(Message(job.occs, pair), whom), day' = day, row' = row, ran' = ran
  PROVE  IInv'
<1>1. /\ job'.at = "send" /\ job'.date = job.date
      /\ \A p \in job'.todo : p \in job.todo /\ p # pair
  OBVIOUS
<1>2. JobTypes' /\ (Scheduled' <=> Scheduled)
  BY DoneWithPair
<1>3. /\ pair.occ.shift \in Shift /\ IsDuePair(pair, job.date)
      /\ \A p \in job.todo : p.occ.shift = pair.occ.shift /\ p.role = pair.role => p = pair
  BY DEF IInv, JobTypes
<1>4. \A e \in told' : e \in told \/ (Scheduled /\ e[2] = pair.occ.shift /\ e[3] = pair.role)
  BY MessageOf DEF Tell, Scheduled
<1>5. Scheduled => ran /\ job.date = day
  BY DEF IInv
<1>6. \A e \in told' : e[2] \in Shift
  BY <1>3, <1>4 DEF IInv
<1>7. ASSUME NEW e \in told' PROVE DueBy(e, IF ran' THEN day' ELSE day' - 1)
  <2>1. CASE e \in told
    BY <2>1 DEF IInv
  <2>2. CASE Scheduled /\ e[2] = pair.occ.shift /\ e[3] = pair.role
    <3>1. PICK o \in Lead : pair.role = RoleFor(o) /\ pair.occ.shift.due - job.date = o
      BY <1>3 DEF IsDuePair
    <3>2. o \in Int /\ day \in Int /\ pair.occ.shift.due \in Int
      BY <1>3, MailerOK DEF IInv, Day, Shift
    <3>3. e[2].due - o <= day
      BY <1>5, <2>2, <3>1, <3>2
    <3>4. QED
      BY <1>5, <2>2, <3>1, <3>3 DEF DueBy
  <2>3. QED
    BY <1>4, <2>1, <2>2
<1>8. ASSUME Scheduled, NEW e \in told', NEW p \in job'.todo, e[2] = p.occ.shift
      PROVE  e[3] # p.role
  <2>1. CASE e \in told
    BY <1>1, <1>8, <2>1 DEF IInv
  <2>2. CASE e[2] = pair.occ.shift /\ e[3] = pair.role
    BY <1>1, <1>3, <1>8, <2>2
  <2>3. QED
    BY <1>4, <2>1, <2>2
<1>9. QED
  BY <1>1, <1>2, <1>5, <1>6, <1>7, <1>8 DEF IInv

LEMMA SendFailsInv == ASSUME IInv, SendFails PROVE IInv'
<1>1. PICK pair \in job.todo :
        /\ \E arrived \in SUBSET To(Message(job.occs, pair)) : Tell(Message(job.occs, pair), arrived)
        /\ job' = [job EXCEPT !.todo = @ \ {pair}, !.failed = @ \union {Message(job.occs, pair)}]
  BY DEF SendFails, Soonest
<1>2. day' = day /\ row' = row /\ ran' = ran /\ job.at = "send"
  BY DEF SendFails
<1>3. job' = [at |-> "send", date |-> job.date, byHand |-> job.byHand, occs |-> job.occs,
              todo |-> job.todo \ {pair},
              failed |-> job.failed \union {Message(job.occs, pair)}]
  BY <1>1, <1>2 DEF IInv, JobTypes
<1>4. PICK arrived : Tell(Message(job.occs, pair), arrived)
  BY <1>1
<1>5. QED
  BY <1>2, <1>3, <1>4, PairInv

LEMMA SendInv == ASSUME IInv, Send PROVE IInv'
<1>1. PICK pair \in job.todo :
        /\ \E whom : Tell(Message(job.occs, pair), whom)
        /\ job' = [job EXCEPT !.todo = @ \ {pair}]
  BY DEF Send, Soonest
<1>2. day' = day /\ row' = row /\ ran' = ran /\ job.at = "send"
  BY DEF Send
<1>3. job' = [at |-> "send", date |-> job.date, byHand |-> job.byHand, occs |-> job.occs,
              todo |-> job.todo \ {pair}, failed |-> job.failed]
  BY <1>1, <1>2 DEF IInv, JobTypes
<1>4. PICK whom : Tell(Message(job.occs, pair), whom)
  BY <1>1
<1>5. QED
  BY <1>2, <1>3, <1>4, PairInv

LEMMA ChangeInv == ASSUME IInv, Change PROVE IInv'
<1>1. day' = day /\ ran' = ran /\ job' = job /\ told' = told
  BY DEF Change
<1>2. row' \in [Seat -> Row]
  BY DEF Change, IInv, Row
<1>3. JobTypes' /\ (Scheduled' <=> Scheduled)
  BY <1>1 DEF IInv, JobTypes, Scheduled
<1>4. QED
  BY <1>1, <1>2, <1>3 DEF IInv

LEMMA NextDayInv == ASSUME IInv, NextDay PROVE IInv'
<1>1. /\ job' = Idle /\ day' = day + 1 /\ day < LastDay /\ ~ran' /\ ran' \in BOOLEAN
      /\ row' = row /\ told' = told
  BY DEF NextDay, IInv, JobTypes
<1>2. day \in Nat /\ day' \in Day
  BY <1>1, MailerOK DEF IInv, Day
<1>3. (IF ran THEN day ELSE day - 1) <= (IF ran' THEN day' ELSE day' - 1)
  BY <1>1, <1>2
<1>4. QED
  BY <1>1, <1>2, <1>3, IdleInv

LEMMA EndInv == ASSUME IInv, Exit \/ Abort PROVE IInv'
<1>1. job' = Idle /\ day' = day /\ ran' = ran /\ row' = row /\ told' = told
  BY DEF Exit, Abort, End
<1>2. (IF ran THEN day ELSE day - 1) <= (IF ran' THEN day' ELSE day' - 1)
  BY <1>1, MailerOK DEF IInv, Day
<1>3. QED
  BY <1>1, <1>2, IdleInv DEF IInv

LEMMA StepInv == IInv /\ [Next]_vars => IInv'
<1> SUFFICES ASSUME IInv, [Next]_vars PROVE IInv'
  OBVIOUS
<1>1. CASE UNCHANGED vars
  BY <1>1 DEF vars, IInv, JobTypes, Scheduled
<1>2. CASE Next
  BY <1>2, BeginInv, ReadSeatsInv, ReadPeopleInv, SendInv, SendFailsInv, EndInv, ChangeInv,
     NextDayInv DEF Next
<1>3. QED
  BY <1>1, <1>2

LEMMA InitInv == Init => IInv
<1> SUFFICES ASSUME Init PROVE IInv
  OBVIOUS
<1>1. /\ job = Idle /\ told = {} /\ day = 0 /\ ran = FALSE /\ row \in [Seat -> Row]
  BY MailerOK DEF Init
<1>2. JobTypes /\ ~Scheduled
  BY <1>1 DEF JobTypes, Scheduled, Idle
<1>3. day \in Day
  BY <1>1, MailerOK DEF Day
<1>4. ran \in BOOLEAN /\ \A e : e \notin told
  BY <1>1
<1>5. QED
  BY <1>1, <1>2, <1>3, <1>4 DEF IInv

-----------------------------------------------------------------------------
\* A scheduled job that mails about a shift, or fails to, has not told the same
\* people the same thing before, whatever jobs before it did, whoever ran one by hand, and
\* however the schedule changed.
THEOREM ToldOnce == Spec => NobodyToldTwice
<1> DEFINE Fresh == \A m \in (sent' \union Tried(job')) \ (sent \union Tried(job)) :
                      ~job.byHand => \A q \in To(m) : <<q, m.shift, m.role>> \notin told
<1>1. ASSUME IInv, [Next]_vars PROVE Fresh
  <2>1. ASSUME Send \/ SendFails PROVE Fresh
    <3>1. job.at = "send" /\ JobTypes
      BY <1>1, <2>1 DEF Send, SendFails, IInv
    <3>2. PICK pair \in job.todo :
            \/ /\ sent' = sent \union {Message(job.occs, pair)}
               /\ job' = [job EXCEPT !.todo = @ \ {pair}]
            \/ /\ sent' = sent
               /\ job' = [job EXCEPT !.todo = @ \ {pair},
                                     !.failed = @ \union {Message(job.occs, pair)}]
      BY <2>1 DEF Send, SendFails, Soonest
    <3>3. Tried(job) = job.failed
      BY <3>1 DEF Tried
    <3>4. job'.at = "send" /\ job'.failed \subseteq job.failed \union {Message(job.occs, pair)}
      BY <3>1, <3>2 DEF JobTypes
    <3>5. \A m \in (sent' \union Tried(job')) \ (sent \union Tried(job)) :
            m = Message(job.occs, pair)
      BY <3>2, <3>3, <3>4 DEF Tried
    <3>6. ASSUME ~job.byHand, NEW q, <<q, pair.occ.shift, pair.role>> \in told PROVE FALSE
      <4>1. Scheduled
        BY <3>1, <3>6 DEF Scheduled
      <4>2. QED
        BY <1>1, <3>1, <3>6, <4>1 DEF IInv
    <3>7. QED
      BY <3>5, <3>6, MessageOf
  <2>2. ASSUME ~Send, ~SendFails PROVE sent' \subseteq sent /\ Tried(job') \subseteq Tried(job)
    <3>1. CASE ReadPeople
      BY <3>1 DEF ReadPeople, Tried
    <3>2. CASE ~ReadPeople
      BY <1>1, <2>2, <3>2 DEF Next, vars, Begin, ReadSeats, Exit, Abort, End, Idle,
                              Change, NextDay, Tried
    <3>3. QED
      BY <3>1, <3>2
  <2>3. QED
    BY <2>1, <2>2
<1>2. [][Fresh]_vars <=> NobodyToldTwice
  BY DEF NobodyToldTwice
<1>3. QED
  BY <1>1, <1>2, InitInv, StepInv, PTL DEF Spec

-----------------------------------------------------------------------------
(* What a job mails is told from one reading of the seats and one of the   *)
(* people, each of some moment of the job.                                 *)

On(rows) == Now(rows, {}).on
Open(off) == Parent \ off

\* A job that sends has read rows, off and entries: what stood at every moment
\* of the job is in them, and they hold nothing that never stood.
Read(rows, off, entries) ==
  /\ job.occs = Occurrences(rows, off, entries)
  /\ always.on \subseteq On(rows) /\ On(rows) \subseteq ever.on
  /\ always.open \subseteq Open(off) /\ Open(off) \subseteq ever.open

\* The pairs that are due are the ones to do and the ones done.
Progress ==
  /\ job.todo \subseteq DueOn(job.occs, job.date)
  /\ \A m \in sent \union job.failed :
       \E pair \in DueOn(job.occs, job.date) : m = Message(job.occs, pair)
  /\ \A pair \in DueOn(job.occs, job.date) :
       pair \in job.todo \/ Message(job.occs, pair) \in sent \union job.failed

SentInv ==
  /\ job.at # "idle" => job.date \in Day
  /\ job.at # "send" => sent = {}
  /\ job.at = "people" => always.on \subseteq On(job.rows) /\ On(job.rows) \subseteq ever.on
  /\ job.at = "send" =>
       /\ \E rows \in [Seat -> Row] : \E off, entries :
            entries \in Entries(rows) /\ Read(rows, off, entries)
       /\ Progress

LEMMA NowIs == ASSUME NEW rows, NEW off PROVE Now(rows, off) = [on |-> On(rows), open |-> Open(off)]
BY DEF Now, On, Open

LEMMA Remembered ==
  ASSUME Remember, job.at # "idle", job'.at # "idle"
  PROVE  /\ always'.on \subseteq always.on \intersect On(row')
         /\ ever.on \union On(row') \subseteq ever'.on
         /\ always'.open \subseteq always.open \intersect Open(muted')
         /\ ever.open \union Open(muted') \subseteq ever'.open
<1>1. Now(row, muted)' = [on |-> On(row'), open |-> Open(muted')]
  BY NowIs DEF Now, On, Open, Parent, ShiftOf
<1>2. job' # Idle
  BY DEF Idle
<1>3. /\ ever' = [on |-> ever.on \union Now(row, muted)'.on,
                  open |-> ever.open \union Now(row, muted)'.open]
      /\ always' = [on |-> always.on \intersect Now(row, muted)'.on,
                    open |-> always.open \intersect Now(row, muted)'.open]
  BY DEF Remember
<1>4. QED
  BY <1>1, <1>3

\* A step of a sending job that leaves the pairs as they are.
LEMMA StillRead ==
  ASSUME SentInv, Remember, job.at = "send", job'.at = "send", job'.occs = job.occs
  PROVE  \E rows \in [Seat -> Row] : \E off, entries :
           entries \in Entries(rows) /\ Read(rows, off, entries)'
<1>1. PICK rows \in [Seat -> Row] : \E off, entries :
        entries \in Entries(rows) /\ Read(rows, off, entries)
  BY DEF SentInv
<1>2. PICK off, entries : entries \in Entries(rows) /\ Read(rows, off, entries)
  BY <1>1
<1>3. Read(rows, off, entries)'
  BY <1>2, Remembered DEF Read
<1>4. QED
  BY <1>2, <1>3

LEMMA SentBegin ==
  ASSUME SentInv, NEW date \in Day, NEW byHand \in BOOLEAN, Begin(date, byHand)
  PROVE  SentInv'
BY DEF SentInv, Begin

LEMMA SentReadSeats == ASSUME SentInv, ReadSeats, Remember PROVE SentInv'
<1>1. /\ job.at = "seats" /\ job'.at = "people" /\ job'.date = job.date /\ job'.rows = row
      /\ row' = row /\ sent' = sent
  BY DEF ReadSeats
<1>2. QED
  BY <1>1, Remembered DEF SentInv

LEMMA SentReadPeople == ASSUME IInv, SentInv, ReadPeople, Remember PROVE SentInv'
<1>1. PICK entries \in Entries(job.rows) :
        job' = [at |-> "send", date |-> job.date, byHand |-> job.byHand,
                occs |-> Occurrences(job.rows, muted, entries),
                todo |-> DueOn(Occurrences(job.rows, muted, entries), job.date), failed |-> {}]
  BY DEF ReadPeople
<1>2. job.at = "people" /\ row' = row /\ muted' = muted /\ sent' = sent /\ sent = {}
  BY DEF ReadPeople, SentInv
<1>3. job.rows \in [Seat -> Row]
  BY <1>2 DEF IInv, JobTypes
<1>4. /\ job'.at = "send" /\ job'.date = job.date
      /\ job'.occs = Occurrences(job.rows, muted, entries)
      /\ job'.todo = DueOn(Occurrences(job.rows, muted, entries), job.date) /\ job'.failed = {}
  BY <1>1
<1>5. PICK rows, off : rows = job.rows /\ off = muted
  OBVIOUS
<1>6. Read(rows, off, entries)'
  BY <1>2, <1>4, <1>5, Remembered DEF Read, SentInv
<1>7. Progress'
  BY <1>2, <1>4 DEF Progress
<1>8. QED
  BY <1>2, <1>3, <1>4, <1>5, <1>6, <1>7 DEF SentInv

LEMMA SentSend == ASSUME IInv, SentInv, Send \/ SendFails, Remember PROVE SentInv'
<1>1. PICK pair \in job.todo :
        /\ job' = [job EXCEPT !.todo = @ \ {pair}] /\ sent' = sent \union {Message(job.occs, pair)}
        \/ /\ job' = [job EXCEPT !.todo = @ \ {pair},
                                 !.failed = @ \union {Message(job.occs, pair)}]
           /\ sent' = sent
  BY DEF Send, SendFails, Soonest
<1>2. job.at = "send"
  BY DEF Send, SendFails
<1>3. /\ job'.at = "send" /\ job'.date = job.date /\ job'.occs = job.occs
      /\ job'.todo = job.todo \ {pair}
      /\ sent' \union job'.failed = (sent \union job.failed) \union {Message(job.occs, pair)}
  BY <1>1, <1>2 DEF IInv, JobTypes
<1>4. Progress
  BY <1>2 DEF SentInv
<1>5. Progress'
  BY <1>3, <1>4 DEF Progress
<1>6. QED
  BY <1>2, <1>3, <1>5, StillRead DEF SentInv

LEMMA SentChange == ASSUME SentInv, Change, Remember PROVE SentInv'
<1>1. job' = job /\ sent' = sent
  BY DEF Change
<1>2. CASE job.at = "send"
  <2>1. Progress'
    BY <1>1, <1>2 DEF SentInv, Progress
  <2>2. QED
    BY <1>1, <1>2, <2>1, StillRead DEF SentInv
<1>3. CASE job.at = "people"
  BY <1>1, <1>3, Remembered DEF SentInv
<1>4. CASE job.at \notin {"people", "send"}
  BY <1>1, <1>4 DEF SentInv
<1>5. QED
  BY <1>2, <1>3, <1>4

LEMMA SentStep == IInv /\ SentInv /\ [Next]_vars => SentInv'
<1> SUFFICES ASSUME IInv, SentInv, [Next]_vars PROVE SentInv'
  OBVIOUS
<1>1. CASE UNCHANGED vars
  BY <1>1 DEF vars, SentInv, Read, Progress
<1>2. ASSUME Exit \/ Abort PROVE SentInv'
  BY <1>2 DEF Exit, Abort, End, Idle, SentInv
<1>3. ASSUME NextDay PROVE SentInv'
  BY <1>3 DEF NextDay, SentInv
<1>4. CASE Next
  BY <1>2, <1>3, <1>4, SentBegin, SentReadSeats, SentReadPeople, SentSend, SentChange DEF Next
<1>5. QED
  BY <1>1, <1>4

LEMMA SentInit == Init => SentInv
BY DEF Init, SentInv, Idle

THEOREM JobsReadOnce == Spec => [](IInv /\ SentInv)
<1>1. QED
  BY InitInv, StepInv, SentInit, SentStep, PTL DEF Spec

-----------------------------------------------------------------------------
(* What follows for a mail.                                                *)

\* Who stands on a seat, as the histories tell it.
LEMMA StandsOn ==
  ASSUME NEW rows, NEW x
  PROVE  x \in On(rows) <=>
           \E s \in Filled(rows) :
             x = [player |-> rows[s].player, shift |-> ShiftOf(rows, s), seat |-> s]
BY DEF On, Now, Filled

\* A pair that is due is of an occurrence read, at a lead time.
LEMMA DueOf ==
  ASSUME NEW occs, NEW date, NEW pair \in DueOn(occs, date)
  PROVE  /\ pair.occ \in occs /\ pair = [occ |-> pair.occ, role |-> pair.role]
         /\ \E offset \in Lead : pair.role = RoleFor(offset) /\ pair.occ.shift.due - date = offset
BY DEF DueOn, IsDue

LEMMA MailOnlyThoseOnDuty ==
  ASSUME NEW rows, NEW off, NEW entries \in Entries(rows), Read(rows, off, entries),
         NEW pair \in DueOn(job.occs, job.date), NEW m, m = Message(job.occs, pair)
  PROVE  /\ \A e, f \in m.to : e[2] = f[2] => e = f
         /\ \A q \in To(m) :
              /\ q \in ever.open
              /\ \E x \in ever.on : q \in ParentsOf[x.player] /\ x.shift = m.shift
<1>1. m.to = pair.occ.people /\ m.shift = pair.occ.shift
  BY DEF Message
<1>2. pair.occ = OccurrenceOf(rows, off, entries, pair.occ.shift)
  BY DueOf, OccurrencesAre DEF Read
<1>3. m.to = People(rows, off, entries, m.shift)
  BY <1>1, <1>2 DEF OccurrenceOf
<1>4. ASSUME NEW q \in To(m)
      PROVE  /\ q \in ever.open
             /\ \E x \in ever.on : q \in ParentsOf[x.player] /\ x.shift = m.shift
  <2>1. PICK e \in m.to : q = e[2]
    BY <1>4 DEF To
  <2>2. PICK s \in Filled(rows) : ShiftOf(rows, s) = m.shift /\ q \in ParentsOf[rows[s].player]
    BY <1>3, <2>1, PeopleStand
  <2>3. q \in Open(off)
    BY <1>3, <2>1, PeopleStand DEF Open
  <2>4. PICK x : x = [player |-> rows[s].player, shift |-> ShiftOf(rows, s), seat |-> s]
    OBVIOUS
  <2>5. x \in ever.on
    BY <2>4, StandsOn DEF Read
  <2>6. QED
    BY <2>2, <2>3, <2>4, <2>5 DEF Read
<1>5. QED
  BY <1>3, <1>4, PeopleStand

\* Nobody is mailed about a shift they did not stand on or without wanting it,
\* nor addressed twice in one mail, however the schedule changes under the job.
THEOREM OnlyThoseAreMailed == Spec => []OnlyThoseOnDuty
<1>1. ASSUME SentInv PROVE OnlyThoseOnDuty
  <2> SUFFICES ASSUME NEW m \in sent
               PROVE  /\ \A e, f \in m.to : e[2] = f[2] => e = f
                      /\ \A q \in To(m) :
                           /\ q \in ever.open
                           /\ \E x \in ever.on : q \in ParentsOf[x.player] /\ x.shift = m.shift
    BY DEF OnlyThoseOnDuty
  <2>1. job.at = "send"
    BY <1>1 DEF SentInv
  <2>2. PICK rows \in [Seat -> Row] : \E off, entries :
          entries \in Entries(rows) /\ Read(rows, off, entries)
    BY <1>1, <2>1 DEF SentInv
  <2>3. PICK off, entries : entries \in Entries(rows) /\ Read(rows, off, entries)
    BY <2>2
  <2>4. PICK pair \in DueOn(job.occs, job.date) : m = Message(job.occs, pair)
    BY <1>1, <2>1 DEF SentInv, Progress
  <2>5. QED
    BY <2>3, <2>4, MailOnlyThoseOnDuty
<1>2. QED
  BY <1>1, JobsReadOnce, PTL

LEMMA MailForEverybody ==
  ASSUME NEW rows \in [Seat -> Row], NEW off, NEW entries \in Entries(rows),
         Read(rows, off, entries), Progress, job.todo = {}, job.date \in Day,
         NEW x \in always.on, NEW offset \in Lead, x.shift.due = job.date + offset,
         NEW q \in ParentsOf[x.player] \intersect always.open
  PROVE  Cardinality({m \in sent \union job.failed :
                        /\ m.shift = x.shift /\ m.role = RoleFor(offset)
                        /\ q \in To(m)}) = 1
<1>1. PICK s \in Filled(rows) :
        x = [player |-> rows[s].player, shift |-> ShiftOf(rows, s), seat |-> s]
  BY StandsOn DEF Read
<1>2. q \in Parent \ off /\ q \in ParentsOf[rows[s].player] /\ x.shift = ShiftOf(rows, s)
  BY <1>1 DEF Read, Open
<1>3. PICK o : o = OccurrenceOf(rows, off, entries, x.shift)
  OBVIOUS
<1>4. o \in job.occs /\ o.shift = x.shift /\ o.people = People(rows, off, entries, x.shift)
  BY <1>2, <1>3, OccurrencesAre DEF Read, OccurrenceOf
<1>5. PICK pair : pair = [occ |-> o, role |-> RoleFor(offset)]
  OBVIOUS
<1>6. o.shift.due - job.date = offset
  BY <1>4, LeadOK, MailerOK DEF Day
<1>7. pair \in DueOn(job.occs, job.date)
  BY <1>4, <1>5, <1>6 DEF DueOn, IsDue
<1>8. PICK m : m = Message(job.occs, pair)
  OBVIOUS
<1>9. m \in sent \union job.failed
  BY <1>7, <1>8 DEF Progress
<1>10. m.shift = x.shift /\ m.role = RoleFor(offset) /\ m.to = People(rows, off, entries, x.shift)
  BY <1>4, <1>5, <1>8 DEF Message
<1>11. q \in To(m)
  <2>1. \E e \in People(rows, off, entries, ShiftOf(rows, s)) : e[2] = q
    BY <1>2, StandingAreListed
  <2>2. QED
    BY <1>2, <1>10, <2>1 DEF To
<1>12. ASSUME NEW n \in sent \union job.failed, n.shift = x.shift, n.role = RoleFor(offset)
       PROVE  n = m
  <2>1. PICK other \in DueOn(job.occs, job.date) : n = Message(job.occs, other)
    BY DEF Progress
  <2>2. other.occ.shift = pair.occ.shift /\ other.role = pair.role
    BY <1>4, <1>5, <1>12, <2>1, MessageOf
  <2>3. other = pair
    BY <1>7, <2>2, DuePairs DEF Read
  <2>4. QED
    BY <1>8, <2>1, <2>3
<1>13. {n \in sent \union job.failed :
          n.shift = x.shift /\ n.role = RoleFor(offset) /\ q \in To(n)} = {m}
  BY <1>9, <1>10, <1>11, <1>12
<1>14. QED
  BY <1>13, FS_Singleton

\* The failure of one mail costs no other group its reminder: a job that gets
\* to its end has handed the server one mail for everybody concerned, or failed
\* at that very mail.
THEOREM EverybodyIsReminded == Spec => []NobodyForgotten
<1>1. ASSUME SentInv PROVE NobodyForgotten
  <2>1. ASSUME job.at = "send" PROVE NobodyForgotten
    <3>1. PICK rows \in [Seat -> Row] : \E off, entries :
            entries \in Entries(rows) /\ Read(rows, off, entries)
      BY <1>1, <2>1 DEF SentInv
    <3>2. PICK off, entries : entries \in Entries(rows) /\ Read(rows, off, entries)
      BY <3>1
    <3>3. Progress /\ job.date \in Day
      BY <1>1, <2>1 DEF SentInv
    <3>4. QED
      BY <3>2, <3>3, MailForEverybody DEF NobodyForgotten
  <2>2. QED
    BY <2>1 DEF NobodyForgotten
<1>2. QED
  BY <1>1, JobsReadOnce, PTL

LEMMA MailNamesOneCounter ==
  ASSUME NEW rows, NEW off, NEW entries \in Entries(rows), Read(rows, off, entries),
         NEW pair \in DueOn(job.occs, job.date), NEW m, m = Message(job.occs, pair),
         m.station # NoStation, NEW x \in always.on, x.shift = m.shift
  PROVE  StationOf[x.seat] = m.station
<1>1. pair.occ = OccurrenceOf(rows, off, entries, pair.occ.shift)
  BY DueOf, OccurrencesAre DEF Read
<1>2. m.shift = pair.occ.shift /\ m.station = pair.occ.station
  BY DEF Message
<1>3. m.station = Named(Stations(rows, entries, m.shift))
  BY <1>1, <1>2 DEF OccurrenceOf
<1>4. PICK s \in Filled(rows) :
        x = [player |-> rows[s].player, shift |-> ShiftOf(rows, s), seat |-> s]
  BY StandsOn DEF Read
<1>5. PICK i \in DOMAIN entries : entries[i] = s
  BY EntriesAreFilled
<1>6. StationOf[x.seat] \in Stations(rows, entries, m.shift)
  BY <1>4, <1>5 DEF Stations, RowsOf
<1>7. QED
  BY <1>3, <1>6 DEF Named

\* No mail names a counter that somebody on the shift does not stand at.
THEOREM OneCounter == Spec => []RightCounter
<1>1. ASSUME SentInv PROVE RightCounter
  <2> SUFFICES ASSUME NEW m \in sent, m.station # NoStation, NEW x \in always.on, x.shift = m.shift
               PROVE  StationOf[x.seat] = m.station
    BY DEF RightCounter
  <2>1. job.at = "send"
    BY <1>1 DEF SentInv
  <2>2. PICK rows \in [Seat -> Row] : \E off, entries :
          entries \in Entries(rows) /\ Read(rows, off, entries)
    BY <1>1, <2>1 DEF SentInv
  <2>3. PICK off, entries : entries \in Entries(rows) /\ Read(rows, off, entries)
    BY <2>2
  <2>4. PICK pair \in DueOn(job.occs, job.date) : m = Message(job.occs, pair)
    BY <1>1, <2>1 DEF SentInv, Progress
  <2>5. QED
    BY <2>3, <2>4, MailNamesOneCounter
<1>2. QED
  BY <1>1, JobsReadOnce, PTL

-----------------------------------------------------------------------------
(* The handover.                                                           *)

\* If the team has a group within the gap, one of them is named.
LEMMA SomebodyIsNamed ==
  ASSUME NEW rows \in [Seat -> Row], NEW off, NEW entries \in Entries(rows),
         NEW occs, occs = Occurrences(rows, off, entries), NEW occ \in occs,
         NEW near \in Earlier(occs, occ), occ.shift.due - near.shift.due <= MaxGap
  PROVE  Previous(occs, occ) # {}
<1> DEFINE F == {s \in Filled(rows) : \E o \in Earlier(occs, occ) : o.shift = ShiftOf(rows, s)}
<1>1. ASSUME NEW o \in Earlier(occs, occ)
      PROVE  \E s \in F : o.shift = ShiftOf(rows, s)
  BY OccurrencesAre DEF Earlier
<1>2. IsFiniteSet(F) /\ F \subseteq Seat /\ F # {}
  BY <1>1, FS_Subset, MailerOK DEF Filled
<1>3. \A s \in F : /\ \E o \in Earlier(occs, occ) : o.shift = ShiftOf(rows, s)
                   /\ rows[s].due \in Int /\ StartOf[s] \in Int /\ EndOf[s] \in Int
                   /\ WhatOf[s] \in Int
  BY <1>2, MailerOK DEF Row, Day
<1> HIDE DEF F
<1>4. PICK s1 \in F : \A s \in F : rows[s].due <= rows[s1].due
  <2>1. [z \in F |-> -rows[z].due] \in [F -> Int]
    BY <1>3
  <2>2. PICK s1 \in F : \A s \in F :
          [z \in F |-> -rows[z].due][s1] <= [z \in F |-> -rows[z].due][s]
    BY <1>2, <2>1, FiniteLeast
  <2>3. \A s \in F : -rows[s1].due <= -rows[s].due
    BY <2>2
  <2>4. QED
    BY <1>3, <2>3
<1> DEFINE G == {s \in F : rows[s].due = rows[s1].due}
<1>5. IsFiniteSet(G) /\ G \subseteq F /\ G # {}
  BY <1>2, FS_Subset
<1>6. \A s \in F : s \in G <=> rows[s].due = rows[s1].due
  OBVIOUS
<1> HIDE DEF G
<1>7. \A K : K \subseteq F /\ K # {} =>
        /\ \E z \in K : \A y \in K : StartOf[y] <= StartOf[z]
        /\ \E z \in K : \A y \in K : EndOf[z] <= EndOf[y]
        /\ \E z \in K : \A y \in K : WhatOf[z] <= WhatOf[y]
  <2> SUFFICES ASSUME NEW K, K \subseteq F, K # {}
               PROVE  /\ \E z \in K : \A y \in K : StartOf[y] <= StartOf[z]
                      /\ \E z \in K : \A y \in K : EndOf[z] <= EndOf[y]
                      /\ \E z \in K : \A y \in K : WhatOf[z] <= WhatOf[y]
    OBVIOUS
  <2>1. IsFiniteSet(K)
    BY <1>2, FS_Subset
  <2>2. \A key \in [K -> Int] : \E z \in K : \A y \in K : key[z] <= key[y]
    BY <2>1, FiniteLeast
  <2>3. /\ [z \in K |-> -StartOf[z]] \in [K -> Int] /\ [z \in K |-> EndOf[z]] \in [K -> Int]
        /\ [z \in K |-> WhatOf[z]] \in [K -> Int]
    BY <1>3
  <2>4. \E z \in K : \A y \in K : StartOf[y] <= StartOf[z]
    <3>1. PICK z \in K : \A y \in K : [x \in K |-> -StartOf[x]][z] <= [x \in K |-> -StartOf[x]][y]
      BY <2>2, <2>3
    <3>2. \A y \in K : -StartOf[z] <= -StartOf[y]
      BY <3>1
    <3>3. QED
      BY <1>3, <3>2
  <2>5. \E z \in K : \A y \in K : EndOf[z] <= EndOf[y]
    <3>1. PICK z \in K : \A y \in K : [x \in K |-> EndOf[x]][z] <= [x \in K |-> EndOf[x]][y]
      BY <2>2, <2>3
    <3>2. QED
      BY <3>1
  <2>6. \E z \in K : \A y \in K : WhatOf[z] <= WhatOf[y]
    <3>1. PICK z \in K : \A y \in K : [x \in K |-> WhatOf[x]][z] <= [x \in K |-> WhatOf[x]][y]
      BY <2>2, <2>3
    <3>2. QED
      BY <3>1
  <2>7. QED
    BY <2>4, <2>5, <2>6
<1>8. PICK s2 \in G : \A s \in G : StartOf[s] <= StartOf[s2]
  BY <1>5, <1>7
<1>9. PICK H : H = {s \in G : StartOf[s] = StartOf[s2]}
  OBVIOUS
<1>10. PICK s3 \in H : \A s \in H : EndOf[s3] <= EndOf[s]
  <2>1. H \subseteq F /\ H # {}
    BY <1>5, <1>8, <1>9
  <2>2. QED
    BY <1>7, <2>1
<1>11. PICK I : I = {s \in H : EndOf[s] = EndOf[s3]}
  OBVIOUS
<1>12. PICK s4 \in I : \A s \in I : WhatOf[s4] <= WhatOf[s]
  <2>1. I \subseteq F /\ I # {}
    BY <1>5, <1>9, <1>10, <1>11
  <2>2. QED
    BY <1>7, <2>1
<1>13. /\ s4 \in F /\ rows[s4].due = rows[s1].due
       /\ StartOf[s4] = StartOf[s2] /\ EndOf[s4] = EndOf[s3]
  BY <1>5, <1>6, <1>9, <1>11, <1>12
<1>14. PICK o \in Earlier(occs, occ) : o.shift = ShiftOf(rows, s4)
  BY <1>3, <1>13
<1>15. /\ o.shift.due = rows[s1].due /\ o.shift.start = StartOf[s2]
       /\ o.shift.end = EndOf[s3] /\ o.shift.what = WhatOf[s4]
  BY <1>13, <1>14 DEF ShiftOf
<1>16. ASSUME NEW p \in Earlier(occs, occ)
       PROVE  \/ p.shift.due < o.shift.due
              \/ p.shift.due = o.shift.due /\ Behind(p.shift, o.shift)
  <2>1. PICK s \in F : p.shift = ShiftOf(rows, s)
    BY <1>1
  <2>2. /\ p.shift.due = rows[s].due /\ p.shift.start = StartOf[s]
        /\ p.shift.end = EndOf[s] /\ p.shift.what = WhatOf[s]
    BY <2>1 DEF ShiftOf
  <2>3. /\ rows[s].due \in Int /\ StartOf[s] \in Int /\ EndOf[s] \in Int /\ WhatOf[s] \in Int
        /\ rows[s1].due \in Int /\ StartOf[s2] \in Int /\ EndOf[s3] \in Int /\ WhatOf[s4] \in Int
    BY <1>3, <1>5, <1>8, <1>9, <1>10, <1>13
  <2>4. rows[s].due <= rows[s1].due
    BY <1>4
  <2>5. CASE rows[s].due = rows[s1].due
    <3>1. s \in G /\ StartOf[s] <= StartOf[s2]
      BY <1>6, <1>8, <2>5
    <3>2. StartOf[s] = StartOf[s2] => s \in H /\ EndOf[s3] <= EndOf[s]
      BY <1>9, <1>10, <3>1
    <3>3. StartOf[s] = StartOf[s2] /\ EndOf[s] = EndOf[s3] => WhatOf[s4] <= WhatOf[s]
      BY <1>11, <1>12, <3>2
    <3>4. Behind(p.shift, o.shift)
      BY <1>15, <2>2, <2>3, <3>1, <3>2, <3>3 DEF Behind
    <3>5. QED
      BY <1>15, <2>2, <2>5, <3>4
  <2>6. CASE rows[s].due # rows[s1].due
    BY <1>15, <2>2, <2>3, <2>4, <2>6
  <2>7. QED
    BY <2>5, <2>6
<1>17. near.shift.due \in Int /\ occ.shift.due \in Int /\ o.shift.due \in Int
  BY OccurrencePerShift, MailerOK DEF Earlier, Shift, Day
<1>18. near.shift.due <= o.shift.due
  BY <1>16, <1>17
<1>19. occ.shift.due - o.shift.due <= MaxGap
  BY <1>17, <1>18, MailerOK
<1>20. o \in Previous(occs, occ)
  BY <1>16, <1>19 DEF Previous
<1>21. QED
  BY <1>20

\* The note is one that belongs to a seat of the shift.
LEMMA NoteOfShift ==
  ASSUME NEW rows, NEW off, NEW entries \in Entries(rows),
         NEW o \in Occurrences(rows, off, entries)
  PROVE  \E s \in Filled(rows) : ShiftOf(rows, s) = o.shift /\ NoteOf[s] = o.note
<1> DEFINE I == RowsOf(rows, entries, o.shift)
           first == CHOOSE i \in I : \A j \in I : i <= j
<1>1. PICK s \in Filled(rows) : o.shift = ShiftOf(rows, s)
  BY OccurrencesAre
<1>2. I \in SUBSET DOMAIN entries /\ I # {}
  BY <1>1, EntriesAreFilled DEF RowsOf
<1> HIDE DEF I
<1>3. first \in I
  BY <1>2, FirstRow
<1>4. o.note = NoteOf[entries[first]]
  <2>1. o = OccurrenceOf(rows, off, entries, o.shift)
    BY OccurrencesAre
  <2>2. o.note = Note(rows, entries, o.shift)
    BY <2>1 DEF OccurrenceOf
  <2>3. QED
    BY <2>2 DEF Note, I
<1> HIDE DEF first
<1>5. entries[first] \in Filled(rows) /\ ShiftOf(rows, entries[first]) = o.shift
  BY <1>3, EntriesAreFilled DEF RowsOf, I
<1>6. QED
  BY <1>4, <1>5

\* Somebody of the team who stood between two shifts has an occurrence there.
LEMMA ReadIfCameAfter ==
  ASSUME NEW rows \in [Seat -> Row], NEW off, NEW entries \in Entries(rows),
         Read(rows, off, entries), NEW occ \in job.occs, NEW m, m.shift = occ.shift,
         NEW x \in always.on, NEW a, CameAfter(x, a, m)
  PROVE  \E o \in Earlier(job.occs, occ) : o.shift = x.shift
<1>1. PICK s \in Filled(rows) :
        x = [player |-> rows[s].player, shift |-> ShiftOf(rows, s), seat |-> s]
  BY StandsOn DEF Read
<1>2. ParentsOf[rows[s].player] \intersect (Parent \ off) # {}
  BY <1>1 DEF CameAfter, Read, Open
<1>3. PICK o : o = OccurrenceOf(rows, off, entries, x.shift)
  OBVIOUS
<1>4. o \in job.occs /\ o.shift = x.shift
  BY <1>1, <1>2, <1>3, OccurrencesAre DEF Read, OccurrenceOf
<1>5. QED
  BY <1>4 DEF Earlier, CameAfter

LEMMA MailNamesTheHandover ==
  ASSUME NEW rows \in [Seat -> Row], NEW off, NEW entries \in Entries(rows),
         Read(rows, off, entries),
         NEW pair \in DueOn(job.occs, job.date), NEW m, m = Message(job.occs, pair)
  PROVE  IF m.last = NoShift
         THEN m.role = "forhandsbesked" =>
                \A x \in always.on :
                  x.shift.due + MaxGap >= m.shift.due =>
                    ~CameAfter(x, [due |-> -1, end |-> 0], m)
         ELSE /\ m.last.team = m.shift.team /\ m.shift.due - m.last.due \in 1 .. MaxGap
              /\ \A x \in always.on : ~CameAfter(x, m.last, m)
              /\ \E x \in ever.on : x.shift = m.last /\ NoteOf[x.seat] = m.keys
<1> DEFINE handover == IF pair.role = "forhandsbesked" THEN Previous(job.occs, pair.occ) ELSE {}
           o == CHOOSE p \in handover : TRUE
<1>1. /\ m.shift = pair.occ.shift /\ m.role = pair.role
      /\ m.last = IF handover = {} THEN NoShift ELSE o.shift
      /\ m.keys = IF handover = {} THEN NoNote ELSE o.note
  BY DEF Message
<1>2. pair.occ \in job.occs
  BY DueOf
<1>3. \A p \in job.occs : p.shift \in Shift /\ p.shift.due \in Nat
  BY OccurrencePerShift, MailerOK DEF Read, Shift, Day
<1>4. CASE handover = {}
  <2> SUFFICES ASSUME m.role = "forhandsbesked", NEW x \in always.on,
                      x.shift.due + MaxGap >= m.shift.due,
                      CameAfter(x, [due |-> -1, end |-> 0], m)
               PROVE  FALSE
    BY <1>1, <1>4
  <2>1. PICK p \in Earlier(job.occs, pair.occ) : p.shift = x.shift
    BY <1>1, <1>2, ReadIfCameAfter
  <2>2. p \in job.occs
    BY <2>1 DEF Earlier
  <2>3. pair.occ.shift.due - p.shift.due <= MaxGap
    BY <1>1, <1>2, <1>3, <2>1, <2>2, MailerOK
  <2>4. Previous(job.occs, pair.occ) # {}
    BY <1>2, <2>1, <2>3, SomebodyIsNamed DEF Read
  <2>5. QED
    BY <1>1, <1>4, <2>4
<1>5. CASE handover # {}
  <2>1. o \in Previous(job.occs, pair.occ)
    BY <1>5
  <2> HIDE DEF o, handover
  <2>2. /\ o \in job.occs /\ o.shift.due < pair.occ.shift.due /\ o.shift.team = pair.occ.shift.team
        /\ pair.occ.shift.due - o.shift.due <= MaxGap
        /\ \A p \in Earlier(job.occs, pair.occ) :
             \/ p.shift.due < o.shift.due
             \/ p.shift.due = o.shift.due /\ p.shift.start <= o.shift.start
    <3>1. /\ o \in Earlier(job.occs, pair.occ) /\ pair.occ.shift.due - o.shift.due <= MaxGap
          /\ \A p \in Earlier(job.occs, pair.occ) :
               \/ p.shift.due < o.shift.due
               \/ p.shift.due = o.shift.due /\ Behind(p.shift, o.shift)
      BY <2>1 DEF Previous
    <3>2. \A p \in job.occs : p.shift.start \in Nat
      BY OccurrencePerShift, MailerOK DEF Read, Shift
    <3>3. \A p \in Earlier(job.occs, pair.occ) :
            Behind(p.shift, o.shift) => p.shift.start <= o.shift.start
      BY <3>1, <3>2 DEF Behind, Earlier
    <3>4. QED
      BY <3>1, <3>3 DEF Earlier
  <2>3. m.last = o.shift /\ m.keys = o.note /\ m.last # NoShift
    BY <1>1, <1>3, <1>5, <2>2, MailerOK
  <2>4. m.last.team = m.shift.team /\ m.shift.due - m.last.due \in 1 .. MaxGap
    BY <1>1, <1>2, <1>3, <2>2, <2>3, MailerOK
  <2>5. ASSUME NEW x \in always.on, CameAfter(x, m.last, m) PROVE FALSE
    <3>1. PICK p \in Earlier(job.occs, pair.occ) : p.shift = x.shift
      BY <1>1, <1>2, <2>5, ReadIfCameAfter
    <3>2. p.shift \in Shift /\ o.shift \in Shift
      BY <1>3, <2>2, <3>1 DEF Earlier
    <3>3. /\ p.shift.due \in Nat /\ o.shift.due \in Nat
          /\ p.shift.start \in Nat /\ o.shift.start \in Nat
          /\ o.shift.end \in Nat /\ o.shift.start < o.shift.end
      <4>1. PICK s \in Seat : o.shift = ShiftOf(rows, s)
        BY <2>2, OccurrencesAre DEF Read, Filled
      <4>2. o.shift.start = StartOf[s] /\ o.shift.end = EndOf[s]
        BY <4>1 DEF ShiftOf
      <4>3. QED
        BY <3>2, <4>2, MailerOK DEF Shift, Day
    <3>4. \/ o.shift.due < p.shift.due
          \/ o.shift.due = p.shift.due /\ o.shift.end <= p.shift.start
      BY <2>3, <2>5, <3>1 DEF CameAfter
    <3>5. \/ p.shift.due < o.shift.due
          \/ p.shift.due = o.shift.due /\ p.shift.start <= o.shift.start
      BY <2>2, <3>1
    <3>6. QED
      BY <3>3, <3>4, <3>5
  <2>6. \E x \in ever.on : x.shift = m.last /\ NoteOf[x.seat] = m.keys
    <3>1. PICK s \in Filled(rows) : ShiftOf(rows, s) = o.shift /\ NoteOf[s] = o.note
      BY <2>2, NoteOfShift DEF Read
    <3>2. PICK x : x = [player |-> rows[s].player, shift |-> ShiftOf(rows, s), seat |-> s]
      OBVIOUS
    <3>3. x \in ever.on
      BY <3>2, StandsOn DEF Read
    <3>4. QED
      BY <2>3, <3>1, <3>2, <3>3
  <2>7. QED
    BY <2>3, <2>4, <2>5, <2>6
<1>6. QED
  BY <1>4, <1>5

\* A heads-up names a group of the team such that no other came when it had
\* left, and the keys as a row of that shift has them; and nobody only if there
\* is no such group.
THEOREM HandoverHolds == Spec => []HandoverSkipsNobody
<1>1. ASSUME SentInv PROVE HandoverSkipsNobody
  <2>1. ASSUME NEW m \in sent
        PROVE  \E rows \in [Seat -> Row], pair \in DueOn(job.occs, job.date) : \E off, entries :
                 /\ entries \in Entries(rows) /\ Read(rows, off, entries)
                 /\ m = Message(job.occs, pair)
    BY <1>1 DEF SentInv, Progress
  <2>2. QED
    BY <2>1, MailNamesTheHandover DEF HandoverSkipsNobody
<1>2. QED
  BY <1>1, JobsReadOnce, PTL

=============================================================================
