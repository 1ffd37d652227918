-------------------------- MODULE ScheduleImport_proofs --------------------------
(***************************************************************************)
(* The schedule import for any files, answers, seats and places: rows stay *)
(* well formed, pending requests keep describing what was offered, history *)
(* is left alone, nobody loses a shift to a name nobody knows, and seats   *)
(* are held where it is written that they are.                             *)
(***************************************************************************)
EXTENDS ScheduleImport, FiniteSetTheorems, TLAPS

WantType ==
  [day : Day \union {Undated}, clock : Clock, act : Activity, name : Spelling, note : Note,
   at : PlaceOrNone, player : Player \union {Nobody}]

\* What the pass that made a pair found out about its seat s and its row w.
PairOK(s, w, kind) ==
  /\ kind \in {"same", "moved"} => /\ seat[s].day = w.day /\ seat[s].clock = w.clock
                                   /\ seat[s].at = w.at
  /\ kind \in {"dated", "held"} => /\ seat[s].day \in {Undated, w.day}
                                   /\ seat[s].clock = w.clock /\ seat[s].at = w.at
  /\ kind = "moved" => w.player # Nobody \/ seat[s].player = Nobody

Kinds == {"same", "dated", "placed", "held", "moved", "edited"}

JobOK ==
  job # NoJob =>
    /\ job = [file |-> job.file, answers |-> job.answers, slots |-> job.slots,
              todo |-> job.todo, pairs |-> job.pairs]
    /\ job.file \in File /\ job.answers \in Answers
    /\ \A a \in DOMAIN job.answers.places : job.answers.places[a] \in station
    /\ \A i \in DOMAIN job.file : job.file[i].text \in station \union {NoPlace}
    /\ job.todo \subseteq DOMAIN job.file
    /\ job.slots \subseteq DOMAIN seat
    /\ \A p \in job.pairs : /\ p[1] \in DOMAIN seat /\ p[2] \in DOMAIN job.file
                            /\ p[3] \in Kinds
                            /\ PairOK(p[1], W(p[2]), p[3])
    /\ \E h \in 0 .. MaxSlot : Highest(h) /\ h + Len(job.file) <= MaxSlot

\* Both seats of an offer have a player.
OffersOfPlayers ==
  \A r \in swap : r.offered[1].player # Nobody /\ r.offered[2].player # Nobody

IInv == TypeOK /\ JobOK /\ PendingAsOffered /\ OffersOfPlayers

-----------------------------------------------------------------------------
(* Rows, resolved.                                                         *)

LEMMA FileRows ==
  ASSUME NEW file \in File
  PROVE  /\ Len(file) \in Nat /\ DOMAIN file = 1 .. Len(file)
         /\ \A i \in DOMAIN file : file[i] \in Row
BY ImportOK

LEMMA PlayerOfType ==
  ASSUME TypeOK, NEW name \in Spelling, NEW answers \in Answers
  PROVE  PlayerOf(name, answers) \in Player \union {Nobody}
BY ImportOK DEF TypeOK, PlayerOf, Spelling

LEMMA PlaceOfType ==
  ASSUME TypeOK, NEW act \in Activity, NEW answers,
         \A a \in DOMAIN answers.places : answers.places[a] \in station
  PROVE  PlaceOf(act, answers) \in PlaceOrNone
BY PlacesOK DEF TypeOK, PlaceOf, PlaceOrNone

LEMMA WantTypes ==
  ASSUME TypeOK, JobOK, job # NoJob, NEW i \in DOMAIN job.file
  PROVE  W(i) \in WantType
<1>1. job.file[i] \in Row
  BY FileRows DEF JobOK
<1>2. PlayerOf(job.file[i].name, job.answers) \in Player \union {Nobody}
  BY <1>1, PlayerOfType DEF JobOK, Row
<1>3. PlaceOf(job.file[i].act, job.answers) \in PlaceOrNone
  BY <1>1, PlaceOfType DEF JobOK, Row
<1>4. job.file[i].text \in PlaceOrNone
  BY <1>1 DEF Row
<1>5. QED
  BY <1>1, <1>2, <1>3, <1>4 DEF W, Want, WantType, Row

\* A file means the same while nothing it is resolved with changes.
LEMMA SameWants ==
  ASSUME UNCHANGED <<alias, placed, station>>, NEW i,
         job'.file = job.file, job'.answers = job.answers
  PROVE  W(i)' = W(i)
BY DEF W, Want, PlayerOf, PlaceOf, FindStation

-----------------------------------------------------------------------------
(* What fits says about a pair.                                            *)

LEMMA IdentSays ==
  ASSUME NEW x, NEW y, Ident(x) = Ident(y)
  PROVE  x.day = y.day /\ x.clock = y.clock /\ x.act = y.act /\ x.at = y.at
BY DEF Ident

LEMMA GetsDateSays ==
  ASSUME NEW s, NEW w, GetsDate(s, w)
  PROVE  seat[s].day = Undated /\ seat[s].clock = w.clock /\ seat[s].at = w.at
BY DEF GetsDate

LEMMA FitsSays ==
  ASSUME NEW pass \in Pass, NEW s, NEW w, Fits(pass, s, w),
         pass = 7 => ~Fits(5, s, w)
  PROVE  Kind[pass] \in Kinds /\ PairOK(s, w, Kind[pass])
<1>1. CASE pass \in {1, 2}
  <2>1. Ident(seat[s]) = Ident(w)
    BY <1>1 DEF Fits
  <2>2. Kind[pass] = "same"
    BY <1>1 DEF Kind
  <2>3. QED
    BY <2>1, <2>2, IdentSays DEF PairOK, Kinds
<1>2. CASE pass \in {3, 6}
  <2>1. GetsDate(s, w)
    BY <1>2 DEF Fits
  <2>2. Kind[pass] \in {"dated", "held"}
    BY <1>2 DEF Kind
  <2>3. QED
    BY <2>1, <2>2, GetsDateSays DEF PairOK, Kinds
<1>3. CASE pass \in {4, 8}
  BY <1>3 DEF Kind, Kinds, PairOK
<1>4. CASE pass = 5
  <2>1. Ident(seat[s]) = Ident(w)
    BY <1>4 DEF Fits
  <2>2. Kind[pass] = "held"
    BY <1>4 DEF Kind
  <2>3. QED
    BY <2>1, <2>2, IdentSays DEF PairOK, Kinds
<1>5. CASE pass = 7
  <2>1. Open(s, w) /\ Ident(seat[s]) = Ident(w)
    BY <1>5 DEF Fits
  <2>2. w.player # Nobody \/ seat[s].player = Nobody
    BY <1>5, <2>1 DEF Fits, Unknown
  <2>3. Kind[pass] = "moved"
    BY <1>5 DEF Kind
  <2>4. QED
    BY <2>1, <2>2, <2>3, IdentSays DEF PairOK, Kinds
<1>6. QED
  BY <1>1, <1>2, <1>3, <1>4, <1>5 DEF Pass

-----------------------------------------------------------------------------
(* Types of a start and of an import's beginning.                          *)

LEMMA InitInv == Init => IInv
<1> SUFFICES ASSUME Init PROVE IInv
  OBVIOUS
<1>1. PICK s \in Start : seat = s.seat /\ venue = s.venue /\ station = s.station
  BY DEF Init
<1>2. /\ DOMAIN seat \subseteq Slot /\ seat \in [DOMAIN seat -> Seat]
      /\ station \subseteq Place /\ venue \subseteq Venue /\ VenuesOf(station) \subseteq venue
  BY <1>1, ImportOK
<1>3. swap = {} /\ job = NoJob
  BY DEF Init
<1>4. alias \in [Nickname -> Player \union {Nobody}] /\ placed \in [Activity -> station \union {NoPlace}]
  BY DEF Init
<1>5. today \in Day
  BY ImportOK DEF Init, Day
<1>6. QED
  BY <1>2, <1>3, <1>4, <1>5 DEF IInv, TypeOK, JobOK, PendingAsOffered, OffersOfPlayers

\* A step between imports.
LEMMA QuietInv ==
  ASSUME job = NoJob, job' = job, TypeOK', PendingAsOffered', OffersOfPlayers'
  PROVE  IInv'
BY DEF IInv, JobOK

LEMMA BeginInv ==
  ASSUME IInv, NEW file \in File, NEW answers \in Answers, Begin(file, answers)
  PROVE  IInv'
<1> DEFINE new == [file |-> file, answers |-> answers, slots |-> Existing(file),
                   todo |-> DOMAIN file, pairs |-> {}]
<1>1. job' = new /\ UNCHANGED <<seat, swap, alias, placed, venue, station, today>>
  BY DEF Begin, rows
<1>2. TypeOK' /\ PendingAsOffered' /\ OffersOfPlayers'
  BY <1>1 DEF IInv, TypeOK, PendingAsOffered, OffersOfPlayers
<1>3. /\ \A a \in DOMAIN answers.places : answers.places[a] \in station
      /\ \A i \in DOMAIN file : file[i].text \in station \union {NoPlace}
  BY DEF Begin, Invalid
<1>4. Existing(file) \subseteq DOMAIN seat
  BY DEF Existing
<1>5. \E h \in 0 .. MaxSlot : Highest(h)' /\ h + Len(file) <= MaxSlot
  BY <1>1 DEF Begin, Highest
<1>6. JobOK'
  BY <1>1, <1>3, <1>4, <1>5 DEF JobOK
<1>7. QED
  BY <1>2, <1>6 DEF IInv

LEMMA PairInv ==
  ASSUME IInv, job # NoJob, NEW pass \in Pass, NEW i \in job.todo, NEW s \in job.slots,
         Pair(pass, i, s)
  PROVE  IInv'
<1> DEFINE p0 == <<s, i, Kind[pass]>>
<1>1. /\ job' = [job EXCEPT !.slots = @ \ {s}, !.todo = @ \ {i}, !.pairs = @ \union {p0}]
      /\ UNCHANGED <<seat, swap, alias, placed, venue, station, today>>
  BY DEF Pair, rows
<1>2. TypeOK' /\ PendingAsOffered' /\ OffersOfPlayers'
  BY <1>1 DEF IInv, TypeOK, PendingAsOffered, OffersOfPlayers
<1>3. job' = [file |-> job.file, answers |-> job.answers, slots |-> job.slots \ {s},
              todo |-> job.todo \ {i}, pairs |-> job.pairs \union {p0}]
  BY <1>1 DEF IInv, JobOK
<1>4. pass = 7 => ~Fits(5, s, W(i))
  <2>1. SUFFICES ASSUME pass = 7, Fits(5, s, W(i)) PROVE FALSE
    OBVIOUS
  <2>2. Matches(5) = {}
    BY <2>1 DEF Pair, Pass
  <2>3. <<i, s>> \in Matches(5)
    BY <2>1 DEF Matches
  <2>4. QED
    BY <2>2, <2>3
<1>5. p0[3] \in Kinds /\ PairOK(p0[1], W(p0[2]), p0[3])
  BY <1>4, FitsSays DEF Pair
<1>6. \A j : W(j)' = W(j)
  BY <1>1, <1>3, SameWants
<1>7. \A p \in job.pairs \union {p0} :
        /\ p[1] \in DOMAIN seat /\ p[2] \in DOMAIN job.file /\ p[3] \in Kinds
        /\ PairOK(p[1], W(p[2]), p[3])
  BY <1>5 DEF IInv, JobOK
<1>8. \A p \in job'.pairs : PairOK(p[1], W(p[2]), p[3])'
  BY <1>1, <1>3, <1>6, <1>7 DEF PairOK
<1>9. \E h \in 0 .. MaxSlot : Highest(h)' /\ h + Len(job.file) <= MaxSlot
  BY <1>1 DEF IInv, JobOK, Highest
<1>10. JobOK'
  BY <1>1, <1>3, <1>7, <1>8, <1>9 DEF IInv, JobOK
<1>11. QED
  BY <1>2, <1>10 DEF IInv

-----------------------------------------------------------------------------
(* What a plan writes.                                                     *)

LEMMA NewOwnerSays ==
  ASSUME IInv, job # NoJob, NEW p \in job.pairs
  PROVE  /\ NewOwner(p[1], W(p[2]), p[3]) \in Player \union {Nobody}
         /\ seat[p[1]].player # Nobody => NewOwner(p[1], W(p[2]), p[3]) # Nobody
<1> DEFINE w == W(p[2])
<1>1. p[1] \in DOMAIN seat /\ p[2] \in DOMAIN job.file /\ PairOK(p[1], w, p[3])
  BY DEF IInv, JobOK
<1>2. w \in WantType /\ seat[p[1]] \in Seat
  BY <1>1, WantTypes DEF IInv, TypeOK
<1>3. w.player \in Player \union {Nobody} /\ seat[p[1]].player \in Player \union {Nobody}
  BY <1>2 DEF WantType, Seat
<1>4. Wrong(w.name, job.answers) # Nobody => w.player # Nobody
  <2>1. SUFFICES ASSUME Wrong(w.name, job.answers) # Nobody PROVE w.player # Nobody
    OBVIOUS
  <2>2. w.name \in DOMAIN job.answers.names \ Player
    BY <2>1 DEF Wrong
  <2>3. w.name = job.file[p[2]].name /\ w.player = PlayerOf(w.name, job.answers)
    BY DEF W, Want
  <2>4. w.player = job.answers.names[w.name]
    BY <2>2, <2>3 DEF PlayerOf
  <2>5. QED
    BY <2>2, <2>4, ImportOK DEF IInv, JobOK
<1> HIDE DEF w
<1>5. NewOwner(p[1], w, p[3]) \in {w.player, seat[p[1]].player}
  BY DEF NewOwner
<1>6. ASSUME seat[p[1]].player # Nobody PROVE NewOwner(p[1], w, p[3]) # Nobody
  BY <1>1, <1>4, <1>6 DEF NewOwner, PairOK
<1>7. QED
  BY <1>3, <1>5, <1>6 DEF w

LEMMA ReconciledSays ==
  ASSUME IInv, job # NoJob, NEW p \in job.pairs
  PROVE  LET new == Reconciled(p[1], W(p[2]), p[3]) IN
         /\ new \in Seat
         /\ new.player = NewOwner(p[1], W(p[2]), p[3])
         /\ new.day = W(p[2]).day /\ new.clock = W(p[2]).clock /\ new.at = W(p[2]).at
<1> DEFINE s == p[1]
           w == W(p[2])
           text == IF w.at # seat[s].at THEN w.at ELSE seat[s].text
           name == IF p[3] = "held" THEN seat[s].name ELSE w.name
           note == IF p[3] = "same" /\ seat[s].day = Undated THEN seat[s].note ELSE w.note
           owner == NewOwner(s, w, p[3])
<1>1. s \in DOMAIN seat /\ p[2] \in DOMAIN job.file
  BY DEF IInv, JobOK
<1>2. w \in WantType /\ seat[s] \in Seat
  BY <1>1, WantTypes DEF IInv, TypeOK
<1>3. owner \in Player \union {Nobody}
  BY NewOwnerSays
<1>4. Reconciled(s, w, p[3]) =
        [seat[s] EXCEPT !.day = w.day, !.clock = w.clock, !.at = w.at, !.text = text,
                        !.player = owner, !.name = name, !.note = note]
  BY DEF Reconciled
<1> HIDE DEF w, owner
<1>5. text \in PlaceOrNone /\ name \in Spelling \union {NoName} /\ note \in Note
  BY <1>2 DEF WantType, Seat
<1> HIDE DEF text, name, note
<1>6. Reconciled(s, w, p[3]) =
        [day |-> w.day, clock |-> w.clock, act |-> seat[s].act, at |-> w.at, text |-> text,
         player |-> owner, name |-> name, note |-> note, origin |-> seat[s].origin]
  BY <1>2, <1>4 DEF Seat
<1>7. QED
  BY <1>2, <1>3, <1>5, <1>6 DEF WantType, Seat, w, owner

LEMMA NewSeatType ==
  ASSUME NEW w \in WantType
  PROVE  NewSeat(w) \in Seat
BY DEF NewSeat, WantType, Seat

\* The new ids come after all there are.
LEMMA NewIds ==
  ASSUME IInv, job # NoJob, NEW h \in 0 .. MaxSlot, Highest(h),
         NEW f \in Bijection(Added, (h + 1) .. (h + Cardinality(Added)))
  PROVE  /\ Range(f) \subseteq Slot
         /\ Range(f) \intersect DOMAIN seat = {}
         /\ \A s \in Range(f) : \E i \in Added : f[i] = s
<1>1. Len(job.file) \in Nat /\ DOMAIN job.file = 1 .. Len(job.file)
  BY FileRows DEF IInv, JobOK
<1>2. Added \in SUBSET (1 .. Len(job.file))
  BY <1>1 DEF Added, IInv, JobOK
<1>3. IsFiniteSet(1 .. Len(job.file)) /\ Cardinality(1 .. Len(job.file)) = Len(job.file)
  <2>1. 1 \in Int /\ Len(job.file) \in Int
    BY <1>1
  <2>2. /\ IsFiniteSet(1 .. Len(job.file))
        /\ Cardinality(1 .. Len(job.file)) =
             IF 1 > Len(job.file) THEN 0 ELSE Len(job.file) - 1 + 1
    BY <2>1, FS_Interval
  <2>3. QED
    BY <1>1, <2>2
<1>4. Cardinality(Added) \in Nat /\ Cardinality(Added) <= Len(job.file)
  BY <1>2, <1>3, FS_Subset, FS_CardinalityType
<1>5. h + Len(job.file) <= MaxSlot /\ MaxSlot \in Nat
  <2>1. PICK g \in 0 .. MaxSlot : Highest(g) /\ g + Len(job.file) <= MaxSlot
    BY DEF IInv, JobOK
  <2>2. DOMAIN seat \subseteq Slot /\ MaxSlot \in Nat
    BY ImportOK DEF IInv, TypeOK
  <2>3. g = h
    BY <2>1, <2>2 DEF Highest, Slot
  <2>4. QED
    BY <2>1, <2>2, <2>3
<1>6. f \in [Added -> (h + 1) .. (h + Cardinality(Added))]
  BY DEF Bijection, Injection
<1>7. \A s \in Range(f) : \E i \in Added : f[i] = s
  BY <1>6 DEF Range
<1>8. \A s \in Range(f) : s \in Slot /\ s > h
  BY <1>4, <1>5, <1>6, <1>7 DEF Slot
<1>9. \A s \in DOMAIN seat : s \in Slot /\ s <= h
  BY DEF IInv, TypeOK, Highest
<1>10. QED
  BY <1>5, <1>7, <1>8, <1>9 DEF Slot

\* A seat that stays is as it was, or as one of its pairs makes it.
LEMMA WrittenSays ==
  ASSUME IInv, job # NoJob, NEW h \in 0 .. MaxSlot, Highest(h),
         NEW f \in Bijection(Added, (h + 1) .. (h + Cardinality(Added)))
  PROVE  /\ DOMAIN Written(f) = (DOMAIN seat \ Removed) \union Range(f)
         /\ \A s \in Range(f) : \E i \in Added : Written(f)[s] = NewSeat(W(i))
         /\ \A s \in DOMAIN seat \ Removed :
              \/ Written(f)[s] = seat[s] /\ \A p \in Edited : p[1] # s
              \/ \E p \in Edited : p[1] = s /\ Written(f)[s] = Reconciled(s, W(p[2]), p[3])
<1>1. DOMAIN Written(f) = (DOMAIN seat \ Removed) \union Range(f)
  BY DEF Written
<1>2. ASSUME NEW s \in Range(f)
      PROVE  \E i \in Added : Written(f)[s] = NewSeat(W(i))
  BY <1>2, NewIds DEF Written
<1>3. ASSUME NEW s \in DOMAIN seat \ Removed, \A p \in Edited : p[1] # s
      PROVE  Written(f)[s] = seat[s]
  BY <1>3, NewIds DEF Written
<1>4. ASSUME NEW s \in DOMAIN seat \ Removed, \E p \in Edited : p[1] = s
      PROVE  \E p \in Edited : p[1] = s /\ Written(f)[s] = Reconciled(s, W(p[2]), p[3])
  <2> DEFINE p0 == CHOOSE q \in Edited : q[1] = s
  <2>1. p0 \in Edited /\ p0[1] = s
    BY <1>4
  <2>2. s \notin Range(f)
    BY NewIds
  <2>3. Written(f)[s] = Reconciled(s, W(p0[2]), p0[3])
    BY <1>4, <2>2 DEF Written
  <2>4. QED
    BY <2>1, <2>3
<1>5. QED
  BY <1>1, <1>2, <1>3, <1>4

\* A written plan leaves every type as it was.
LEMMA WriteTypes == ASSUME IInv, job # NoJob, Write PROVE TypeOK'
<1>1. PICK h \in 0 .. MaxSlot :
        /\ Highest(h)
        /\ \E f \in Bijection(Added, (h + 1) .. (h + Cardinality(Added))) : seat' = Written(f)
  BY DEF Write
<1>2. PICK f \in Bijection(Added, (h + 1) .. (h + Cardinality(Added))) : seat' = Written(f)
  BY <1>1
<1>3. UNCHANGED <<venue, station, today>>
  BY DEF Write
<1>4. DOMAIN seat' = (DOMAIN seat \ Removed) \union Range(f) /\ Range(f) \subseteq Slot
  BY <1>1, <1>2, NewIds, WrittenSays
<1>5. ASSUME NEW s \in DOMAIN seat' PROVE seat'[s] \in Seat
  <2>1. CASE s \in Range(f)
    <3>1. PICK i \in Added : seat'[s] = NewSeat(W(i))
      BY <1>1, <1>2, <2>1, WrittenSays
    <3>2. i \in DOMAIN job.file
      BY DEF Added, IInv, JobOK
    <3>3. W(i) \in WantType
      BY <3>2, WantTypes DEF IInv
    <3>4. QED
      BY <3>1, <3>3, NewSeatType
  <2>2. CASE s \in DOMAIN seat \ Removed
    <3>1. \/ seat'[s] = seat[s]
          \/ \E p \in Edited : p[1] = s /\ seat'[s] = Reconciled(s, W(p[2]), p[3])
      BY <1>1, <1>2, <2>2, WrittenSays
    <3>2. \A p \in Edited : p \in job.pairs
      BY DEF Edited
    <3>3. QED
      BY <2>2, <3>1, <3>2, ReconciledSays DEF IInv, TypeOK
  <2>3. QED
    BY <1>4, <2>1, <2>2
<1>6. seat' \in [DOMAIN seat' -> Seat]
  <2>1. seat' = [s \in DOMAIN seat' |-> seat'[s]]
    BY <1>2 DEF Written
  <2>2. QED
    BY <1>5, <2>1
<1>7. swap' = swap \ Touching(Changed \union Removed)
  BY DEF Write
<1>8. ASSUME NEW r \in swap' PROVE r \in Swap /\ {r.give, r.get} \subseteq DOMAIN seat'
  <2>1. r \in swap /\ r.give \notin Removed /\ r.get \notin Removed
    BY <1>7, <1>8 DEF Touching
  <2>2. QED
    BY <1>4, <2>1 DEF IInv, TypeOK
<1>9. alias' \in [Nickname -> Player \union {Nobody}]
  <2>1. alias' = [n \in Nickname |->
          IF Changes /\ n \in NewNames(job.file, job.answers)
          THEN job.answers.names[n] ELSE alias[n]]
    BY DEF Write
  <2>2. \A n \in NewNames(job.file, job.answers) : job.answers.names[n] \in Player
    BY ImportOK DEF NewNames, IInv, JobOK
  <2>3. QED
    BY <2>1, <2>2 DEF IInv, TypeOK
<1>10. placed' \in [Activity -> station \union {NoPlace}]
  <2>1. placed' = [a \in Activity |->
          IF Changes /\ a \in NewPlaces(job.file, job.answers)
          THEN job.answers.places[a] ELSE placed[a]]
    BY DEF Write
  <2>2. \A a \in NewPlaces(job.file, job.answers) : job.answers.places[a] \in station
    BY DEF NewPlaces, IInv, JobOK
  <2>3. QED
    BY <2>1, <2>2 DEF IInv, TypeOK
<1>11. DOMAIN seat' \subseteq Slot
  BY <1>4 DEF IInv, TypeOK
<1>12. QED
  BY <1>3, <1>6, <1>8, <1>9, <1>10, <1>11 DEF IInv, TypeOK

\* A seat no request on it is cancelled for is still the seat that was offered.
LEMMA SeatKeepsOffer ==
  ASSUME IInv, job # NoJob, Write, NEW s \in DOMAIN seat, s \notin Changed \union Removed,
         NEW old, StillOffered(old, seat[s]), old.player # Nobody
  PROVE  StillOffered(old, seat'[s])
<1>1. PICK h \in 0 .. MaxSlot :
        /\ Highest(h)
        /\ \E f \in Bijection(Added, (h + 1) .. (h + Cardinality(Added))) : seat' = Written(f)
  BY DEF Write
<1>2. PICK f \in Bijection(Added, (h + 1) .. (h + Cardinality(Added))) : seat' = Written(f)
  BY <1>1
<1>3. \/ seat'[s] = seat[s]
      \/ \E p \in Edited : p[1] = s /\ seat'[s] = Reconciled(s, W(p[2]), p[3])
  <2>1. s \in DOMAIN seat \ Removed
    OBVIOUS
  <2>2. QED
    BY <1>1, <1>2, <2>1, WrittenSays
<1>4. CASE seat'[s] = seat[s]
  BY <1>4
<1>5. ASSUME NEW p \in Edited, p[1] = s, seat'[s] = Reconciled(s, W(p[2]), p[3])
      PROVE  StillOffered(old, seat'[s])
  <2>1. p \in job.pairs
    BY DEF Edited
  <2>2. ~Cancels(s, W(p[2]), p[3])
    BY <1>5 DEF Changed
  <2>3. p[3] \in Kinds \ {"edited", "placed"} /\ PairOK(s, W(p[2]), p[3])
    BY <1>5, <2>1, <2>2 DEF IInv, JobOK, Cancels
  <2>4. seat[s].player = old.player /\ seat[s].player = NewOwner(s, W(p[2]), p[3])
    BY <2>2 DEF Cancels, StillOffered
  <2>5. /\ seat'[s].player = NewOwner(s, W(p[2]), p[3])
        /\ seat'[s].day = W(p[2]).day /\ seat'[s].clock = W(p[2]).clock
        /\ seat'[s].at = W(p[2]).at
    BY <1>5, <2>1, ReconciledSays
  <2>6. /\ seat[s].day \in {Undated, W(p[2]).day}
        /\ seat[s].clock = W(p[2]).clock /\ seat[s].at = W(p[2]).at
    BY <2>3 DEF PairOK, Kinds
  <2>7. QED
    BY <2>4, <2>5, <2>6 DEF StillOffered
<1>6. QED
  BY <1>3, <1>4, <1>5

LEMMA WriteInv == ASSUME IInv, job # NoJob, Write PROVE IInv'
<1>1. swap' = swap \ Touching(Changed \union Removed) /\ job' = NoJob
  BY DEF Write
<1>2. ASSUME NEW r \in swap'
      PROVE  /\ StillOffered(r.offered[1], seat'[r.give])
             /\ StillOffered(r.offered[2], seat'[r.get])
  <2>1. /\ r \in swap
        /\ r.give \notin Changed \union Removed /\ r.get \notin Changed \union Removed
    BY <1>1, <1>2 DEF Touching
  <2>2. /\ r.give \in DOMAIN seat /\ r.get \in DOMAIN seat
        /\ StillOffered(r.offered[1], seat[r.give]) /\ StillOffered(r.offered[2], seat[r.get])
        /\ r.offered[1].player # Nobody /\ r.offered[2].player # Nobody
    BY <2>1 DEF IInv, TypeOK, PendingAsOffered, OffersOfPlayers
  <2>3. QED
    BY <2>1, <2>2, SeatKeepsOffer
<1>3. PendingAsOffered'
  BY <1>2 DEF PendingAsOffered, StillOffered
<1>4. OffersOfPlayers'
  BY <1>1 DEF IInv, OffersOfPlayers
<1>5. JobOK'
  BY <1>1 DEF JobOK
<1>6. QED
  BY <1>3, <1>4, <1>5, WriteTypes DEF IInv

-----------------------------------------------------------------------------
(* Parents and ansvariga.                                                  *)

\* Seats that no request is about may change; the requests left are old ones.
LEMMA OtherSeats ==
  ASSUME IInv, NEW S, swap' = swap \ Touching(S),
         \A s \in DOMAIN seat : s \notin S => s \in DOMAIN seat' /\ seat'[s] = seat[s]
  PROVE  /\ PendingAsOffered' /\ OffersOfPlayers'
         /\ \A r \in swap' : r \in Swap /\ {r.give, r.get} \subseteq DOMAIN seat'
<1>1. \A r \in swap' : r \in swap /\ r.give \notin S /\ r.get \notin S
  BY DEF Touching
<1>2. \A r \in swap' : /\ r \in Swap
                       /\ r.give \in DOMAIN seat' /\ seat'[r.give] = seat[r.give]
                       /\ r.get \in DOMAIN seat' /\ seat'[r.get] = seat[r.get]
  BY <1>1 DEF IInv, TypeOK
<1>3. PendingAsOffered'
  BY <1>1, <1>2 DEF IInv, PendingAsOffered, StillOffered
<1>4. OffersOfPlayers'
  BY <1>1 DEF IInv, OffersOfPlayers
<1>5. QED
  BY <1>2, <1>3, <1>4

\* A changed seat.
LEMMA SeatChanged ==
  ASSUME TypeOK, NEW s \in DOMAIN seat, NEW x \in Seat, seat' = [seat EXCEPT ![s] = x]
  PROVE  /\ DOMAIN seat' = DOMAIN seat /\ seat' \in [DOMAIN seat' -> Seat]
         /\ \A t \in DOMAIN seat : t # s => seat'[t] = seat[t]
BY DEF TypeOK

LEMMA ProposeInv ==
  ASSUME IInv, NEW s \in DOMAIN seat, NEW t \in DOMAIN seat, Propose(s, t)
  PROVE  IInv'
<1> DEFINE r == [give |-> s, get |-> t, offered |-> <<seat[s], seat[t]>>]
<1>1. /\ swap' = {r} /\ job = NoJob /\ seat[s].player # Nobody /\ seat[t].player # Nobody
      /\ UNCHANGED <<seat, alias, placed, venue, station, today, job>>
  BY DEF Propose, Quiet
<1>2. s \in Slot /\ t \in Slot /\ seat[s] \in Seat /\ seat[t] \in Seat
  BY DEF IInv, TypeOK
<1>3. r \in Swap /\ r.offered[1] = seat[s] /\ r.offered[2] = seat[t]
  BY <1>2 DEF Swap
<1>4. TypeOK'
  BY <1>1, <1>3 DEF IInv, TypeOK
<1>5. PendingAsOffered' /\ OffersOfPlayers'
  BY <1>1, <1>3 DEF PendingAsOffered, StillOffered, OffersOfPlayers
<1>6. QED
  BY <1>1, <1>4, <1>5, QuietInv

LEMMA AcceptInv == ASSUME IInv, NEW r \in swap, Accept(r) PROVE IInv'
<1> DEFINE a == r.give
           b == r.get
           x == [seat[a] EXCEPT !.player = seat[b].player]
           y == [seat[b] EXCEPT !.player = seat[a].player]
<1>1. a \in DOMAIN seat /\ b \in DOMAIN seat /\ seat[a] \in Seat /\ seat[b] \in Seat
  BY DEF IInv, TypeOK
<1>2. seat[a].player \in Player \union {Nobody} /\ seat[b].player \in Player \union {Nobody}
  BY <1>1 DEF Seat
<1>3. x \in Seat /\ y \in Seat /\ [x EXCEPT !.player = seat[a].player] \in Seat
  BY <1>1, <1>2 DEF Seat
<1>4. seat' = [seat EXCEPT ![a].player = seat[b].player, ![b].player = seat[a].player]
  BY DEF Accept
<1>5. /\ DOMAIN seat' = DOMAIN seat /\ seat' \in [DOMAIN seat' -> Seat]
      /\ \A t \in DOMAIN seat : t \notin {a, b} => seat'[t] = seat[t]
  BY <1>1, <1>3, <1>4 DEF IInv, TypeOK
<1>6. /\ swap' = swap \ Touching({a, b}) /\ job = NoJob
      /\ UNCHANGED <<alias, placed, venue, station, today, job>>
  BY DEF Accept, Quiet
<1>7. /\ PendingAsOffered' /\ OffersOfPlayers'
      /\ \A q \in swap' : q \in Swap /\ {q.give, q.get} \subseteq DOMAIN seat'
  BY <1>5, <1>6, OtherSeats
<1>8. TypeOK'
  BY <1>5, <1>6, <1>7 DEF IInv, TypeOK
<1>9. QED
  BY <1>6, <1>7, <1>8, QuietInv

LEMMA DeclineInv == ASSUME IInv, NEW r \in swap, Decline(r) PROVE IInv'
<1>1. /\ \A q \in swap' : q \in swap
      /\ job = NoJob /\ UNCHANGED <<seat, alias, placed, venue, station, today, job>>
  BY DEF Decline, Quiet
<1>2. TypeOK' /\ PendingAsOffered' /\ OffersOfPlayers'
  BY <1>1 DEF IInv, TypeOK, PendingAsOffered, StillOffered, OffersOfPlayers
<1>3. QED
  BY <1>1, <1>2, QuietInv

LEMMA UpdateSlotInv ==
  ASSUME IInv, NEW s \in DOMAIN seat, NEW e \in Edit.update, UpdateSlot(s, e)
  PROVE  IInv'
<1> DEFINE day == Or(e.day, seat[s].day)
           at == Or(e.at, seat[s].at)
           text == IF e.at \in {Keep, seat[s].at} THEN seat[s].text ELSE e.at
           player == Or(e.player, seat[s].player)
           name == IF e.player \in {Keep, seat[s].player} THEN seat[s].name
                                                         ELSE NameFor(s, e.player)
           x == [seat[s] EXCEPT !.day = day, !.at = at, !.text = text,
                                !.player = player, !.name = name]
<1>1. seat[s] \in Seat /\ station \subseteq Place
  BY DEF IInv, TypeOK
<1>2. /\ e.day \in Day \union {Undated, Keep}
      /\ e.player \in Player \union {Nobody, Keep}
      /\ e.at \in station \union {Keep}
  BY ImportOK DEF UpdateSlot
<1>3. day \in Day \union {Undated} /\ player \in Player \union {Nobody}
  BY <1>1, <1>2 DEF Or, Seat
<1>4. at \in PlaceOrNone /\ text \in PlaceOrNone
  BY <1>1, <1>2 DEF Or, Seat, PlaceOrNone
<1>5. name \in Spelling \union {NoName}
  BY <1>1, <1>2 DEF NameFor, Seat, Spelling
<1>6. seat' = [seat EXCEPT ![s] = x]
  BY DEF UpdateSlot
<1> HIDE DEF day, at, text, player, name
<1>7. x \in Seat
  BY <1>1, <1>3, <1>4, <1>5 DEF Seat
<1> HIDE DEF x
<1>8. /\ DOMAIN seat' = DOMAIN seat /\ seat' \in [DOMAIN seat' -> Seat]
      /\ \A t \in DOMAIN seat : t # s => seat'[t] = seat[t]
  BY <1>6, <1>7, SeatChanged DEF IInv
<1>9. /\ swap' = swap \ Touching({s}) /\ job = NoJob
      /\ UNCHANGED <<alias, placed, venue, station, today, job>>
  BY DEF UpdateSlot, Edits, Quiet
<1>10. /\ PendingAsOffered' /\ OffersOfPlayers'
       /\ \A q \in swap' : q \in Swap /\ {q.give, q.get} \subseteq DOMAIN seat'
  BY <1>8, <1>9, OtherSeats
<1>11. TypeOK'
  BY <1>8, <1>9, <1>10 DEF IInv, TypeOK
<1>12. QED
  BY <1>9, <1>10, <1>11, QuietInv

LEMMA CreateSlotInv ==
  ASSUME IInv, NEW s \in Slot, NEW shift \in Edit.create, CreateSlot(s, shift)
  PROVE  IInv'
<1> DEFINE x == [day |-> shift.day, clock |-> shift.clock, act |-> shift.act, at |-> shift.at,
                 text |-> shift.at, player |-> Nobody, name |-> NoName, note |-> NoNote,
                 origin |-> "admin"]
<1>1. /\ seat' = [t \in DOMAIN seat \union {s} |-> IF t # s THEN seat[t] ELSE x]
      /\ shift.at \in station /\ Highest(s - 1)
  BY DEF CreateSlot
<1>2. x \in Seat
  BY <1>1, ImportOK DEF Seat, IInv, TypeOK, PlaceOrNone, Note
<1> HIDE DEF x
<1>3. s \notin DOMAIN seat
  BY <1>1 DEF Highest, Slot, IInv, TypeOK
<1>4. /\ DOMAIN seat' \subseteq Slot /\ seat' \in [DOMAIN seat' -> Seat]
      /\ \A t \in DOMAIN seat : t \in DOMAIN seat' /\ seat'[t] = seat[t]
  BY <1>1, <1>2, <1>3 DEF IInv, TypeOK
<1>5. /\ swap' = swap \ Touching({}) /\ job = NoJob
      /\ UNCHANGED <<alias, placed, venue, station, today, job>>
  BY DEF CreateSlot, Edits, Quiet, Touching
<1>6. /\ PendingAsOffered' /\ OffersOfPlayers'
      /\ \A q \in swap' : q \in Swap /\ {q.give, q.get} \subseteq DOMAIN seat'
  BY <1>4, <1>5, OtherSeats
<1>7. TypeOK'
  BY <1>4, <1>5, <1>6 DEF IInv, TypeOK
<1>8. QED
  BY <1>5, <1>6, <1>7, QuietInv

LEMMA DeleteSlotInv == ASSUME IInv, NEW s \in DOMAIN seat, DeleteSlot(s) PROVE IInv'
<1>1. seat' = [t \in DOMAIN seat \ {s} |-> seat[t]]
  BY DEF DeleteSlot
<1>2. /\ DOMAIN seat' \subseteq Slot /\ seat' \in [DOMAIN seat' -> Seat]
      /\ \A t \in DOMAIN seat : t # s => t \in DOMAIN seat' /\ seat'[t] = seat[t]
  BY <1>1 DEF IInv, TypeOK
<1>3. /\ swap' = swap \ Touching({s}) /\ job = NoJob
      /\ UNCHANGED <<alias, placed, venue, station, today, job>>
  BY DEF DeleteSlot, Edits, Quiet
<1>4. /\ PendingAsOffered' /\ OffersOfPlayers'
      /\ \A q \in swap' : q \in Swap /\ {q.give, q.get} \subseteq DOMAIN seat'
  BY <1>2, <1>3, OtherSeats
<1>5. TypeOK'
  BY <1>2, <1>3, <1>4 DEF IInv, TypeOK
<1>6. QED
  BY <1>3, <1>4, <1>5, QuietInv

LEMMA PlacesInv ==
  ASSUME IInv, (\E v \in Venue : CreateVenue(v)) \/ (\E p \in Place : CreateStation(p))
  PROVE  IInv'
<1>1. job = NoJob /\ UNCHANGED <<seat, swap, alias, placed, today, job>>
  BY DEF CreateVenue, CreateStation, Edits, Quiet
<1>2. PendingAsOffered' /\ OffersOfPlayers'
  BY <1>1 DEF IInv, PendingAsOffered, StillOffered, OffersOfPlayers
<1>3. /\ station' \subseteq Place /\ venue' \subseteq Venue /\ VenuesOf(station') \subseteq venue'
      /\ placed \in [Activity -> station' \union {NoPlace}]
  <2>1. ASSUME NEW v \in Venue, CreateVenue(v) PROVE <1>3!:
    BY <2>1 DEF CreateVenue, IInv, TypeOK
  <2>2. ASSUME NEW p \in Place, CreateStation(p) PROVE <1>3!:
    BY <2>2 DEF CreateStation, IInv, TypeOK, VenuesOf
  <2>3. QED
    BY <2>1, <2>2
<1>4. TypeOK'
  BY <1>1, <1>3 DEF IInv, TypeOK
<1>5. QED
  BY <1>1, <1>2, <1>4, QuietInv

-----------------------------------------------------------------------------
(* Starts.                                                                 *)

LEMMA LinkedSays ==
  ASSUME TypeOK, NEW places \in SUBSET Place, NEW s \in DOMAIN seat
  PROVE  /\ seat[s].at # NoPlace => Linked(places, seat)[s] = seat[s]
         /\ Linked(places, seat)[s] \in Seat
         /\ \A old : StillOffered(old, seat[s]) => StillOffered(old, Linked(places, seat)[s])
<1>1. seat[s] \in Seat
  BY DEF TypeOK
<1>2. CASE seat[s].at # NoPlace
  <2>1. Linked(places, seat)[s] = seat[s]
    BY <1>2 DEF Linked, Unlinked
  <2>2. QED
    BY <1>1, <2>1
<1>3. CASE seat[s].at = NoPlace
  <2> DEFINE at == FindStation(OwnPlace(seat[s]), places)
  <2>1. Linked(places, seat)[s] = [seat[s] EXCEPT !.at = at]
    BY <1>3 DEF Linked, Unlinked
  <2>2. at \in PlaceOrNone
    BY DEF FindStation, PlaceOrNone
  <2> HIDE DEF at
  <2>3. Linked(places, seat)[s] \in Seat
    BY <1>1, <2>1, <2>2 DEF Seat
  <2>4. ASSUME NEW old, StillOffered(old, seat[s])
        PROVE  StillOffered(old, Linked(places, seat)[s])
    BY <1>1, <1>3, <2>1, <2>4 DEF StillOffered, Seat
  <2>5. QED
    BY <1>3, <2>3, <2>4
<1>4. QED
  BY <1>2, <1>3

LEMMA SeededSays ==
  ASSUME TypeOK
  PROVE  /\ Seeded(station, seat) \in SUBSET Place
         /\ station \subseteq Seeded(station, seat)
<1>1. \A s \in DOMAIN seat : OwnPlace(seat[s]) \in PlaceOrNone
  BY PlacesOK DEF TypeOK, Seat, OwnPlace
<1>2. WrittenPlaces(seat) \subseteq Place
  BY <1>1, PlacesOK DEF WrittenPlaces, Unlinked, PlaceOrNone
<1>3. QED
  BY <1>2 DEF TypeOK, Seeded

LEMMA RestartInv == ASSUME IInv, Restart PROVE IInv'
<1>1. /\ station' = Seeded(station, seat) /\ venue' = venue \union VenuesOf(station')
      /\ seat' = Linked(station', seat) /\ job' = NoJob
      /\ UNCHANGED <<swap, alias, placed, today>>
  BY DEF Restart
<1>2. station' \in SUBSET Place /\ station \subseteq station'
  BY <1>1, SeededSays DEF IInv
<1>3. DOMAIN seat' = DOMAIN seat
  BY <1>1 DEF Linked
<1>4. \A s \in DOMAIN seat :
        /\ seat'[s] \in Seat
        /\ \A old : StillOffered(old, seat[s]) => StillOffered(old, seat'[s])
  BY <1>1, <1>2, LinkedSays DEF IInv
<1>5. seat' \in [DOMAIN seat' -> Seat]
  <2>1. seat' = [s \in DOMAIN seat' |-> seat'[s]]
    BY <1>1 DEF Linked
  <2>2. QED
    BY <1>3, <1>4, <2>1
<1>6. VenuesOf(station') \subseteq Venue
  BY <1>2 DEF VenuesOf, Place
<1>7. placed \in [Activity -> station' \union {NoPlace}]
  BY <1>2 DEF IInv, TypeOK
<1>8. TypeOK'
  BY <1>1, <1>2, <1>3, <1>5, <1>6, <1>7 DEF IInv, TypeOK
<1>9. \A r \in swap : /\ r.give \in DOMAIN seat /\ r.get \in DOMAIN seat
                      /\ StillOffered(r.offered[1], seat[r.give])
                      /\ StillOffered(r.offered[2], seat[r.get])
  BY DEF IInv, TypeOK, PendingAsOffered
<1>10. \A r \in swap : /\ StillOffered(r.offered[1], seat'[r.give])
                       /\ StillOffered(r.offered[2], seat'[r.get])
  BY <1>4, <1>9
<1>11. PendingAsOffered'
  BY <1>1, <1>10 DEF PendingAsOffered, StillOffered
<1>12. OffersOfPlayers' /\ JobOK'
  BY <1>1 DEF IInv, OffersOfPlayers, JobOK
<1>13. QED
  BY <1>8, <1>11, <1>12 DEF IInv

LEMMA TomorrowInv == ASSUME IInv, Tomorrow PROVE IInv'
<1>1. /\ job = NoJob /\ today' = today + 1 /\ today < LastDay
      /\ UNCHANGED <<seat, swap, alias, placed, venue, station, job>>
  BY DEF Tomorrow, Quiet, rows
<1>2. today' \in Day
  BY <1>1, ImportOK DEF IInv, TypeOK, Day
<1>3. TypeOK' /\ PendingAsOffered' /\ OffersOfPlayers'
  BY <1>1, <1>2 DEF IInv, TypeOK, PendingAsOffered, StillOffered, OffersOfPlayers
<1>4. QED
  BY <1>1, <1>3, QuietInv

LEMMA StutterInv == ASSUME IInv, UNCHANGED vars PROVE IInv'
<1>1. UNCHANGED <<seat, swap, alias, placed, venue, station, today, job>>
  BY DEF vars, rows
<1>2. TypeOK' /\ PendingAsOffered' /\ OffersOfPlayers'
  BY <1>1 DEF IInv, TypeOK, PendingAsOffered, StillOffered, OffersOfPlayers
<1>3. \A i : W(i)' = W(i)
  BY <1>1, SameWants
<1>4. JobOK'
  <2>1. \A p : PairOK(p[1], W(p[2]), p[3])' <=> PairOK(p[1], W(p[2]), p[3])
    BY <1>1, <1>3 DEF PairOK
  <2>2. \A h : Highest(h)' <=> Highest(h)
    BY <1>1 DEF Highest
  <2>3. QED
    BY <1>1, <2>1, <2>2 DEF IInv, JobOK
<1>5. QED
  BY <1>2, <1>4 DEF IInv

LEMMA StepInv == IInv /\ [Next]_vars => IInv'
<1> SUFFICES ASSUME IInv, [Next]_vars PROVE IInv'
  OBVIOUS
<1>1. CASE Import
  <2>1. Write => job # NoJob
    BY DEF Write
  <2>2. QED
    BY <1>1, <2>1, BeginInv, PairInv, WriteInv DEF Import
<1>2. CASE Parents
  BY <1>2, ProposeInv, AcceptInv, DeclineInv DEF Parents
<1>3. CASE Ansvarig
  BY <1>3, DeleteSlotInv, UpdateSlotInv, CreateSlotInv, PlacesInv DEF Ansvarig
<1>4. QED
  BY <1>1, <1>2, <1>3, RestartInv, TomorrowInv, StutterInv DEF Next

LEMMA Invariant == Spec => []IInv
BY InitInv, StepInv, PTL DEF Spec

-----------------------------------------------------------------------------
\* Rows, saved answers and requests are well formed for ever, and no request
\* outlives a seat that an import removed.
THEOREM RowsWellFormed == Spec => []TypeOK
<1>1. IInv => TypeOK
  BY DEF IInv
<1>2. QED
  BY <1>1, Invariant, PTL

\* However a file moves, dates, places and hands over seats, the requests it
\* leaves pending are about the duties that were offered.
THEOREM OffersSurviveImports == Spec => []PendingAsOffered
<1>1. IInv => PendingAsOffered
  BY DEF IInv
<1>2. QED
  BY <1>1, Invariant, PTL

\* Past seats and seats made under Pass go through any import unchanged.
THEOREM HistoryIsLeftAlone == Spec => HistoryStays
<1> DEFINE Kept == Write => \A s \in DOMAIN seat :
             seat[s].origin = "admin" \/ (seat[s].day # Undated /\ seat[s].day < today) =>
               s \in DOMAIN seat' /\ seat'[s] = seat[s]
<1>1. ASSUME IInv PROVE Kept
  <2> SUFFICES ASSUME Write, NEW s \in DOMAIN seat,
                      seat[s].origin = "admin" \/ (seat[s].day # Undated /\ seat[s].day < today)
               PROVE  s \in DOMAIN seat' /\ seat'[s] = seat[s]
    OBVIOUS
  <2>1. PICK h \in 0 .. MaxSlot :
          /\ Highest(h)
          /\ \E f \in Bijection(Added, (h + 1) .. (h + Cardinality(Added))) : seat' = Written(f)
    BY DEF Write
  <2>2. PICK f \in Bijection(Added, (h + 1) .. (h + Cardinality(Added))) : seat' = Written(f)
    BY <2>1
  <2>3. Frozen(s)
    BY DEF Frozen, PastDay
  <2>4. s \in DOMAIN seat \ Removed /\ \A p \in Edited : p[1] # s
    BY <2>3 DEF Removed, Edited
  <2>5. job # NoJob
    BY DEF Write
  <2>6. QED
    BY <1>1, <2>1, <2>2, <2>4, <2>5, WrittenSays
<1>2. [][Kept]_vars <=> HistoryStays
  BY DEF HistoryStays
<1>3. QED
  BY <1>1, <1>2, Invariant, PTL DEF Spec

\* A name nobody has answered for never takes a seat away from a player: the
\* pass for such names comes before the one that hands seats over.
THEOREM HeldSeatsAreKept == Spec => NobodyUnseated
<1> DEFINE Kept == Write => \A s \in DOMAIN seat \intersect DOMAIN seat' :
             seat[s].player # Nobody => seat'[s].player # Nobody
<1>1. ASSUME IInv PROVE Kept
  <2> SUFFICES ASSUME Write, NEW s \in DOMAIN seat \intersect DOMAIN seat',
                      seat[s].player # Nobody
               PROVE  seat'[s].player # Nobody
    OBVIOUS
  <2>1. PICK h \in 0 .. MaxSlot :
          /\ Highest(h)
          /\ \E f \in Bijection(Added, (h + 1) .. (h + Cardinality(Added))) : seat' = Written(f)
    BY DEF Write
  <2>2. PICK f \in Bijection(Added, (h + 1) .. (h + Cardinality(Added))) : seat' = Written(f)
    BY <2>1
  <2>3. job # NoJob
    BY DEF Write
  <2>4. s \in DOMAIN seat \ Removed
    BY <1>1, <2>1, <2>2, <2>3, NewIds, WrittenSays
  <2>5. \/ seat'[s] = seat[s]
        \/ \E p \in Edited : p[1] = s /\ seat'[s] = Reconciled(s, W(p[2]), p[3])
    BY <1>1, <2>1, <2>2, <2>3, <2>4, WrittenSays
  <2>6. ASSUME NEW p \in Edited, p[1] = s, seat'[s] = Reconciled(s, W(p[2]), p[3])
        PROVE  seat'[s].player # Nobody
    <3>1. p \in job.pairs
      BY DEF Edited
    <3>2. seat'[s].player = NewOwner(s, W(p[2]), p[3])
      BY <1>1, <2>3, <2>6, <3>1, ReconciledSays
    <3>3. QED
      BY <1>1, <2>3, <2>6, <3>1, <3>2, NewOwnerSays
  <2>7. QED
    BY <2>5, <2>6
<1>2. [][Kept]_vars <=> NobodyUnseated
  BY DEF NobodyUnseated
<1>3. QED
  BY <1>1, <1>2, Invariant, PTL DEF Spec

\* Where seat s is held after a step: as written on it, linked just now to its
\* duty's own place, or different from what is written already before.
Placing(s) ==
  \/ seat'[s].at \in {NoPlace, seat'[s].text}
  \/ /\ s \in DOMAIN seat
     /\ \/ seat[s].at = NoPlace /\ seat'[s].at = ProfileOf[seat[s].act]
        \/ seat[s].at \notin {NoPlace, seat[s].text}

LEMMA SamePlace ==
  ASSUME NEW s \in DOMAIN seat, seat'[s].at = seat[s].at, seat'[s].text = seat[s].text
  PROVE  Placing(s)
BY DEF Placing

\* A reconciled seat gets both or neither.
LEMMA WritePlacing == ASSUME IInv, Write, NEW s \in DOMAIN seat' PROVE Placing(s)
<1>1. PICK h \in 0 .. MaxSlot :
        /\ Highest(h)
        /\ \E f \in Bijection(Added, (h + 1) .. (h + Cardinality(Added))) : seat' = Written(f)
  BY DEF Write
<1>2. PICK f \in Bijection(Added, (h + 1) .. (h + Cardinality(Added))) : seat' = Written(f)
  BY <1>1
<1>3. job # NoJob
  BY DEF Write
<1>4. CASE s \in Range(f)
  <2>1. PICK i \in Added : seat'[s] = NewSeat(W(i))
    BY <1>1, <1>2, <1>3, <1>4, WrittenSays
  <2>2. seat'[s].at = seat'[s].text
    BY <2>1 DEF NewSeat
  <2>3. QED
    BY <2>2 DEF Placing
<1>5. CASE s \in DOMAIN seat \ Removed
  <2>1. \/ seat'[s] = seat[s]
        \/ \E p \in Edited : p[1] = s /\ seat'[s] = Reconciled(s, W(p[2]), p[3])
    BY <1>1, <1>2, <1>3, <1>5, WrittenSays
  <2>2. CASE seat'[s] = seat[s]
    BY <1>5, <2>2, SamePlace
  <2>3. CASE \E p \in Edited : p[1] = s /\ seat'[s] = Reconciled(s, W(p[2]), p[3])
    <3>1. PICK p \in Edited : p[1] = s /\ seat'[s] = Reconciled(s, W(p[2]), p[3])
      BY <2>3
    <3>2. PICK w : w = W(p[2])
      OBVIOUS
    <3>3. seat[s] \in Seat
      BY <1>5 DEF IInv, TypeOK
    <3>4. /\ seat'[s].at = w.at
          /\ seat'[s].text = IF w.at # seat[s].at THEN w.at ELSE seat[s].text
      BY <3>1, <3>2, <3>3 DEF Reconciled, Seat
    <3>5. CASE w.at = seat[s].at
      BY <1>5, <3>4, <3>5, SamePlace
    <3>6. CASE w.at # seat[s].at
      BY <3>4, <3>6 DEF Placing
    <3>7. QED
      BY <3>5, <3>6
  <2>4. QED
    BY <2>1, <2>2, <2>3
<1>6. s \in Range(f) \/ s \in DOMAIN seat \ Removed
  BY <1>1, <1>2, <1>3, WrittenSays
<1>7. QED
  BY <1>4, <1>5, <1>6

LEMMA RestartPlacing == ASSUME IInv, Restart, NEW s \in DOMAIN seat' PROVE Placing(s)
<1>1. seat' = Linked(station', seat)
  BY DEF Restart
<1>2. s \in DOMAIN seat /\ seat[s] \in Seat
  BY <1>1 DEF Linked, IInv, TypeOK
<1>3. CASE seat[s].at # NoPlace
  <2>1. seat'[s] = seat[s]
    BY <1>1, <1>2, <1>3 DEF Linked, Unlinked
  <2>2. QED
    BY <1>2, <2>1, SamePlace
<1>4. CASE seat[s].at = NoPlace
  <2>1. PICK own : own = OwnPlace(seat[s])
    OBVIOUS
  <2>2. PICK at : at = FindStation(own, station')
    OBVIOUS
  <2>3. seat'[s] = [seat[s] EXCEPT !.at = at]
    BY <1>1, <1>2, <1>4, <2>1, <2>2 DEF Linked, Unlinked
  <2>4. seat'[s].at = at /\ seat'[s].text = seat[s].text
    BY <1>2, <2>3 DEF Seat
  <2>5. at \in {NoPlace, own}
    BY <2>2 DEF FindStation
  <2>6. own \in {ProfileOf[seat[s].act], seat[s].text}
    BY <2>1 DEF OwnPlace
  <2>7. QED
    BY <1>2, <1>4, <2>4, <2>5, <2>6 DEF Placing
<1>5. QED
  BY <1>3, <1>4

LEMMA UpdatePlacing ==
  ASSUME IInv, NEW t \in DOMAIN seat, NEW e \in Edit.update, UpdateSlot(t, e),
         NEW s \in DOMAIN seat'
  PROVE  Placing(s)
<1>1. PICK day, player, name :
        seat' = [seat EXCEPT ![t] =
                   [seat[t] EXCEPT !.day = day, !.at = Or(e.at, seat[t].at),
                                   !.text = IF e.at \in {Keep, seat[t].at} THEN seat[t].text
                                            ELSE e.at,
                                   !.player = player, !.name = name]]
  BY DEF UpdateSlot
<1>2. s \in DOMAIN seat /\ seat[s] \in Seat
  BY <1>1 DEF IInv, TypeOK
<1>3. CASE s # t
  <2>1. seat'[s] = seat[s]
    BY <1>1, <1>2, <1>3
  <2>2. QED
    BY <1>2, <2>1, SamePlace
<1>4. CASE s = t
  <2>1. /\ seat'[s].at = Or(e.at, seat[s].at)
        /\ seat'[s].text = IF e.at \in {Keep, seat[s].at} THEN seat[s].text ELSE e.at
    BY <1>1, <1>2, <1>4 DEF Seat
  <2>2. CASE e.at \in {Keep, seat[s].at}
    BY <1>2, <2>1, <2>2, SamePlace DEF Or
  <2>3. CASE e.at \notin {Keep, seat[s].at}
    BY <2>1, <2>3 DEF Or, Placing
  <2>4. QED
    BY <2>2, <2>3
<1>5. QED
  BY <1>3, <1>4

LEMMA AcceptPlacing ==
  ASSUME IInv, NEW r \in swap, Accept(r), NEW s \in DOMAIN seat'
  PROVE  Placing(s)
<1>1. seat' = [seat EXCEPT ![r.give].player = seat[r.get].player,
                           ![r.get].player = seat[r.give].player]
  BY DEF Accept
<1>2. s \in DOMAIN seat /\ seat[s] \in Seat
  BY <1>1 DEF IInv, TypeOK
<1>3. seat'[s].at = seat[s].at /\ seat'[s].text = seat[s].text
  BY <1>1, <1>2 DEF Seat
<1>4. QED
  BY <1>2, <1>3, SamePlace

\* Importing, editing and trading never make a seat's station differ from the
\* place written on it; a start does, for a seat that has no station, and only
\* to its duty's own place.
THEOREM PlacesAreWritten == Spec => PlacedAsWritten
<1> DEFINE Kept == \A s \in DOMAIN seat' : Placing(s)
<1>1. ASSUME IInv, [Next]_vars PROVE Kept
  <2> SUFFICES ASSUME NEW s \in DOMAIN seat' PROVE Placing(s)
    OBVIOUS
  <2>1. CASE seat' = seat
    BY <2>1, SamePlace
  <2>2. CASE Import
    <3>1. (\E file \in File, answers \in Answers : Begin(file, answers)) => seat' = seat
      BY DEF Begin, rows
    <3>2. (\E pass \in Pass, i \in job.todo, t \in job.slots : Pair(pass, i, t)) => seat' = seat
      BY DEF Pair, rows
    <3>3. QED
      BY <1>1, <2>1, <2>2, <3>1, <3>2, WritePlacing DEF Import
  <2>3. CASE Parents
    <3>1. (\E a, b \in DOMAIN seat : Propose(a, b)) => seat' = seat
      BY DEF Propose
    <3>2. \A r \in swap : Decline(r) => seat' = seat
      BY DEF Decline
    <3>3. QED
      BY <1>1, <2>1, <2>3, <3>1, <3>2, AcceptPlacing DEF Parents
  <2>4. CASE Ansvarig
    <3>1. ASSUME NEW t \in DOMAIN seat, DeleteSlot(t) PROVE Placing(s)
      <4>1. s \in DOMAIN seat /\ seat'[s] = seat[s]
        BY <3>1 DEF DeleteSlot
      <4>2. QED
        BY <4>1, SamePlace
    <3>2. ASSUME NEW t \in Slot, NEW shift \in Edit.create, CreateSlot(t, shift)
          PROVE  Placing(s)
      <4>1. CASE s = t
        <5>1. seat'[s].at = seat'[s].text
          BY <3>2, <4>1 DEF CreateSlot
        <5>2. QED
          BY <5>1 DEF Placing
      <4>2. CASE s # t
        <5>1. s \in DOMAIN seat /\ seat'[s] = seat[s]
          BY <3>2, <4>2 DEF CreateSlot
        <5>2. QED
          BY <5>1, SamePlace
      <4>3. QED
        BY <4>1, <4>2
    <3>3. \A v \in Venue : CreateVenue(v) => seat' = seat
      BY DEF CreateVenue
    <3>4. \A p \in Place : CreateStation(p) => seat' = seat
      BY DEF CreateStation
    <3>5. QED
      BY <1>1, <2>1, <2>4, <3>1, <3>2, <3>3, <3>4, UpdatePlacing DEF Ansvarig
  <2>5. Tomorrow => seat' = seat
    BY DEF Tomorrow, rows
  <2>6. UNCHANGED vars => seat' = seat
    BY DEF vars, rows
  <2>7. QED
    BY <1>1, <2>1, <2>2, <2>3, <2>4, <2>5, <2>6, RestartPlacing DEF Next
<1>2. [][Kept]_vars <=> PlacedAsWritten
  BY DEF PlacedAsWritten, Placing
<1>3. QED
  BY <1>1, <1>2, Invariant, PTL DEF Spec

-----------------------------------------------------------------------------
(* Seats the file lists.  A seat and the seats that look like it to a file *)
(* compete for the rows that list it.  The first pass pairs one of those   *)
(* seats with one of those rows, and nothing else with either; so as long  *)
(* as there were enough rows to begin with there are enough left, and the  *)
(* pass does not end before every such seat has one.                       *)

Alike(s) ==
  {t \in Existing(job.file) : Ident(seat[t]) = Ident(seat[s]) /\ SpellingOf(t) = SpellingOf(s)}

Listing(s) ==
  {i \in DOMAIN job.file : Ident(W(i)) = Ident(seat[s]) /\ W(i).name = SpellingOf(s)}

EnoughRows(s) == Cardinality(Listing(s)) >= Cardinality(Alike(s))

ListInv ==
  job # NoJob =>
    /\ job.slots \subseteq Existing(job.file)
    /\ \A s \in Existing(job.file) : s \in job.slots \/ \E p \in job.pairs : p[1] = s
    /\ \A s \in Existing(job.file) : EnoughRows(s) =>
         /\ Cardinality(Listing(s) \intersect job.todo) >= Cardinality(Alike(s) \intersect job.slots)
         /\ \A p \in job.pairs : p[1] \in Alike(s) => p[2] \in Listing(s) /\ p[3] = "same"

LEMMA ListFinite ==
  ASSUME IInv, job # NoJob, NEW s
  PROVE  IsFiniteSet(Alike(s)) /\ IsFiniteSet(Listing(s))
<1>1. DOMAIN seat \subseteq 1 .. MaxSlot /\ MaxSlot \in Int
  BY ImportOK DEF IInv, TypeOK, Slot
<1>2. Alike(s) \subseteq 1 .. MaxSlot
  BY <1>1 DEF Alike, Existing
<1>3. Listing(s) \subseteq 1 .. Len(job.file) /\ Len(job.file) \in Int
  BY FileRows DEF Listing, IInv, JobOK
<1>4. IsFiniteSet(1 .. MaxSlot) /\ IsFiniteSet(1 .. Len(job.file))
  BY <1>1, <1>3, FS_Interval
<1>5. QED
  BY <1>2, <1>3, <1>4, FS_Subset

\* Looks and listings stay while a plan is paired up.
LEMMA SameLists ==
  ASSUME UNCHANGED <<seat, alias, placed, station>>,
         job'.file = job.file, job'.answers = job.answers, NEW s
  PROVE  /\ Existing(job.file)' = Existing(job.file)
         /\ Alike(s)' = Alike(s) /\ Listing(s)' = Listing(s)
<1>1. Existing(job.file)' = Existing(job.file)
  BY DEF Existing
<1>2. \A t : Ident(seat[t])' = Ident(seat[t]) /\ SpellingOf(t)' = SpellingOf(t)
  BY DEF Ident, SpellingOf
<1>3. \A i : W(i)' = W(i)
  BY SameWants
<1>4. \A i : Ident(W(i))' = Ident(W(i))
  BY <1>3 DEF Ident
<1>5. Alike(s)' = Alike(s)
  BY <1>1, <1>2 DEF Alike
<1>6. Listing(s)' = Listing(s)
  BY <1>2, <1>3, <1>4 DEF Listing
<1>7. QED
  BY <1>1, <1>5, <1>6

\* When the first pass has ended, a seat with enough rows has one.
LEMMA Drained ==
  ASSUME IInv, ListInv, job # NoJob, Matches(1) = {},
         NEW s \in Existing(job.file), EnoughRows(s)
  PROVE  Alike(s) \intersect job.slots = {}
<1> SUFFICES ASSUME NEW t \in Alike(s) \intersect job.slots PROVE FALSE
  OBVIOUS
<1>1. /\ IsFiniteSet(Alike(s) \intersect job.slots) /\ IsFiniteSet(Listing(s) \intersect job.todo)
  BY ListFinite, FS_Subset
<1>2. Cardinality(Alike(s) \intersect job.slots) # 0
  BY <1>1, FS_EmptySet
<1>3. Cardinality(Listing(s) \intersect job.todo) >= Cardinality(Alike(s) \intersect job.slots)
  BY DEF ListInv
<1>4. /\ Cardinality(Alike(s) \intersect job.slots) \in Nat
      /\ Cardinality(Listing(s) \intersect job.todo) \in Nat
  BY <1>1, FS_CardinalityType
<1>5. Listing(s) \intersect job.todo # {}
  BY <1>2, <1>3, <1>4, FS_EmptySet
<1>6. PICK i \in job.todo : i \in Listing(s)
  BY <1>5
<1>7. Ident(seat[t]) = Ident(W(i)) /\ SpellingOf(t) = W(i).name
  BY <1>6 DEF Alike, Listing
<1>8. Fits(1, t, W(i))
  BY <1>7 DEF Fits
<1>9. <<i, t>> \in Matches(1)
  BY <1>6, <1>8 DEF Matches
<1>10. QED
  BY <1>9

LEMMA PairLists ==
  ASSUME IInv, ListInv, job # NoJob, NEW pass \in Pass, NEW i \in job.todo, NEW s \in job.slots,
         Pair(pass, i, s)
  PROVE  ListInv'
<1> DEFINE p0 == <<s, i, Kind[pass]>>
<1>1. /\ job' = [file |-> job.file, answers |-> job.answers, slots |-> job.slots \ {s},
                 todo |-> job.todo \ {i}, pairs |-> job.pairs \union {p0}]
      /\ UNCHANGED <<seat, alias, placed, station>>
  BY DEF Pair, rows, IInv, JobOK
<1>2. /\ Existing(job.file)' = Existing(job.file)
      /\ \A u : Alike(u)' = Alike(u) /\ Listing(u)' = Listing(u)
  BY <1>1, SameLists
<1>3. /\ job'.file = job.file /\ job'.slots = job.slots \ {s} /\ job'.todo = job.todo \ {i}
      /\ job'.pairs = job.pairs \union {p0} /\ p0[1] = s /\ p0[2] = i /\ p0[3] = Kind[pass]
  BY <1>1
<1>4. /\ job'.slots \subseteq Existing(job.file)
      /\ \A u \in Existing(job.file) : u \in job'.slots \/ \E p \in job'.pairs : p[1] = u
  <2>1. \A u \in Existing(job.file) : u \in job.slots \/ \E p \in job.pairs : p[1] = u
    BY DEF ListInv
  <2>2. p0 \in job'.pairs /\ job.pairs \subseteq job'.pairs
    BY <1>3
  <2> HIDE DEF p0
  <2>3. QED
    BY <1>3, <2>1, <2>2 DEF ListInv
<1>5. ASSUME NEW u \in Existing(job.file), EnoughRows(u)
      PROVE  /\ Cardinality(Listing(u) \intersect job'.todo) >= Cardinality(Alike(u) \intersect job'.slots)
             /\ \A p \in job'.pairs : p[1] \in Alike(u) => p[2] \in Listing(u) /\ p[3] = "same"
  <2>1. /\ IsFiniteSet(Alike(u) \intersect job.slots) /\ IsFiniteSet(Listing(u) \intersect job.todo)
        /\ Cardinality(Alike(u) \intersect job.slots) \in Nat
        /\ Cardinality(Listing(u) \intersect job.todo) \in Nat
    BY ListFinite, FS_Subset, FS_CardinalityType
  <2>2. /\ Cardinality(Listing(u) \intersect job.todo) >= Cardinality(Alike(u) \intersect job.slots)
        /\ \A p \in job.pairs : p[1] \in Alike(u) => p[2] \in Listing(u) /\ p[3] = "same"
    BY <1>5 DEF ListInv
  <2>3. CASE pass = 1
    <3>1. /\ Ident(seat[s]) = Ident(W(i)) /\ SpellingOf(s) = W(i).name /\ Kind[pass] = "same"
          /\ s \in Existing(job.file) /\ i \in DOMAIN job.file
      BY <2>3 DEF Pair, Fits, Kind, ListInv, IInv, JobOK
    <3>2. s \in Alike(u) <=> i \in Listing(u)
      BY <3>1 DEF Alike, Listing
    <3>3. CASE s \in Alike(u)
      <4>1. /\ Alike(u) \intersect job'.slots = (Alike(u) \intersect job.slots) \ {s}
            /\ Listing(u) \intersect job'.todo = (Listing(u) \intersect job.todo) \ {i}
            /\ s \in Alike(u) \intersect job.slots /\ i \in Listing(u) \intersect job.todo
        BY <1>3, <3>2, <3>3
      <4>2. /\ Cardinality(Alike(u) \intersect job'.slots) = Cardinality(Alike(u) \intersect job.slots) - 1
            /\ Cardinality(Listing(u) \intersect job'.todo) = Cardinality(Listing(u) \intersect job.todo) - 1
        <5>1. Cardinality((Alike(u) \intersect job.slots) \ {s}) = Cardinality(Alike(u) \intersect job.slots) - 1
          BY <2>1, <4>1, FS_RemoveElement
        <5>2. Cardinality((Listing(u) \intersect job.todo) \ {i}) = Cardinality(Listing(u) \intersect job.todo) - 1
          BY <2>1, <4>1, FS_RemoveElement
        <5>3. QED
          BY <4>1, <5>1, <5>2
      <4>3. Cardinality(Listing(u) \intersect job'.todo) >= Cardinality(Alike(u) \intersect job'.slots)
        BY <2>1, <2>2, <4>2
      <4>4. QED
        BY <1>3, <2>2, <3>1, <3>2, <3>3, <4>3
    <3>4. CASE s \notin Alike(u)
      <4>1. /\ Alike(u) \intersect job'.slots = Alike(u) \intersect job.slots
            /\ Listing(u) \intersect job'.todo = Listing(u) \intersect job.todo
        BY <1>3, <3>2, <3>4
      <4>2. Cardinality(Listing(u) \intersect job'.todo) >= Cardinality(Alike(u) \intersect job'.slots)
        BY <2>2, <4>1
      <4>3. QED
        BY <1>3, <2>2, <3>4, <4>2
    <3>5. QED
      BY <3>3, <3>4
  <2>4. CASE pass # 1
    <3>1. Matches(1) = {}
      BY <2>4 DEF Pair, Pass
    <3>2. Alike(u) \intersect job.slots = {}
      BY <1>5, <3>1, Drained
    <3>3. s \notin Alike(u) /\ Alike(u) \intersect job'.slots = {}
      BY <1>3, <3>2
    <3>4. Cardinality(Alike(u) \intersect job'.slots) = 0
      BY <3>3, FS_EmptySet
    <3>5. Cardinality(Listing(u) \intersect job'.todo) \in Nat
      BY <1>3, ListFinite, FS_Subset, FS_CardinalityType
    <3>6. QED
      BY <1>3, <2>2, <3>3, <3>4, <3>5
  <2>5. QED
    BY <2>3, <2>4
<1>6. \A u : EnoughRows(u)' = EnoughRows(u)
  BY <1>2 DEF EnoughRows
<1>7. \A u \in Existing(job.file)' :
        /\ u \in Existing(job.file)
        /\ EnoughRows(u)' =>
             /\ Cardinality(Listing(u)' \intersect job'.todo) >= Cardinality(Alike(u)' \intersect job'.slots)
             /\ \A p \in job'.pairs : p[1] \in Alike(u)' => p[2] \in Listing(u)' /\ p[3] = "same"
  BY <1>2, <1>5, <1>6
<1>8. QED
  BY <1>2, <1>4, <1>7 DEF ListInv

LEMMA BeginLists ==
  ASSUME IInv, NEW file \in File, NEW answers \in Answers, Begin(file, answers)
  PROVE  ListInv'
<1>1. /\ job' = [file |-> file, answers |-> answers, slots |-> Existing(file),
                 todo |-> DOMAIN file, pairs |-> {}]
      /\ UNCHANGED seat
  BY DEF Begin, rows
<1>2. /\ job'.file = file /\ job'.slots = Existing(file) /\ job'.todo = DOMAIN file
      /\ job'.pairs = {}
  BY <1>1
<1>3. Existing(job.file)' = job'.slots
  BY <1>1, <1>2 DEF Existing
<1>4. ASSUME NEW s
      PROVE  /\ Listing(s)' \intersect job'.todo = Listing(s)'
             /\ Alike(s)' \intersect job'.slots = Alike(s)'
  BY <1>2, <1>3 DEF Listing, Alike
<1>5. QED
  BY <1>2, <1>3, <1>4 DEF ListInv, EnoughRows

LEMMA ListStep == IInv /\ ListInv /\ [Next]_vars => ListInv'
<1> SUFFICES ASSUME IInv, ListInv, [Next]_vars PROVE ListInv'
  OBVIOUS
<1>1. CASE Import
  <2>1. Write => ListInv'
    BY DEF Write, ListInv
  <2>2. QED
    BY <1>1, <2>1, BeginLists, PairLists DEF Import
<1>2. CASE job' = NoJob
  BY <1>2 DEF ListInv
<1>3. CASE Parents \/ Ansvarig \/ Restart \/ Tomorrow
  <2>1. job' = NoJob
    BY <1>3 DEF Parents, Ansvarig, Restart, Tomorrow, Propose, Accept, Decline, DeleteSlot,
                UpdateSlot, CreateSlot, CreateVenue, CreateStation, Edits, Quiet
  <2>2. QED
    BY <2>1, <1>2
<1>4. CASE UNCHANGED vars
  <2>1. /\ UNCHANGED <<seat, alias, placed, station, job>>
    BY <1>4 DEF vars, rows
  <2>2. /\ Existing(job.file)' = Existing(job.file)
        /\ \A u : Alike(u)' = Alike(u) /\ Listing(u)' = Listing(u)
    BY <2>1, SameLists
  <2>3. QED
    BY <2>1, <2>2 DEF ListInv, EnoughRows
<1>5. QED
  BY <1>1, <1>3, <1>4 DEF Next

LEMMA ListInvariant == Spec => []ListInv
<1>1. Init => ListInv
  BY DEF Init, ListInv
<1>2. QED
  BY <1>1, ListStep, Invariant, PTL DEF Spec

\* A family keeps its seat through any import whose file still has a row for
\* that shift and schedule name, or as many rows as there are such seats,
\* unless the review corrects the answer that gave them the seat.
THEOREM ListedStay == Spec => ListedSeatsStay
<1> DEFINE Kept == Write => \A s \in Existing(job.file) : EnoughRows(s) =>
              /\ s \in DOMAIN seat'
              /\ \/ seat[s].player \in {Nobody, seat'[s].player}
                 \/ seat[s].player = Wrong(SpellingOf(s), job.answers)
<1>1. ASSUME IInv, ListInv PROVE Kept
  <2> SUFFICES ASSUME Write, NEW s \in Existing(job.file), EnoughRows(s)
               PROVE  /\ s \in DOMAIN seat'
                      /\ \/ seat[s].player \in {Nobody, seat'[s].player}
                         \/ seat[s].player = Wrong(SpellingOf(s), job.answers)
    OBVIOUS
  <2>1. PICK h \in 0 .. MaxSlot :
          /\ Highest(h)
          /\ \E f \in Bijection(Added, (h + 1) .. (h + Cardinality(Added))) : seat' = Written(f)
    BY DEF Write
  <2>2. PICK f \in Bijection(Added, (h + 1) .. (h + Cardinality(Added))) : seat' = Written(f)
    BY <2>1
  <2>3. job # NoJob /\ Matches(1) = {}
    BY DEF Write, Pass
  <2>4. s \in Alike(s) /\ s \in DOMAIN seat
    BY DEF Alike, Existing
  <2>5. s \in DOMAIN seat \ Removed
    BY <1>1, <2>3, <2>4, Drained DEF Removed
  <2>6. /\ s \in DOMAIN seat'
        /\ \/ seat'[s] = seat[s]
           \/ \E p \in Edited : p[1] = s /\ seat'[s] = Reconciled(s, W(p[2]), p[3])
    BY <1>1, <2>1, <2>2, <2>3, <2>5, WrittenSays
  <2>7. ASSUME NEW p \in Edited, p[1] = s, seat'[s] = Reconciled(s, W(p[2]), p[3])
        PROVE  \/ seat[s].player \in {Nobody, seat'[s].player}
               \/ seat[s].player = Wrong(SpellingOf(s), job.answers)
    <3>1. p \in job.pairs
      BY DEF Edited
    <3>2. p[2] \in Listing(s) /\ p[3] = "same"
      BY <1>1, <2>3, <2>4, <2>7, <3>1 DEF ListInv
    <3>3. W(p[2]).name = SpellingOf(s)
      BY <3>2 DEF Listing
    <3>4. seat'[s].player = NewOwner(s, W(p[2]), "same")
      BY <1>1, <2>3, <2>7, <3>1, <3>2, ReconciledSays
    <3>5. QED
      BY <3>3, <3>4 DEF NewOwner
  <2>8. QED
    BY <2>6, <2>7
<1>2. [][Kept]_vars <=> ListedSeatsStay
  BY DEF ListedSeatsStay, EnoughRows, Alike, Listing
<1>3. QED
  BY <1>1, <1>2, Invariant, ListInvariant, PTL DEF Spec

=============================================================================
