-------------------------------- MODULE Mailer --------------------------------
(***************************************************************************)
(* The reminder mailer: every morning a job reads the schedule from the    *)
(* web app, groups its rows into shifts and mails each group whose shift   *)
(* is a lead time away.  It remembers nothing between runs.  Meanwhile the *)
(* schedule and people's settings change; jobs are not started, die, fail  *)
(* to read the schedule or to deliver a mail, and are run again by hand.   *)
(***************************************************************************)
EXTENDS Integers, SequencesExt, FiniteSetsExt

CONSTANTS
  Seat,       \* slot ids
  TeamOf,     \* each seat's team
  StartOf,    \* its start
  EndOf,      \* and end
  WhatOf,     \* its duty and venue, by their place in the order of the names
  StationOf,  \* its station, or NoStation
  NoteOf,     \* its note
  Player,
  ParentsOf,  \* the addresses of each player's parents
  Start,      \* the schedules and settings to start from
  LastDay,    \* bound: the days are 0 .. LastDay
  MaxEdit,    \* bound on the changes to the schedule and the settings
  Lead,       \* default_lead_days
  MaxGap,     \* max_handoff_gap_days
  Nobody, NoStation, NoShift, NoNote

VARIABLES
  day,    \* today
  row,    \* slots: each seat's date and player
  muted,  \* the parents with email_notifications off
  edits,  \* counts the changes
  ran,    \* whether today's scheduled job has been started
  job,    \* the job that runs
  sent,   \* history: the messages this job sent
  told,   \* history: <<address, shift, role>> mailed by scheduled jobs
  ever,   \* history: what was so at some moment of this job
  always  \* history: what was so at every moment of it

vars == <<day, row, muted, edits, ran, job, sent, told, ever, always>>

Day == 0 .. LastDay
Parent == UNION {ParentsOf[k] : k \in Player}
Row == [due : Day, player : Player \union {Nobody}]

\* web_api.Shift.
Shift == [due : Day, start : {StartOf[s] : s \in Seat}, end : {EndOf[s] : s \in Seat},
          what : {WhatOf[s] : s \in Seat}, team : {TeamOf[s] : s \in Seat}]

ASSUME MailerOK ==
  /\ LastDay \in Nat /\ MaxEdit \in Nat /\ MaxGap \in Nat
  /\ Lead # {} /\ Lead \subseteq Nat /\ IsFiniteSet(Lead) /\ Cardinality(Lead) <= 2
  /\ Nobody \notin Player /\ NoShift \notin Shift
  /\ IsFiniteSet(Seat) /\ StartOf \in [Seat -> Nat] /\ EndOf \in [Seat -> Nat]
  /\ WhatOf \in [Seat -> Nat]
  /\ \A s \in Seat : StartOf[s] < EndOf[s]   \* slots_create.py:208, slot_edit.py:150
  /\ \A start \in Start : start.row \in [Seat -> Row] /\ start.muted \subseteq Parent

ShiftOf(rows, s) == [due |-> rows[s].due, start |-> StartOf[s], end |-> EndOf[s],
                     what |-> WhatOf[s], team |-> TeamOf[s]]

-----------------------------------------------------------------------------
(* WebAppApiSource.fetch.                                                  *)

\* api_schedule: the rows with a player, by date and otherwise in any order.
Entries(rows) ==
  {order \in SetToSeqs({s \in Seat : rows[s].player # Nobody}) :
     \A i, j \in DOMAIN order : i < j => rows[order[i]].due <= rows[order[j]].due}

\* The rows of one shift, by their place in the answer.
RowsOf(rows, entries, sh) == {i \in DOMAIN entries : ShiftOf(rows, entries[i]) = sh}

ParentsAt(rows, entries, i) == ParentsOf[rows[entries[i]].player]

\* Mutant of People: somebody with two seats is listed twice.
PeopleUndeduped(rows, off, entries, sh) ==
  {e \in RowsOf(rows, entries, sh) \X (Parent \ off) : e[2] \in ParentsAt(rows, entries, e[1])}

\* The parents who want mail, each at the first row they are named in.
People(rows, off, entries, sh) ==
  {e \in RowsOf(rows, entries, sh) \X (Parent \ off) :
     /\ e[2] \in ParentsAt(rows, entries, e[1])
     /\ \A i \in RowsOf(rows, entries, sh) : e[2] \in ParentsAt(rows, entries, i) => e[1] <= i}

Stations(rows, entries, sh) == {StationOf[entries[i]] : i \in RowsOf(rows, entries, sh)}

\* The first row's note wins.
Note(rows, entries, sh) ==
  NoteOf[entries[CHOOSE i \in RowsOf(rows, entries, sh) :
                   \A j \in RowsOf(rows, entries, sh) : i <= j]]

\* Mutant of Named: any of the stations.
NamedAny(stations) == CHOOSE st \in stations : TRUE

\* The station, if all rows of the shift agree on one.
Named(stations) ==
  IF \E st \in stations : stations = {st} THEN CHOOSE st \in stations : TRUE ELSE NoStation

OccurrenceOf(rows, off, entries, sh) ==
  [shift |-> sh, people |-> People(rows, off, entries, sh),
   station |-> Named(Stations(rows, entries, sh)), note |-> Note(rows, entries, sh)]

\* by_shift has no entry for a group without people.
Mailed(occ) == occ.people # {}

Occurrences(rows, off, entries) ==
  {occ \in {OccurrenceOf(rows, off, entries, ShiftOf(rows, s)) : s \in ToSet(entries)} : Mailed(occ)}

-----------------------------------------------------------------------------
(* scheduling and templates.                                               *)

\* role_for.
RoleFor(offset) ==
  IF Cardinality(Lead) = 2 /\ \A o \in Lead : o <= offset THEN "forhandsbesked" ELSE "paminnelse"

\* Mutant of IsDue: also when the day of the reminder has passed.
IsDueLate(left, offset) == 0 <= left /\ left <= offset

IsDue(left, offset) == left = offset

\* due_on.
DueOn(occs, date) ==
  UNION {{[occ |-> o, role |-> RoleFor(offset)] :
            offset \in {x \in Lead : IsDue(o.shift.due - date, x)}} : o \in occs}

\* Mutant of Earlier: whoever had the keys last, of any team.
EarlierAnyTeam(occs, occ) == {o \in occs : o.shift.due < occ.shift.due}

Earlier(occs, occ) == {o \in occs : o.shift.due < occ.shift.due /\ o.shift.team = occ.shift.team}

\* Mutant of Behind: whoever came first that day.
BehindLater(p, o) == p.start > o.start \/ (p.start = o.start /\ p.end > o.end)

\* max of the start times; of equal ones it keeps the first, and the shifts are
\* sorted by end, duty and venue.
Behind(p, o) ==
  \/ p.start < o.start
  \/ p.start = o.start /\ (p.end > o.end \/ (p.end = o.end /\ p.what >= o.what))

\* previous_occurrence: of the team's previous day, or none.
Previous(occs, occ) ==
  {o \in Earlier(occs, occ) :
     /\ occ.shift.due - o.shift.due <= MaxGap
     /\ \A p \in Earlier(occs, occ) :
          \/ p.shift.due < o.shift.due
          \/ p.shift.due = o.shift.due /\ Behind(p.shift, o.shift)}

\* render; only the heads-up says who was there last and where the keys are.
Message(occs, pair) ==
  LET handover == IF pair.role = "forhandsbesked" THEN Previous(occs, pair.occ) ELSE {} IN
  [shift |-> pair.occ.shift, role |-> pair.role, to |-> pair.occ.people,
   station |-> pair.occ.station,
   last |-> IF handover = {} THEN NoShift ELSE (CHOOSE o \in handover : TRUE).shift,
   keys |-> IF handover = {} THEN NoNote ELSE (CHOOSE o \in handover : TRUE).note]

\* The addresses of a mail.
To(m) == {e[2] : e \in m.to}

-----------------------------------------------------------------------------
(* What the properties compare the mails with.                             *)

\* Who stands where, and who wants mail.
Now(rows, off) ==
  [on |-> {[player |-> rows[s].player, shift |-> ShiftOf(rows, s), seat |-> s] :
             s \in {x \in Seat : rows[x].player # Nobody}},
   open |-> Parent \ off]

Nothing == [on |-> {}, open |-> {}]

Remember ==
  IF job'.at = "idle" THEN ever' = Nothing /\ always' = Nothing
  ELSE IF job.at = "idle" THEN ever' = Now(row, muted)' /\ always' = Now(row, muted)'
  ELSE /\ ever' = [on |-> ever.on \union Now(row, muted)'.on,
                   open |-> ever.open \union Now(row, muted)'.open]
       /\ always' = [on |-> always.on \intersect Now(row, muted)'.on,
                     open |-> always.open \intersect Now(row, muted)'.open]

-----------------------------------------------------------------------------
(* The job: main and run.                                                  *)

Idle == [at |-> "idle"]
End == job' = Idle /\ sent' = {}

\* The cron starts a job a day at most; by hand also for another date.
Begin(date, byHand) ==
  /\ job.at = "idle"
  /\ byHand \/ (~ran /\ date = day)
  /\ ran' = (ran \/ ~byHand)
  /\ job' = [at |-> "seats", date |-> date, byHand |-> byHand]
  /\ UNCHANGED <<day, row, muted, edits, sent, told>>

\* The web app reads the slots in one SELECT, and the people after it.
ReadSeats ==
  /\ job.at = "seats"
  /\ job' = [at |-> "people", date |-> job.date, byHand |-> job.byHand, rows |-> row]
  /\ UNCHANGED <<day, row, muted, edits, ran, sent, told>>

ReadPeople ==
  /\ job.at = "people"
  /\ \E entries \in Entries(job.rows) :
       LET occs == Occurrences(job.rows, muted, entries) IN
       job' = [at |-> "send", date |-> job.date, byHand |-> job.byHand, occs |-> occs,
               todo |-> DueOn(occs, job.date), failed |-> {}]
  /\ UNCHANGED <<day, row, muted, edits, ran, sent, told>>

\* In order of date and start.
Soonest(todo) ==
  {p \in todo : \A q \in todo : \/ p.occ.shift.due < q.occ.shift.due
                                \/ /\ p.occ.shift.due = q.occ.shift.due
                                   /\ p.occ.shift.start <= q.occ.shift.start}

\* What arrives is told, if the day's own job sent it.
Tell(m, whom) ==
  told' = IF job.byHand THEN told ELSE told \union {<<q, m.shift, m.role>> : q \in whom}

\* The server takes the mail for some of the group.  Whom it refuses alone,
\* send_message returns, and send does not look at.
Send ==
  /\ job.at = "send"
  /\ \E pair \in Soonest(job.todo) :
       LET m == Message(job.occs, pair) IN
       /\ sent' = sent \union {m}
       /\ \E refused \in SUBSET To(m) \ {To(m)} : Tell(m, To(m) \ refused)
       /\ job' = [job EXCEPT !.todo = @ \ {pair}]
  /\ UNCHANGED <<day, row, muted, edits, ran>>

\* Mutant of SendFails: the rest is given up.
SendFailsForAll ==
  /\ job.at = "send"
  /\ \E pair \in Soonest(job.todo) :
       job' = [job EXCEPT !.todo = {}, !.failed = @ \union {Message(job.occs, pair)}]
  /\ UNCHANGED <<day, row, muted, edits, ran, sent, told>>

\* SendError is counted, and the others still get theirs.  A connection lost
\* after the text was sent is an error too, and the mail may have arrived.
SendFails ==
  /\ job.at = "send"
  /\ \E pair \in Soonest(job.todo) :
       LET m == Message(job.occs, pair) IN
       /\ \E arrived \in SUBSET To(m) : Tell(m, arrived)
       /\ job' = [job EXCEPT !.todo = @ \ {pair}, !.failed = @ \union {m}]
  /\ UNCHANGED <<day, row, muted, edits, ran, sent>>

\* All are done; the exit code says whether any failed.
Exit ==
  /\ job.at = "send" /\ job.todo = {}
  /\ End
  /\ UNCHANGED <<day, row, muted, edits, ran, told>>

\* RosterError before anything was sent, or the job dies.
Abort ==
  /\ job.at # "idle"
  /\ End
  /\ UNCHANGED <<day, row, muted, edits, ran, told>>

-----------------------------------------------------------------------------
(* Meanwhile.                                                              *)

Change ==
  /\ edits < MaxEdit
  /\ edits' = edits + 1
  /\ \/ /\ \E s \in Seat, k \in Player \union {Nobody} : row' = [row EXCEPT ![s].player = k]
        /\ UNCHANGED muted
     \/ /\ \E s \in Seat, d \in Day : row' = [row EXCEPT ![s].due = d]
        /\ UNCHANGED muted
     \/ /\ \E q \in Parent : muted' = SymDiff(muted, {q})
        /\ UNCHANGED row
  /\ UNCHANGED <<day, ran, job, sent, told>>

\* A job reads the clock once, so midnight may as well wait for it.
NextDay ==
  /\ job.at = "idle" /\ day < LastDay
  /\ day' = day + 1
  /\ ran' = FALSE
  /\ UNCHANGED <<row, muted, edits, job, sent, told>>

Init ==
  /\ day = 0
  /\ \E start \in Start : row = start.row /\ muted = start.muted
  /\ edits = 0 /\ ran = FALSE
  /\ job = Idle /\ sent = {} /\ told = {}
  /\ ever = Nothing /\ always = Nothing

Next ==
  /\ \/ \E date \in Day, byHand \in BOOLEAN : Begin(date, byHand)
     \/ ReadSeats \/ ReadPeople \/ Send \/ SendFails \/ Exit \/ Abort
     \/ Change \/ NextDay
  /\ Remember

Spec == Init /\ [][Next]_vars

-----------------------------------------------------------------------------
(* Properties.                                                             *)

\* Whoever is mailed about a shift stood on it, and wanted mail, at some moment
\* of the job, and is addressed once however many seats the family has.
OnlyThoseOnDuty ==
  \A m \in sent :
    /\ \A e, f \in m.to : e[2] = f[2] => e = f
    /\ \A q \in To(m) :
         /\ q \in ever.open
         /\ \E x \in ever.on : q \in ParentsOf[x.player] /\ x.shift = m.shift

\* A job that gets to its end has, for everybody who stood on a shift that is
\* a lead time away and wanted mail all the while, handed the server exactly one
\* message of the right kind with them among its recipients, or failed at that
\* very one: the failure of one mail costs no other group its reminder
\* (__main__.py:78).  A recipient the server refuses alone is neither mailed nor
\* reported; see the README.
NobodyForgotten ==
  job.at = "send" /\ job.todo = {} =>
    \A x \in always.on, offset \in Lead :
      x.shift.due = job.date + offset =>
        \A q \in ParentsOf[x.player] \intersect always.open :
          Cardinality({m \in sent \union job.failed :
                         /\ m.shift = x.shift /\ m.role = RoleFor(offset)
                         /\ q \in To(m)}) = 1

\* "Guessing at the first would send half the group to the wrong counter"
\* (web_api.py:148): a mail that names a station names it for everybody on the
\* shift, those who want no mail included.
RightCounter ==
  \A m \in sent :
    m.station # NoStation =>
      \A x \in always.on : x.shift = m.shift => StationOf[x.seat] = m.station

\* The keys are with a group of the same team, unless that was too long ago,
\* and no group of it came after that one had left: on a later day, or later
\* the same day.  Of groups that overlap, the one that came last is named,
\* whoever left last.
CameAfter(x, a, m) ==
  /\ x.shift.team = m.shift.team /\ x.shift.due < m.shift.due
  /\ a.due < x.shift.due \/ (a.due = x.shift.due /\ a.end <= x.shift.start)
  /\ ParentsOf[x.player] \intersect always.open # {}

HandoverSkipsNobody ==
  \A m \in sent :
    IF m.last = NoShift
    THEN m.role = "forhandsbesked" =>
           \A x \in always.on :
             x.shift.due + MaxGap >= m.shift.due =>
               ~CameAfter(x, [due |-> -1, end |-> 0], m)
    ELSE /\ m.last.team = m.shift.team /\ m.shift.due - m.last.due \in 1 .. MaxGap
         /\ \A x \in always.on : ~CameAfter(x, m.last, m)
         /\ \E x \in ever.on : x.shift = m.last /\ NoteOf[x.seat] = m.keys

\* The scheduled jobs keep no record of what they sent, and yet tell nobody the
\* same thing about the same shift twice, also when a mail arrived although it
\* failed, and when seats are moved or change hands between two days, or
\* between two mails.
Tried(j) == IF j.at = "send" THEN j.failed ELSE {}

NobodyToldTwice ==
  [][\A m \in (sent' \union Tried(job')) \ (sent \union Tried(job)) :
       ~job.byHand => \A q \in To(m) : <<q, m.shift, m.role>> \notin told]_vars

=============================================================================
