# Duty web: a verification development

This directory holds TLA+ models of the duty web, the site on which the
families of a sports club see, trade and administer their café shifts, with the
TLC runs that check the models and the TLAPS proofs about them. Paths below are
relative to `src/`; `web/` is the Flask application, `src/duty_mailer/` the
reminder mailer.

## 1. The system

| Component | State it keeps | Operations | What is hard about it |
|---|---|---|---|
| Swap requests (`swaps.py`, `routes/swap_routes.py`) | `swap_requests` rows: two slots, a status, a creation time; the player on each `slots` row | `propose_swap`, `accept_swap`, `decline_swap`, `expire_stale_swaps`; `create`, `accept`, `decline` | a request describes two seats that other requests and admins change; handlers read, check and write without a transaction around the reads |
| Sessions and the database (`db.py`, `session_scope.py`) | one SQLAlchemy session per request, SQLite in autocommit until the first write | `get_session`, the foreign-key and lock pragmas | copies in the identity map outlive the rows they were read from |
| Ownership (`roster.py`) | `players`, `parent_players` | `parent_players`, `parent_owns_slot` | constant while trades run |
| Calendar and agenda (`schedule_queries.py`, `agenda.py`, `duties.py`) | none | candidate lists, incoming requests | a list is true when the page is drawn, not when it is used |
| Admin executor (`admin/executor.py`, `admin/plan_tokens.py`) | none on the server: a signed token in the browser carries the input and a digest of the plan | `dry_run`, `preview`, `apply_plan` | review and apply are separated by minutes, by other people's writes, by restarts; tokens are replayed |
| Admin actions (`admin/actions/*.py`, `admin/slot_ops.py`) | slots, swap requests, team admins, places, the roster | `plan(session, ctx, inp)` of each action | a plan must depend on everything its writes overwrite |
| Permissions (`admin/permissions.py`, `teams.py`) | `team_admins` | `admin_context` | right checked before the lock is taken |
| Staffing (`staffing.py`, `actions/slots_assign.py`) | none: locks and seed are in the action's input | `assign` | fairness over a season, locked and exempt players, no double booking |
| Schedule import (`actions/schedule_import.py`, `schedule_xlsx.py`) | slots; saved answers (whom a spelling means, where an activity is held) | read a file, pair its rows with the team's seats, write the difference | matching rows to seats that were traded, moved and respelled since |
| Roster import (`actions/roster_import.py`, `members_csv.py`) | people, players, guardians | reconcile a member list | a second import must change no child, link or role |
| Places and migration (`places.py`, `migrate.py`) | venues, stations, links from slots | seed once, link at every start | where a seat is held and what its row says are two columns, written by different steps |
| Login links, API keys, rate limit (`auth.py`, `admin/api_keys.py`, `admin/ratelimit.py`) | token hashes, expiry times, attempts in memory | issue, check, consume; window | two clicks at once; the window after a restart |
| Reminder mailer (`src/duty_mailer/`) | none | a daily run: read, group, select what is due, send | failed runs are not made up for; the schedule moves between runs |
| Mails and pages (`notifications.py`, `templates.py`, other routes) | none | texts | wording |

**Interactions.** Parents' handlers and admin actions share the tables `slots`
and `swap_requests`. The server runs request threads; a handler's `SELECT`s
run outside a transaction and its first `INSERT` or `UPDATE` takes SQLite's one
write lock, which it keeps until it commits. `apply_plan` and `preview` take the
lock *before* their first read. An admin write that changes or deletes a seat
cancels or deletes the swap requests that touch it in the same plan. Mails go
out after a commit and their loss is only logged. The mailer reads the schedule
through `/api/schedule` once a day and shares no state with the site. Imports
write the same seats, people and links as the pages do, under `apply_plan`'s
lock; every start of the server seeds and links places and seeds club admins.

**What makes each component correct**, in a sentence each: a pending request
always describes the trade that was offered; an admin's change does what its
reviewer was shown or nothing; nobody stands twice on a day and those with the
fewest shifts come first; an import follows the file without undoing trades or
touching history; a roster import leaves the other teams, and everybody's
children, alone; a link that was used never lets anybody in again, and who
keeps trying gets in; no action is run for somebody without the right to it;
and everybody on duty is reminded once, of the right place.

## 2. Modules

```
SwapRows            rows of slots and swap_requests, the admin writes on them
 |- SwapBook        the parents' operations, one handler at a time (abstract)
 |   |- SwapBook_proofs
 |   '- MCSwapBook
 '- SwapHandlers    the same handlers as threads, one SELECT or write per step
     |              (refines SwapBook when one thread runs)
     |- SwapHandlers_proofs   (on SwapBook_proofs)
     '- MCSwapHandlers
ReviewedChanges     what the two-step admin interface promises (abstract)
AdminPlans          what the admin actions plan, as functions of the rows
 '- Executor        dry_run, preview, apply_plan as threads, restarts, replay
     |              (refines ReviewedChanges)
     |- Executor_proofs
     '- MCExecutor
Staffing            slots.assign: locks, the fair draw, the write
 |- Staffing_proofs
 '- MCStaffing
Places              venues and stations, seeded once, linked at every start
 '- ScheduleImport  the coach's file against a team's seats, between edits,
     |              trades and restarts
     |- ScheduleImport_proofs
     '- MCScheduleImport
RosterImport        the members' export against people, players and roles
 |- RosterImport_proofs
 '- MCRosterImport
LoginLinks          asking for, mailing and clicking a login link, as threads
 '- AdminDoor       API keys, the rate limiter and rights, as threads
     |- Access_proofs         (of both)
     '- MCAccess
Mailer              the daily job over a schedule that changes under it
 |- Mailer_proofs
 '- MCMailer
```

**SwapRows.** `seat[s]` is a slot row: the player on it, its team and its shift,
which stands for date, times and place together; `Gone` is a row that does not
exist.
`swap[i]` is a request row. `created_at` is abstracted to `stale`, "more than
seven days old", which `Age` may set while the request is pending and nothing
resets. `terms` is a history field: the two seats as `propose_swap` read them
when it made the offer; no guard reads it. The admin writes are
`slot.update` (`MoveSlots` for the seats of one shift, `ReplacePlayer` for one
seat), `slot.delete`, `slots.assign` and `slots.create`, with the cancellations
of `plan_swap_cancellations` where the code has them. They are one step because
`apply_plan` plans and writes under the write lock. `slots.id` is an `INTEGER
PRIMARY KEY` without `AUTOINCREMENT`: a new slot gets the largest id there is
plus one (`AreNextSlots`), so the id of a deleted slot can come back, for
another team. The imports are not among the writes here; what they do to
requests is in `ScheduleImport`.

**SwapBook.** `Propose`, `Accept`, `Decline`, `ExpireOnAnswer` (the expiry in
`_pending_request`) and `ExpireStaleSwaps` (the sweep) with every guard of the
code, run from beginning to end.

**SwapHandlers.** One `job` per request thread. A step is one `SELECT` with the
checks made on its result, or one write transaction computed from the copies
the session holds. The request row and the two slot rows are each read once and
kept (`giveRow`, `getRow`): that is SQLAlchemy's identity map. `RowsStillThere`
is the flush that fails when an `UPDATE` finds no row, `ForeignKeysHold` the
pragma at the insert, `LockedOut` the busy timeout. `reused` is history: a
handler held a slot id (`Held`) that `slots.create` gave to a new slot.
`ParentSpec` is the part of the handlers that parents reach from the page,
where a family answers what is listed for it (`Incoming`), with no admin at
work. `told` is the player whose
parents get the answer mail, chosen where the code chooses it: before the
exchange in `accept`, after the commit in `decline`.

**AdminPlans.** A plan is `[digest, data]`: what Granska's hash covers (the
basis rows, the requests touched with their statuses, the warnings) and the
rows as the writes leave them. Both are functions of the rows, as
`Action.plan` is. The lines of text the plan also has are left out where
they are determined by the basis. `Effect` is what the reviewer is told.
`Input` is what the forms can ask for; `ForeignKeys` is what SQLite enforces of
the rows that a run starts from (`db.py:22-30`, `models.py:129-130`).

**Executor.** `ReviewBegin`, `ReviewReadsOn`, `ReviewEnd` are `dry_run`: its
reads are separate `SELECT`s, so what it has read may be any mixture of rows
before and after somebody's commit, which `Mixes` enumerates. `PreviewBegin` to
`PreviewEnd` hold the write lock over rendering. `ApplyBegin`, `TakeLock`,
`Replan`, `Commit` are `apply_plan`, with `Busy`, `StalePlan` and `WriteFails`
as its error paths and `AfterCommit` as the callbacks. `Restart` may happen at
any step. Tokens are never removed from `token`: they are not stored by the
server and may be presented any number of times, by any thread. Their
life of 30 minutes (`plan_tokens.py:17`) is not modelled, because a refused token is a request
that does nothing, and not making the request is allowed at every step.

**Staffing.** `Begin` counts loads, days and shift-mates from the filled seats
as `AssignSlots.plan` does, then seats are decided one step at a time: `Lock` or
`RefuseLock` for the input's locks in order, then `Draw` or `LeaveFree` for the
others as `assign` does, and `Write`. `Give` is the bookkeeping between two
seats (`load`, `held`, `mates`). The seed is a free choice among those whom
`RanksBefore` leaves equal. The whole plan runs under `apply_plan`'s lock, so
the rows do not change between `Begin` and `Write`; the steps are those of its
loops. Days are numbered from a Monday and a season is `SeasonDays` long, which
keeps the one thing the code uses of it: every day is in one season. A shift is
day, start and place; `place` stands for end time, duty and station, and for
the note that tells undated shifts apart. `AssignSlot` of `SwapRows` is the
abstraction of a plan for one seat.

**Places.** A venue is its normalised name, a station a pair of names. `Seeded`
is the first start's `find_or_create_station` calls, which later starts skip
because there is a station; `Linked` is `link_unlinked_slots`, which every start
runs. A seat has `at` (its `station_id`) and `text` (its `venue` and `station`
columns). Imports and edits write both. A start links by the duty's own place
before the text (`OwnPlace`) and leaves the text as it is.

**ScheduleImport.** `Begin` resolves a file and an answer (`Want`: whom each
spelling means by the roster, this review's answers and saved answers; where
each activity is held) and selects the seats the file is about (`Existing`).
`Pair` is one match of the eight passes of `plan`: the first row of the first
pass that still matches anything takes the first seat that fits, in that pass's
order. `Fits` has a disjunct per pass. `Write` is the rest: `Reconciled` with
`Cancels` is `_reconcile`, `Removed` and `Added` the seats and rows left over,
`Touching` the requests that fall, and `alias` and `placed` are `save_answers`.
The steps are those of the loops; the plan and its writes run under one lock
(`Executor` has what happens between review and apply), so only `Restart` may
come between them. Around imports there are `Propose`, `Accept`, `Decline`,
`UpdateSlot`, `CreateSlot`, `DeleteSlot`, `CreateVenue`, `CreateStation` and days
passing. `imported` is history: the file that the seats have followed since it
was imported, if no ansvarig has edited anything meanwhile. The new seats'
ids are any numbering that respects their order of date and time.

**RosterImport.** `Import(t, file)` is one plan and its writes: `Guardians`,
`ChildrenOf`, `Leaders` are what `members_csv.interpret` makes of the rows,
`LinksAfter`, `RolesAfter`, `ExemptAfter` and `Renamed` what the import writes.
People are identified by their addresses, players by team and name, as in the
code. `last` is history.

**LoginLinks.** `Ask` or `AskTooSoon`, `Issue`, `Mail` or `MailFails` are
`POST /login`; `Click`, `Consume`, `SignIn` are `POST /login/verify`, with a step
boundary at every commit. Time is what is `left` of each link's life and `Pass`
takes one from all; an expired row no handler holds is forgotten, since every
later lookup answers the same without it, which keeps runs infinite over a
finite set of links. `mailed` says that the link is in an inbox. `Crash` loses the
requests under way and nothing else.

**AdminDoor.** A `call` is a request at a door: the API authenticates, counts
and then looks up rights (`Authenticate`, the limiter, `RightsByKey`, `Act`); the
pages look up rights first (`RightsOnPage`). `RateLimiter.allow` takes no lock
and is four kinds of step, between which other threads and time may come:
`ReadClock` reads `now`; `Prune` drops one hit from the front that was out of the
window at that reading; `Compare` compares what is left with the limit; and
`LetThrough` notes the *old* reading down, as `ratelimit.py:28` does. Looking at
the front hit and dropping it is one step, because CPython switches threads only
at calls of Python functions and backward jumps and there is none between the
two. `hits` holds ages instead of times, `stamp` the age of a request's reading,
so that `hits` need not be in order of age. `Delay` bounds how long a request may
be inside the limiter. `Restart` empties the limiter and seeds `club_admins` if
there are none. `let` and `had` are history: for each caller, how many requests
were let through in the last 1, 2, .. `Window` moments, split into those that
read the clock in them (`came`) and before (`late`); and what each request's
caller had at some moment of it.

**Mailer.** `Begin` is the cron's daily start or somebody's run by hand for any
date; `ReadSeats` and `ReadPeople` are the two halves of `api_schedule`, which
reads slots in one `SELECT` and their people lazily after it; `ReadPeople` then
groups (`WebAppApiSource.fetch`) and picks what is due. `Send` and `SendFails`
are the loop of `run`, `Exit` its end, `Abort` a `RosterError` or a job that dies.
`Change` moves a seat, reassigns it or flips a setting at any moment. `Send` is a
mail that the server takes: for the whole group, or for a part of it, since
`send_message` returns the recipients that were refused and `send` drops what it
returns (`email_sender.py:45`). `SendFails` is the exception, after which the mail
may have arrived all the same. `Tell` keeps what arrived. A shift has `start`,
`end` and `what` (its duty and venue, by their place in the sorted order) apart,
and `Behind` is how `previous_occurrence` chooses among the groups of a day: the
greatest *start*, and of equal ones the first that `max` meets. `Entries`
is any order the query may return the rows of a date in. What `fetch` gathers
row by row is stated of the rows as a whole: whoever is mailed, at the first row
they are named in; the station all rows agree on; the first row's note. `told`, `sent`, `ever`
and `always` are history.

## 3. Runs

Every run finishes in less than five minutes with two workers. The passing runs:

| Run | Instance | What it shows |
|---|---|---|
| `book` | 3 seats in two teams, 3 players, 2 parents, 2 requests, admin (deleting and creating seats too), time and the sweep | `PendingAsOffered`: every pending request still describes the trade offered; `SeatsStayInTeam`; `SettledIsFinal`; duties move only in agreed exchanges (`OnlyAgreedTrades`) |
| `one_handler` | 1 thread, 2 seats, 2 requests that compete, admin | the handlers, step by step, refine `SwapBook` (`ImplementsBook`); answers are mailed to the family that made the offer |
| `mixed_handlers` | 2 threads, 2 slot ids, 3 players in two teams, one evening, 1 request, admin | at every interleaving of `SELECT`s: foreign keys hold (`NoDanglingRequest`), and nobody gets another team's duty unless a handler held an id that came back (`TradesStayInTeam`) |
| `pair_of_handlers` | 2 threads, 3 seats, 1 request; one child has two parents, of whom one has another child in the team too | both answer one offer: the exchange happens once (`AcceptedMeansTraded`, of offers between players without a common parent) and no duty is lost or doubled (`DutiesConserved`, of all) |
| `executor` | 2 threads, 2 reviews, restarts; on one side a shift of 2 seats, one of them reassigned or both deleted, and a swap request; on the other 3 people, 2 of them ansvariga and one club admin, a shift to move and one to add | `KeepsPromise` (refinement of `ReviewedChanges`) and `AppliedAsReviewed` while parents trade the seats; the team keeps an ansvarig whatever they do to each other at once |
| `staffing` | 8 seats of three dates in two seasons and undated, two siblings, a single child and a leader's child, any picked seats, up to 2 locks, plans one after another | nobody gets a second shift on a day or twice an undated shift (`NoSecondShift`); loads stay exact (`LoadsAreCounts`); whoever could still take a drawn seat when the plan is complete had no fewer shifts (`FewestFirst`) |
| `schedule` | 2 players and a nickname, an activity with a profile and one without, 2 days in two seasons, 2 files of 2 rows, 3 answers, 2 databases to start from, 1 edit, 1 request | importing the followed file again does nothing (`SameFileAgain`); seats the file lists stay with the family that has them (`ListedSeatsStay`); no seat is emptied, history stays, requests stay true, seats are held where their rows say (`PlacedAsWritten`) |
| `roster` | 2 teams with a child of one name on each, 2 people, 4 exports, 3 databases to start from | leaders' children are exempt and nobody else's; whoever has a role has a child there; other teams' rows stay; nobody loses a child; a second import of a file changes no child, link or role (names are not compared) |
| `access` | 1 person, 2 threads, 3 links; 1 key, a limit of 1 in a window of 2, requests up to 2 in the limiter; any sequence of restarts, lost mails, revocations and role changes | a spent link stays spent; no action without key and right; a window lets no more through than the limit and two overlaps, `Limit` + 2 · threads − 1 (`WindowLimited`); the inbox gets few links a minute; who keeps trying gets in |
| `mailer` | 3 days, 4 seats of 3 shifts in 2 teams, siblings at two stations of one shift, lead times 1 and 2, one change at any moment, jobs by cron and by hand, mails refused for some or for all | who is mailed stood there and wanted it; nobody is left out of the mails or told twice, no mail names a wrong counter, and no group that came after the named one had left is passed over (`HandoverSkipsNobody`) |

The runs that find a violation, each of a sentence the repository says:

| Run | The sentence | What happens |
|---|---|---|
| `taken_silently` | `web/tests/test_swaps.py:229` | from one seat two offers are out; the second family accepts and gets the seat; the third family's accept, under way already, takes it from them, for a duty that family was never offered |
| `replay` | `executor.py:104` | a `slots.create` token applies again once a seat like its own exists |

**Bounds, and why they are enough.** `MaxId`, `MaxSlot`, `MaxSwap`, `MaxToken`,
`Link` and `Key` bound ids; an operation that would need one more is not enabled.
`MaxEdit` bounds the edits between imports and under a mailer's job, `LastDay`
the calendar, `MaxLocks` the locks of one plan, `Delay` the time a request is
inside the limiter.

- *Swaps.* One request shows a request against the admin; two show two requests
  that share a slot in each of the ways the code distinguishes (same offered
  seat, same wanted seat, one's offered the other's wanted); the proofs say the
  same of any number. In `book`, three seats in two teams give every kind of exchange
  and a seat that must not be offered, and ids that come back. `mixed_handlers` has two
  ids on one evening, which is what it takes for the one to be deleted and made anew for
  the other team while a handler holds both. A race needs two threads: every handler has one
  write, so what a third thread writes is like what one of two has written
  before.
- *Executor.* A shift with two seats is what a deletion needs to change more than
  one row, and a trade can then come between the rows it reads. The shift that is
  moved has one seat. Two reviews give a stale one
  and the one that made it stale. Its two sides share no rows, so `MCExecutor`
  explores them side by side (`side`) instead of multiplying their states; between
  them every action of `AdminPlans` is planned, refused, found stale and committed.
- *Staffing.* The rosters have two seats of one shift, two shifts of one day, days
  in neighbouring weeks and a day across the season's border, which are the cases
  `assign` tells apart; two locks can compete for a day or leave a draw between
  them.
- *Schedule import.* The files respell a name, date an undated seat, place and
  move seats, repeat a shift and leave seats out, so that between them, the answers
  and the edits each of the eight passes pairs some seat with some row (seen by
  asking TLC for a state in which it does). `MaxSlot = 5` leaves room for an import
  that adds two seats next to the two or three there are.
- *Roster import.* The exports together make somebody gain and lose leadership,
  leave out a child, name a guardian without an address and share a person
  between the teams, in every order; the state space is finite without a bound.
- *Access.* Nothing but ids and `Delay` is bounded: ages are relative to now, so time
  never ends. A delay of a whole window lets a hit be noted down when it is out of the
  window already. Two threads overlap in every way two handlers can; the limiter's
  excess over its limit grows with the threads, which `WindowLimited` says. Logging in
  and administering share only who has a session, and rights and the limiter only that
  a request passes both. `MCAccess` explores three parts side by side (`part`):
  "login"; "rights", in which one thread's requests are served while keys and roles
  change; and "limiter", in which both threads serve one caller whose rights stay. The
  last two start from a state that the first reaches.
- *Mailer.* Three days give the later shift a heads-up, a reminder and a day of its
  own, the earlier ones a reminder, a day of their own and a day after; one change can
  move a seat over a lead time, towards or away from the job, or between the halves of
  its reading, or bring two shifts of one team to one day, where the first is over when
  the second begins.

**Symmetry** of the threads is used in `mixed_handlers`, `executor` and `replay`, and
of the two shifts in `book`; nothing names one of them outside a quantifier there,
and no liveness is checked.

**Deadlock** is checked in `executor`, `replay`, `schedule`, `roster`, `access` and
`mailer`; in `schedule` a restart, in `roster` another import is always possible,
in `access` time goes on, and in `mailer` a job may be run by hand at any time.
The swap runs say `CHECK_DEADLOCK FALSE`: when every request id is used and
settled, nothing is left to do in the bounded instance, and the parents may also
just stop. `staffing` says it too: when every seat is filled there is nothing to
staff.

**Fairness.** The only liveness property is `KeepsTryingGetsIn`, and `LoginFair` is
what it assumes. Handlers go on unless the server stops (`WF`); time passes (`WF`
of `Pass`). Of the parent it assumes persistence: whenever again and again they
could ask, or click a link in the inbox, they sometime do; and of the world that
not every single mail fails or comes too late and not every request meets
a restart (`SF`). Without the last two nobody could promise anything; with them
the code still has to, for instance, not let asking too soon push the minute
ahead of the asker, which is the mutant. No fairness is assumed of anybody in
the other modules: parents and admins need never answer, and the cron may skip
days.

Each property of a passing run has a mutant: an operator beside the definition
it alters (`ProposeReadAnyTarget`, `PairRowByRow`, `RoomForOneMore`,
`SendFailsForAll`, ...), a plausible slip in that code, under which TLC finds the
property violated.

## 4. Proofs

`SwapBook_proofs`, for every set of players, parents, slots, shifts, teams and
any number of requests:

- `TypeCorrect`, `OffersStayTrue` (`PendingAsOffered`), `DutiesStayInTeam`
  (`SeatsStayInTeam`), `TradesAreAgreed`, `AnswersAreFinal`.
- The inductive invariant is types, plus *the players on both seats of every
  pending request belong to one team*, plus `PendingAsOffered`, plus
  `SeatsStayInTeam`. None is inductive alone. `Accept` gives each seat the
  player it reads on the other, which has a type only if neither row is
  gone, which is `PendingAsOffered`; it keeps teams only if both slots are of one
  team, which `Propose` checked and which must be carried along with the
  pending request (`PairsInTeam`). A slot's team is in its row, and an id that comes
  back for another team does no harm here: deleting the slot deleted its requests.
  The action properties follow from it.
- Assumed: `ConstantsOK` only. Slots may be infinitely many, `MaxId` any
  positive number.

`Executor_proofs`, for every set of threads, inputs and starting rows that
satisfy `PlansOK` and `ExecutorOK`:

- `PromiseKept`: `Spec => KeepsPromise`, the executor refines
  `ReviewedChanges`. `Commit` maps to `Apply` because of an invariant with
  three links: who is in *plan* or *write* has the lock, so nobody else can
  commit; what is in *write* is the plan of the rows *now* with the digest
  of the token presented; the token presented was reviewed by that person with
  that input. Every other step stutters or is a review. `Restart` keeps the
  invariant because no job survives it.
- `AnsvarigStays`: `Spec => TeamKeepsAnAnsvarig`. With the invariant, a
  commit that empties the set is the plan of a removal made for the rows it
  overwrites, so the removed one was the only one and the remover a club admin.
- `DoesWhatWasReviewed`: `Spec => AppliedAsReviewed`. The rows a review saw may
  never have been in the database at once, so the token cannot be tied to a
  moment. `ToldInv` ties it to rows of some sort instead: there are rows (`Data`)
  whose plan has the token's digest and whose effect is what the reviewer was told
  (`StandsForAPlan`; a mixture of rows is rows). `DigestDecides` then
  says that of any two sets of rows that give plans with one digest, the second
  plan does to its rows what the first does to its own: the basis holds
  every row the writes overwrite. Where the plan names requests by the seat they touch
  it needs the foreign keys of the rows committed to, which every action keeps.

`Staffing_proofs`, for every team, schedule, season and set of locks that
satisfies `StaffingOK` (finitely many slots, numbered days and times):

- `OneShiftADay` (`NoSecondShift`), `LoadsStayExact` (`LoadsAreCounts`),
  `FairFirst` (`FewestFirst`), `StaffedByPlayers` (types).
- The inductive invariant says that the books are exact: a day is *held* and a
  shift has a *mate* exactly when some seat, filled before or by this plan, says
  so (`HeldExact`, `MatesExact`). From that, `Free` means *apart from every seat
  the player has* (`FreeIffApart`), which keeps `AllApart`. Fairness needs two
  more facts: that seats are drawn in order and after all locks
  (`DrawnInOrder`), so that a seat given later does not change the load at an
  earlier draw; and that who is free when the plan is complete was free at the
  draw, since seats are never taken back. All giving, locked or drawn, goes
  through the lemmas about `Give`.
- `FairFirst` is about each draw, not about the spread at the end: the
  greedy order by date can leave loads two apart when the only player left free
  on the last day has the most shifts. The design asks for a spread of at most
  one only "when capacity allows"
  (`docs/superpowers/specs/2026-10-22-admin-interface-design.md:470-471`).

`ScheduleImport_proofs`, for every roster, calendar, files, answers, edits and
starting tables that satisfy `PlacesOK` and `ImportOK`:

- `RowsWellFormed` (`TypeOK`), `OffersSurviveImports` (`PendingAsOffered`),
  `HistoryIsLeftAlone` (`HistoryStays`), `HeldSeatsAreKept` (`NobodyUnseated`),
  `ListedStay` (`ListedSeatsStay`), `PlacesAreWritten` (`PlacedAsWritten`).
- What `Write` does to a seat depends only on the *name* of the pass that paired
  it, so the invariant has to remember what each pass found (`PairOK`): that a
  "same" or "moved" row is on the seat's own shift, that a "dated" or "held" one
  differs at most in a date the seat did not have, that a "moved" row of an
  unknown name only gets a free seat. The last is where the order of the passes is
  used: "held" has taken every seat such a row could otherwise empty, because
  "moved" is not tried while "held" still matches. From
  `PairOK`, a seat whose request stays keeps its player and its shift up to a
  first date or place (`SeatKeepsOffer`). `JobOK` also carries that the new
  ids fit (`NewIds`), and that rows and answers name stations that exist.
  `OffersOfPlayers` says that both seats of an offer had a player, without which
  filling a free seat would change an offer.
- `ListedStay` counts. The seats of one shift and schedule name are `Alike`,
  the rows for them a `Listing`. As long as some seat and row still match in the first
  pass, every pair that is made takes one from each of two such sets, so a
  listing with rows enough at the beginning keeps as many rows to do as there are
  seats to find (`ListInv`). A later pass is reached only when nothing matches in the
  first, and then no such seat is left without a row (`Drained`).

- `PlacesAreWritten` is about every write of a seat's station and of its text, which are
  made by different operations (`Write`, `UpdateSlot`, `CreateSlot`, `Linked`): a seat
  held elsewhere than its text says got its station at a start, when it had none, and
  that is its duty's own place. What the proof needs of an import is that it never
  writes one of the two alone.

`RosterImport_proofs`, for every club and exports that satisfy `RosterOK`:

- `TypeCorrect`, `ExemptFollowsLeaders` (`LeadersFamiliesExempt`),
  `RolesStayOnRoster` (`RolesAreOnRoster`), `NobodyIsLost` (`NobodyLosesAChild`),
  `OneTeamAtATime` (`OtherTeamsUntouched`), `SecondImportIsIdle`
  (`SameExportAgain`).
- The strengthening is `Settled`: the players and links the last export of a
  team named are there, and its leaders are exactly that export's. Another
  team's import keeps it because it only adds links. A second import is idle
  because its links are there, its leaders are the team's, and exemptions equal
  what they would be computed to, which is `LeadersFamiliesExempt`.

`Access_proofs`, for any people, links, lives of links, teams, keys, limits and
windows, and finitely many threads (the workers of the server):

- `LinksAreRows` (types; no row that a handler will write to is forgotten) and
  `SpentForGood` (`SpentStaysSpent`): a click goes on only if the link is good, no
  step makes a used or expired link good again, and a link's id is not used for
  another one before it is forgotten. The proof splits on the steps of a thread.
- `InboxIsSpared` (`FewLinksAMinute`). A request that is about to issue a link found
  no recent one, so those that issue have overlapped. `FewInv`: the recent links
  to an address and the requests about to issue one are together no more than
  the threads. Issuing moves one from the second to the first; a new request joins
  the second only when the first is empty.
- `RightsHeld` (`NoActWithoutRights`). The invariant (`Seen`) says how much of *key*
  and *right* a request must have been seen to have at each of its steps, which
  differs between the API (key first, right last) and the pages (the right at once).
  That the caller *is* the owner of the key when the rights are looked up holds
  because keys change neither owner nor team.
- `WindowHolds` (`WindowLimited`), for any `Delay`. A hit is noted down with the time
  its request read the clock, which may be long past, so a window counts two sorts of
  requests (`LimitInv`). Those that read the clock in it (`came`) are each noted down
  with an age in the window, or about to be (`Passing`), and stay so: a hit is dropped
  only when it was out of the window at somebody's reading, and so is out of it now,
  wherever it stands in the list. Whoever is let through found fewer hits than the limit, and
  at most the other threads were on their way, so `came` stays at `Limit` + threads − 1.
  Those let through in the window by an older reading (`late`) were inside the limiter
  when the window began, and so were at most as many as the threads (`Overdue`). The
  proof needs no order among the hits, and there is none.

`SwapHandlers_proofs`, for every roster, schedule and interleaving that
satisfies `ConstantsOK`:

- `RequestsKeepSlots` (`NoDanglingRequest`) and `RacesStayInTeam`
  (`TradesStayInTeam`), for any number of threads and requests, with admins writing
  between any two steps. `RaceInv` is the types with the foreign keys. As long as no
  held id has come back (`reused`), the copies a handler works on may be stale in every
  respect but one: the seat's team (`JobInTeam`), because no write changes the team of a
  slot that exists and a slot that was deleted stays away; and the two seats of every
  request are of one team (`TeamInv`). Once a held id has come back, nothing is promised:
  section 6 has the trade that crosses teams.
- `OneAtATime` (`ImplementsBook`) and `AnswersComeBack` (`AnswerReachesProposer`),
  for one thread (`OneThread`). `SoloInv` adds that the copies *are* the rows and
  what was judged of the request is still so (`Current`), which time, the one thing
  that goes on between two steps of the only handler, cannot change, since the age
  of a request is judged once. Each write is then the operation of
  `SwapBook` with the same guards, and each other step a stutter. With two threads
  both are false: `taken_silently` shows how.
- `AnswersConserve` (`DutiesConserved`) and `AcceptedTakesEffect`
  (`AcceptedMeansTraded`), for one request and any number of threads. All accepts are
  of one pair of seats, and exchange whoever is on them, so the pair of players
  stays the same (`PairInv`); that is why an exchange from two different stale copies
  cannot double anybody. `TradeInv` adds for each accept that its copies are of the
  schedule before the trade, or that the trade is made. Nothing is assumed of the families; the
  property itself is about offers between players without a parent in common, and of
  others it is false (section 6). It takes one schedule to start from, so
  that it can be named, and parents who use the page (`ParentSpec`). With two requests
  on one seat both properties fail, which `taken_silently` shows too.

`Mailer_proofs`, for any seats, families, calendar, lead days, edits and failures
that satisfy `MailerOK` (finitely many seats, numbered times, starts before ends):

- `ToldOnce` (`NobodyToldTwice`). Nothing is remembered
  between jobs, so the invariant speaks of dates: every entry of `told` was due on a
  day that a scheduled job has had (`DueBy`), while what the job of today will
  send is due today. A shift's key holds its date, so an entry for the same shift
  and role would be due on two days unless two lead times had one role; there are
  at most two, and then their roles differ (`RoleTellsLead`). That is where
  `Cardinality(Lead) <= 2`, which `config.py` enforces, is needed. Within a job,
  two pairs of one shift and role are the same pair, because a group is listed once
  per shift (`OccurrencePerShift`).
- `OnlyThoseAreMailed` (`OnlyThoseOnDuty`), `EverybodyIsReminded`
  (`NobodyForgotten`), `OneCounter` (`RightCounter`), `HandoverHolds`
  (`HandoverSkipsNobody`). They share `SentInv`: a job that sends has read some
  rows and some settings, each between what stood at *every* and at *some* moment
  of it (`Read`); and the pairs due by that reading are those to do
  and those sent or failed, none of them twice (`Progress`). What is left is about
  one reading: that everybody on a filled row is in one entry, with the others of
  the shift (`PeopleStand`); and that a group to hand over from exists whenever
  there is one within the handover, because among finitely many dates, starts, ends,
  duties and venues there is one that `max` stops at (`FiniteLeast`). The code compares
  starts, the property ends with starts: a group that came after the named one had left
  started later than it, because a shift starts before it ends.
- `EverybodyIsReminded` speaks of what the job hands to the mail server, or counts as
  failed. A recipient that the server refuses alone was handed over, and yet gets
  nothing (section 6): the theorem does not promise that everybody is reached.

**Only model-checked**: liveness (`KeepsTryingGetsIn`), which the prover does not
do; and `SameFileAgain`, which is *not* true for all files (section 6), so that the
run's files, whose dated rows carry no notes, are a real restriction. It is about
two plans one after the other, so a proof would have to match the second
plan's eight passes to what the first one wrote.

## 5. Not modelled

Field validation, form parsing, pages, mail texts, decoding of xlsx and csv cells
(`schedule_xlsx.py`, the reading half of `members_csv.py`), the spreadsheet
template, the order in which seats are listed. The mailer's tabular sources
(`rows.py`, `xlsx.py`, `google_csv.py`), its configuration file and `--dry-run`,
which sends nothing. Adding columns to an old database. Documents, settings other
than the mail setting, the operator scripts (`scripts/`): run by hand, or single-row
writes that no two steps could disturb. Linking a document to a station.
In `AdminPlans`, `slots.create` adds one seat per batch, and the overlap of shifts and
their dates are a constant relation. Team scope is one team in
`AdminPlans` and `ScheduleImport`; an action of another team never shares a seat
with it, and `SwapRows`, `RosterImport`, `AdminDoor` and `Mailer` have two teams
where it matters. Signatures of tokens, cookies and keys are abstracted to the
rows they name.

The cron is taken to start at most one scheduled job a day, as its schedule says;
a run somebody starts by hand, for any date, is a different matter and may repeat
what was sent. Its lead times are taken to be a set: `config.py` refuses more than
two but not the same one twice, which would remind everybody twice.

## 6. Where the code and its words part

With a run and a counterexample: `taken_silently` and `replay` (section 3). Met
while modelling or proving, without a run of its own:

- `expire_stale_swaps` is called by nothing, although the 2026-09-12 design
  (line 76) says that pending requests expire after seven days. A request nobody
  answers stays pending; it is refused, and then marked, only when it is answered.
- Accepting and declining one request at once: each passes `_pending_request`
  before the other commits, and the later commit replaces the status (`swaps.py:69`
  promises a settled request cannot be settled again). `SettledIsFinal` is true, and
  proved, of handlers run one at a time.
- The candidates of the swap page leave out whoever is on the shift already
  (`schedule_queries.py:114`), but nothing looks again when the offer is accepted, so
  a chain of trades can put a player twice on one shift.
- The group that has the keys is looked for among groups that have somebody to mail
  (`scheduling.py:81`): one whose parents have all turned mails off is skipped, and
  an earlier group, or none, is named. `HandoverSkipsNobody` is about groups with an
  open mailbox.
- "The latest one wins ... they are the ones who locked up" (`scheduling.py:74-76`):
  what is compared is the start (`scheduling.py:89-92`), and of equal starts `max` keeps
  the first, which is the one that ends first, or else the first duty and venue. Of a
  group on duty 10-18 and another 12-14 the second is named, which left four hours before
  the first; of 10-12 and 10-18, the one that left at noon. `HandoverSkipsNobody` says
  what is true of shifts that do not overlap.
- One mail per group is "a single SMTP transaction", as "a partial failure mid-loop
  would otherwise leave some people mailed and some not, permanently"
  (`docs/superpowers/specs/2026-09-01-duty-reminder-mailer-design.md:67-71`). The
  transaction has an answer for each recipient, though: when the server refuses some of them,
  `send_message` returns them and raises nothing, and `email_sender.py:45` drops what it
  returns. Who was refused is not mailed, not counted as failed, and the job exits
  with 0.
- `web_api.py:5-9` says that the mailer groups by "the same tuple the web app's own
  agenda groups on". The agenda's also has the station, and for undated seats the note
  (`agenda.py:14-27`). Two stations at one venue and time are two cards on the site and one
  mail, which then names no station unless they agree (`RightCounter`).
- "Teams never trade with each other ... each slot stays inside its own team"
  (`swaps.py:38-39`) has an exception. `create` (`swap_routes.py:86-108`) keeps the
  offered slot's row in its session from one ticked target to the next. If an ansvarig
  meanwhile deletes that slot, and the highest id is then given to a new slot of
  another team, the team is compared with the old row, the foreign key finds the new
  one, and the request joins slots of two teams, which a later accept exchanges.
  `SeatsStayInTeam` is true, and proved, of handlers run one at a time, and fails in the
  instance of `mixed_handlers`; `TradesStayInTeam` says how far it holds.
- A parent may have children with different second parents (`parent_players`,
  `models.py:15-18`, says nothing against it), and the other parent of one may offer
  that child's seat to the other. Accepted twice at once by the parent of both, the
  later accept finds their other child on the seat and exchanges the seats back, and
  the request says accepted while nobody has moved.
  `AcceptedMeansTraded` leaves such offers out; `DutiesConserved` does not.
- The limiter lets more through than its limit: threads compare before any of them
  has noted its hit down, and what is noted is the time from before the comparison
  (`ratelimit.py:22-28`), so a hit may be out of the window as soon as it is in the list.
  `WindowLimited` has the bound that holds, `Limit` + 2 · threads − 1.
- `create` proposes to one ticked target after the other, each with a commit of its
  own. When a slot is deleted between two of them, the foreign key fails the insert
  with an error nobody catches: the page is a 500, and the offers made before stay
  and have been mailed. To `SwapBook` that is a shorter list of proposals, and no
  property here speaks of it.
- "The same file imported again finds the seat unchanged"
  (`docs/superpowers/specs/2026-10-22-admin-interface-design.md:262-264`) is not so
  of every file. If a shift's dated rows have different notes, one of them for a
  name nobody has answered for, and a known name also has an undated seat, the first
  import lets the unknown name's row take that seat and its note; the next pairs the known
  name with the same seat, and at every further import the two seats exchange
  their notes. No family moves.

## 7. What is left

1. `SameFileAgain` for files whose dated rows have no notes.
2. The tabular sources of the mailer as a second refinement of what `fetch` promises;
   `Staffing` as a refinement of `AssignSlot`.
