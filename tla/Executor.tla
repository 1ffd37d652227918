------------------------------ MODULE Executor ------------------------------
(***************************************************************************)
(* The admin executor: dry_run shows a plan and signs a token for it,      *)
(* apply_plan re-plans from the token under SQLite's write lock and writes *)
(* only if the digest is still the same.  Requests run in threads; the     *)
(* reads of a dry run are not one transaction, the preview holds the write *)
(* lock until it is rolled back, and the server may be restarted at any    *)
(* moment.  Tokens are not stored: they live in the reviewer's browser.    *)
(***************************************************************************)
EXTENDS AdminPlans

CONSTANTS
  Thread,     \* request threads
  MaxToken,   \* bound on the number of reviews
  None        \* no value

VARIABLES
  data,     \* the committed rows
  token,    \* the tokens in people's hands
  applied,  \* history: the tokens that were applied
  job,      \* what each thread is doing
  lock      \* the thread that has SQLite's write lock, or None

vars == <<data, token, applied, job, lock>>

TokenId == 1 .. MaxToken

ASSUME ExecutorOK == MaxToken \in Nat /\ None \notin Thread

\* A job is a review or an apply.  seen: the rows as the review reads them;
\* tok, digest: the token presented and the digest in it; plan: the re-plan.
Idle == [pc |-> "idle", who |-> None, act |-> None, seen |-> None,
         tok |-> None, digest |-> None, plan |-> None]

Init ==
  /\ data \in Start
  /\ token = [k \in TokenId |-> None]
  /\ applied = {}
  /\ job = [t \in Thread |-> Idle]
  /\ lock = None

At(t, pc) == job[t].pc = pc

Goto(t, pc) == job' = [job EXCEPT ![t].pc = pc]

\* The response is sent, with or without an error.
Return(t) == job' = [job EXCEPT ![t] = Idle]

Release(t) == lock' = None /\ Return(t)

-----------------------------------------------------------------------------
(* dry_run and preview.                                                    *)

\* admin_context, and the first reads of action.plan.
ReviewBegin(t, who, act) ==
  /\ At(t, "idle")
  /\ MayAdmin(who, data)
  /\ job' = [job EXCEPT ![t] = [pc |-> "review", who |-> who, act |-> act, seen |-> data,
                                tok |-> None, digest |-> None, plan |-> None]]
  /\ UNCHANGED <<data, token, applied, lock>>

\* Some rows of d, the others of e.
Mixes(d, e) ==
  {[seat |-> [s \in Slot |-> IF s \in S THEN e.seat[s] ELSE d.seat[s]],
    swap |-> [i \in SwapId |-> IF i \in I THEN e.swap[i] ELSE d.swap[i]],
    role |-> (d.role \ P) \union (e.role \intersect P)] :
     S \in SUBSET {s \in Slot : d.seat[s] # e.seat[s]},
     I \in SUBSET {i \in SwapId : d.swap[i] # e.swap[i]},
     P \in SUBSET ((d.role \ e.role) \union (e.role \ d.role))}

\* Rows that were not read yet change under the review's SELECTs.
ReviewReadsOn(t) ==
  /\ At(t, "review")
  /\ \E seen \in Mixes(job[t].seen, data) :
       /\ seen # job[t].seen
       /\ job' = [job EXCEPT ![t].seen = seen]
  /\ UNCHANGED <<data, token, applied, lock>>

\* The token carries who, act and digest; effect, what the reviewer was told
\* would happen, is for the properties.
NewToken(j, plan) ==
  [who |-> j.who, act |-> j.act, digest |-> plan.digest,
   effect |-> Effect(j.seen, plan.data)]

\* A plan is signed; the HTML door goes on to the preview.
ReviewEnd(t) ==
  /\ At(t, "review")
  /\ LET plan == PlanOf(job[t].who, job[t].act, job[t].seen) IN
       /\ plan # Refused
       /\ \E k \in TokenId :
            /\ token[k] = None /\ \A i \in TokenId : i < k => token[i] # None
            /\ token' = [token EXCEPT ![k] = NewToken(job[t], plan)]
       /\ job' = [job EXCEPT ![t] = [Idle EXCEPT !.pc = "preview"]]
  /\ UNCHANGED <<data, applied, lock>>

\* The form is shown again with the errors.
ReviewRefused(t) ==
  /\ At(t, "review")
  /\ PlanOf(job[t].who, job[t].act, job[t].seen) = Refused
  /\ Return(t)
  /\ UNCHANGED <<data, token, applied, lock>>

\* preview: the plan's writes take the write lock, nobody else sees them.
PreviewBegin(t) ==
  /\ At(t, "preview")
  /\ lock = None
  /\ lock' = t
  /\ Goto(t, "rendering")
  /\ UNCHANGED <<data, token, applied>>

\* The page is rendered and everything is rolled back.
PreviewEnd(t) ==
  /\ At(t, "rendering")
  /\ Release(t)
  /\ UNCHANGED <<data, token, applied>>

\* No preview: the API door, a plan without days, or a failing preview.
PreviewSkipped(t) ==
  /\ At(t, "preview")
  /\ Return(t)
  /\ UNCHANGED <<data, token, applied, lock>>

-----------------------------------------------------------------------------
(* apply_plan.                                                             *)

\* The token is the caller's own, and the caller may administer the team.
ApplyBegin(t, k) ==
  /\ At(t, "idle")
  /\ token[k] # None
  /\ MayAdmin(token[k].who, data)
  /\ job' = [job EXCEPT ![t] = [pc |-> "lock", who |-> token[k].who, act |-> token[k].act,
                                seen |-> None, tok |-> k, digest |-> token[k].digest,
                                plan |-> None]]
  /\ UNCHANGED <<data, token, applied, lock>>

\* Mutant of TakeLock: the re-plan's reads run outside a transaction.
TakeNoLock(t) ==
  /\ At(t, "lock")
  /\ Goto(t, "plan")
  /\ UNCHANGED <<data, token, applied, lock>>

\* _write_lock: BEGIN IMMEDIATE.
TakeLock(t) ==
  /\ At(t, "lock")
  /\ lock = None
  /\ lock' = t
  /\ Goto(t, "plan")
  /\ UNCHANGED <<data, token, applied>>

\* 409 busy: the lock is not free within the busy timeout.
Busy(t) ==
  /\ At(t, "lock")
  /\ lock # None
  /\ Return(t)
  /\ UNCHANGED <<data, token, applied, lock>>

\* Mutant of SamePlan: any plan that is still valid will do.
AnyPlan(j, plan) == plan # Refused

\* The digest check.
SamePlan(j, plan) == plan # Refused /\ plan.digest = j.digest

Replan(t) ==
  /\ At(t, "plan")
  /\ LET plan == PlanOf(job[t].who, job[t].act, data) IN
       /\ SamePlan(job[t], plan)
       /\ job' = [job EXCEPT ![t].pc = "write", ![t].plan = plan]
  /\ UNCHANGED <<data, token, applied, lock>>

\* 409 stale_plan.
StalePlan(t) ==
  /\ At(t, "plan")
  /\ ~SamePlan(job[t], PlanOf(job[t].who, job[t].act, data))
  /\ Release(t)
  /\ UNCHANGED <<data, token, applied>>

\* The writes and the commit.  The mails go out after it.
Commit(t) ==
  /\ At(t, "write")
  /\ data' = job[t].plan.data
  /\ applied' = applied \union {job[t].tok}
  /\ Goto(t, "mail")
  /\ lock' = None
  /\ UNCHANGED token

\* 409 conflict, 409 busy at the commit, or an exception: rolled back.
WriteFails(t) ==
  /\ At(t, "write")
  /\ Release(t)
  /\ UNCHANGED <<data, token, applied>>

\* The after_commit callbacks, failures only logged.
AfterCommit(t) ==
  /\ At(t, "mail")
  /\ Return(t)
  /\ UNCHANGED <<data, token, applied, lock>>

-----------------------------------------------------------------------------
\* A parent's handler commits.
ParentWrite ==
  /\ lock = None
  /\ data' \in ParentWrites(data)
  /\ UNCHANGED <<token, applied, job, lock>>

\* The server stops and starts: SQLite rolls back, the tokens stay valid.
Restart ==
  /\ job' = [t \in Thread |-> Idle]
  /\ lock' = None
  /\ UNCHANGED <<data, token, applied>>

Request(t) ==
  \/ \E who \in Person, act \in Act : ReviewBegin(t, who, act)
  \/ ReviewReadsOn(t) \/ ReviewEnd(t) \/ ReviewRefused(t)
  \/ PreviewBegin(t) \/ PreviewEnd(t) \/ PreviewSkipped(t)
  \/ \E k \in TokenId : ApplyBegin(t, k)
  \/ TakeLock(t) \/ Busy(t) \/ Replan(t) \/ StalePlan(t)
  \/ Commit(t) \/ WriteFails(t) \/ AfterCommit(t)

Next ==
  \/ \E t \in Thread : Request(t)
  \/ ParentWrite
  \/ Restart

Spec == Init /\ [][Next]_vars

-----------------------------------------------------------------------------
(* Properties.                                                             *)

Reviewed ==
  {<<token[k].who, token[k].act, token[k].digest>> : k \in {i \in TokenId : token[i] # None}}

Promise == INSTANCE ReviewedChanges WITH reviewed <- Reviewed

\* The executor keeps the interface's promise: every change it commits is a
\* plan somebody reviewed and that the rows it overwrites still give.
KeepsPromise == Promise!Spec

\* A commit does to the rows exactly what its reviewer was told: the same
\* seats from the same old values to the same new ones, the same requests
\* cancelled or deleted.  An edit made in between, of anything the writes
\* depend on, is never overwritten (slot_ops.py:65), although the review may
\* have read its rows at different moments.
AppliedAsReviewed ==
  [][\A t \in Thread : Commit(t) => Effect(data, data') = token[job[t].tok].effect]_vars

\* Of two ansvariga removing each other, only one succeeds: without a club
\* admin the team always keeps one (team_admins.py:5).
TeamKeepsAnAnsvarig ==
  [][(data.role # {} /\ data'.role = {}) =>
       \E t \in Thread : Commit(t) /\ job[t].who \in ClubAdmin]_vars

\* A token that was used gets 409: applying again what was reviewed once is
\* refused, because the first apply changed the rows.
AppliedOnce ==
  [][\A t \in Thread : Commit(t) => job[t].tok \notin applied]_vars

=============================================================================
