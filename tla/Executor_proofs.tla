--------------------------- MODULE Executor_proofs ---------------------------
(***************************************************************************)
(* Proofs about the admin executor, for any number of threads, reviews,    *)
(* people and seats: it keeps the promise of ReviewedChanges, a team loses *)
(* its last ansvarig only by a club admin, and a commit does to the rows   *)
(* exactly what the reviewer of its token was told.                        *)
(*                                                                         *)
(* The invariant behind them says what a thread may rely on at each point  *)
(* of apply_plan: from the re-plan on it has the write lock, its token is  *)
(* one that was issued, and what it is about to write is still the plan of *)
(* the rows as they are.  The third also needs that every token stands for *)
(* a plan made from some rows, and that the digest of such a plan decides  *)
(* its effect, even if those rows were never there all at once.            *)
(***************************************************************************)
EXTENDS Executor, FiniteSetTheorems, TLAPS

\* The fields of a job.
JobShape(j) ==
  j = [pc |-> j.pc, who |-> j.who, act |-> j.act, seen |-> j.seen,
       tok |-> j.tok, digest |-> j.digest, plan |-> j.plan]

\* The job carries the token it was started with.
BoundToToken(j) ==
  /\ j.tok \in TokenId /\ token[j.tok] # None
  /\ j.who = token[j.tok].who
  /\ j.act = token[j.tok].act
  /\ j.digest = token[j.tok].digest

\* What a thread may rely on.
JobOK(t) ==
  /\ JobShape(job[t])
  /\ At(t, "review") => job[t].who \in Person /\ job[t].act \in Act
  /\ job[t].pc \in {"plan", "write", "rendering"} => lock = t
  /\ job[t].pc \in {"lock", "plan", "write"} => BoundToToken(job[t])
  /\ At(t, "write") => /\ job[t].plan = PlanOf(job[t].who, job[t].act, data)
                       /\ job[t].plan # Refused
                       /\ job[t].plan.digest = job[t].digest

TokensOK ==
  /\ token = [k \in TokenId |-> token[k]]
  /\ \A k \in TokenId : token[k] # None => token[k].who \in Person /\ token[k].act \in Act

\* The fields of the rows.
DataShape(d) == d = [seat |-> d.seat, swap |-> d.swap, role |-> d.role]

IInv ==
  /\ job = [t \in Thread |-> job[t]]
  /\ \A t \in Thread : JobOK(t)
  /\ TokensOK
  /\ DataShape(data)

-----------------------------------------------------------------------------
\* The threads that a step of t does not concern can still rely on what they
\* relied on, if no token is lost, nobody else's lock is taken, and the rows
\* change only while nobody else has the lock.
LEMMA OthersUndisturbed ==
  ASSUME IInv, NEW t \in Thread, NEW j, job' = [job EXCEPT ![t] = j],
         \A k \in TokenId : token[k] # None => token'[k] = token[k],
         \A u \in Thread \ {t} : lock = u => lock' = u,
         data' = data \/ \A u \in Thread \ {t} : lock # u
  PROVE  /\ job' = [u \in Thread |-> job'[u]]
         /\ job'[t] = j
         /\ \A u \in Thread \ {t} : JobOK(u)'
<1>1. job' = [u \in Thread |-> IF u = t THEN j ELSE job[u]]
  BY DEF IInv
<1>2. job'[t] = j
  BY <1>1
<1>3. ASSUME NEW u \in Thread, u # t
      PROVE  JobOK(u)'
  <2>1. job'[u] = job[u] /\ JobOK(u)
    BY <1>1, <1>3 DEF IInv
  <2>2. CASE job[u].pc \notin {"lock", "plan", "write", "rendering"}
    BY <2>1, <2>2 DEF JobOK, At
  <2>3. CASE job[u].pc \in {"lock", "plan", "write"}
    <3>1. BoundToToken(job[u])' /\ BoundToToken(job[u])
      BY <2>1, <2>3 DEF JobOK, BoundToToken
    <3>2. job[u].pc # "lock" => lock = u /\ lock' = u /\ data' = data
      BY <1>3, <2>1, <2>3 DEF JobOK
    <3>3. QED
      BY <2>1, <2>3, <3>1, <3>2 DEF JobOK, At
  <2>4. CASE job[u].pc = "rendering"
    BY <1>3, <2>1, <2>4 DEF JobOK, At
  <2>5. QED
    BY <2>2, <2>3, <2>4
<1>4. QED
  BY <1>1, <1>2, <1>3

\* A thread that has just returned relies on nothing.
LEMMA IdleOK ==
  ASSUME NEW t \in Thread, job'[t].pc \in {"idle", "preview", "mail"}, JobShape(job'[t])
  PROVE  JobOK(t)'
BY DEF JobOK, At

LEMMA IdleShape == JobShape(Idle) /\ Idle.pc = "idle"
BY DEF JobShape, Idle

-----------------------------------------------------------------------------
(* One lemma for each kind of step that needs more than that frame.        *)

\* t is done, or goes on to something that relies on nothing; the lock is
\* kept, or given back by the thread that had it.
LEMMA StepToRest ==
  ASSUME IInv, NEW t \in Thread, NEW j, JobShape(j), j.pc \in {"idle", "preview", "mail"},
         job' = [job EXCEPT ![t] = j],
         UNCHANGED <<data, token>>,
         lock' = lock \/ lock = t
  PROVE  IInv'
<1>1. /\ job' = [u \in Thread |-> job'[u]]
      /\ job'[t] = j
      /\ \A u \in Thread \ {t} : JobOK(u)'
  <2>1. \A u \in Thread \ {t} : lock = u => lock' = u
    OBVIOUS
  <2>2. QED
    BY <2>1, OthersUndisturbed
<1>2. JobOK(t)'
  BY <1>1, IdleOK
<1>3. TokensOK' /\ DataShape(data)'
  BY DEF IInv, TokensOK
<1>4. QED
  BY <1>1, <1>2, <1>3 DEF IInv

\* A review reads its first rows.
LEMMA ReviewBeginInv ==
  ASSUME IInv, NEW t \in Thread, NEW who \in Person, NEW act \in Act, ReviewBegin(t, who, act)
  PROVE  IInv'
<1> DEFINE j == [pc |-> "review", who |-> who, act |-> act, seen |-> data,
                 tok |-> None, digest |-> None, plan |-> None]
<1>1. job' = [job EXCEPT ![t] = j] /\ UNCHANGED <<data, token, lock>>
  BY DEF ReviewBegin
<1>2. /\ JobShape(j) /\ j.pc = "review" /\ j.who = who /\ j.act = act
  BY DEF JobShape
<1> HIDE DEF j
<1>3. /\ job' = [u \in Thread |-> job'[u]]
      /\ job'[t] = j
      /\ \A u \in Thread \ {t} : JobOK(u)'
  BY <1>1, OthersUndisturbed
<1>4. JobOK(t)'
  BY <1>2, <1>3 DEF JobOK, At
<1>5. TokensOK' /\ DataShape(data)'
  BY <1>1 DEF IInv, TokensOK
<1>6. QED
  BY <1>3, <1>4, <1>5 DEF IInv

\* It reads on.
LEMMA ReviewReadsOnInv ==
  ASSUME IInv, NEW t \in Thread, ReviewReadsOn(t)
  PROVE  IInv'
<1>1. PICK seen \in Mixes(job[t].seen, data) : job' = [job EXCEPT ![t].seen = seen]
  BY DEF ReviewReadsOn
<1> DEFINE j == [job[t] EXCEPT !.seen = seen]
<1>2. job' = [job EXCEPT ![t] = j] /\ UNCHANGED <<data, token, lock>>
  BY <1>1 DEF ReviewReadsOn, IInv
<1>3. /\ JobShape(j) /\ j.pc = "review" /\ j.who = job[t].who /\ j.act = job[t].act
      /\ job[t].who \in Person /\ job[t].act \in Act
  BY DEF ReviewReadsOn, IInv, JobOK, JobShape, At
<1> HIDE DEF j
<1>4. /\ job' = [u \in Thread |-> job'[u]]
      /\ job'[t] = j
      /\ \A u \in Thread \ {t} : JobOK(u)'
  BY <1>2, OthersUndisturbed
<1>5. JobOK(t)'
  BY <1>3, <1>4 DEF JobOK, At
<1>6. TokensOK' /\ DataShape(data)'
  BY <1>2 DEF IInv, TokensOK
<1>7. QED
  BY <1>4, <1>5, <1>6 DEF IInv

\* A token is issued to the reviewer, in a place no token had.
LEMMA ReviewEndInv ==
  ASSUME IInv, NEW t \in Thread, ReviewEnd(t)
  PROVE  IInv'
<1> DEFINE j == [Idle EXCEPT !.pc = "preview"]
           new == NewToken(job[t], PlanOf(job[t].who, job[t].act, job[t].seen))
<1>1. PICK k \in TokenId : token[k] = None /\ token' = [token EXCEPT ![k] = new]
  BY DEF ReviewEnd
<1>2. job' = [job EXCEPT ![t] = j] /\ UNCHANGED <<data, lock>>
  BY DEF ReviewEnd
<1>3. JobShape(j) /\ j.pc = "preview"
  BY DEF JobShape, Idle
<1>4. new.who \in Person /\ new.act \in Act
  BY DEF ReviewEnd, IInv, JobOK, NewToken
<1> HIDE DEF j, new
<1>5. \A i \in TokenId : token[i] # None => token'[i] = token[i]
  BY <1>1 DEF IInv, TokensOK
<1>6. /\ job' = [u \in Thread |-> job'[u]]
      /\ job'[t] = j
      /\ \A u \in Thread \ {t} : JobOK(u)'
  BY <1>2, <1>5, OthersUndisturbed
<1>7. JobOK(t)'
  BY <1>3, <1>6, IdleOK
<1>8. TokensOK'
  BY <1>1, <1>4 DEF IInv, TokensOK
<1>9. DataShape(data)'
  BY <1>2 DEF IInv
<1>10. QED
  BY <1>6, <1>7, <1>8, <1>9 DEF IInv

\* The token that is presented was issued.
LEMMA ApplyBeginInv ==
  ASSUME IInv, NEW t \in Thread, NEW k \in TokenId, ApplyBegin(t, k)
  PROVE  IInv'
<1> DEFINE j == [pc |-> "lock", who |-> token[k].who, act |-> token[k].act, seen |-> None,
                 tok |-> k, digest |-> token[k].digest, plan |-> None]
<1>1. job' = [job EXCEPT ![t] = j] /\ UNCHANGED <<data, token, lock>> /\ token[k] # None
  BY DEF ApplyBegin
<1>2. /\ JobShape(j) /\ j.pc = "lock"
      /\ j.who = token[k].who /\ j.act = token[k].act /\ j.tok = k /\ j.digest = token[k].digest
  BY DEF JobShape
<1> HIDE DEF j
<1>3. /\ job' = [u \in Thread |-> job'[u]]
      /\ job'[t] = j
      /\ \A u \in Thread \ {t} : JobOK(u)'
  BY <1>1, OthersUndisturbed
<1>4. JobOK(t)'
  BY <1>1, <1>2, <1>3 DEF JobOK, BoundToToken, At
<1>5. TokensOK' /\ DataShape(data)'
  BY <1>1 DEF IInv, TokensOK
<1>6. QED
  BY <1>3, <1>4, <1>5 DEF IInv

\* t gets the write lock, for a preview or for the re-plan.
LEMMA TakeLockInv ==
  ASSUME IInv, NEW t \in Thread, PreviewBegin(t) \/ TakeLock(t)
  PROVE  IInv'
<1> DEFINE pc == IF At(t, "preview") THEN "rendering" ELSE "plan"
           j == [job[t] EXCEPT !.pc = pc]
<1>1. /\ job' = [job EXCEPT ![t] = j]
      /\ lock = None /\ lock' = t /\ UNCHANGED <<data, token>>
  BY DEF PreviewBegin, TakeLock, Goto, IInv, At
<1>2. JobOK(t)
  BY DEF IInv
<1>3. /\ JobShape(j) /\ j.pc = pc /\ j.who = job[t].who /\ j.act = job[t].act
      /\ j.tok = job[t].tok /\ j.digest = job[t].digest
  BY <1>2 DEF JobOK, JobShape
<1>4. pc = "rendering" \/ (pc = "plan" /\ BoundToToken(job[t]))
  BY <1>2 DEF PreviewBegin, TakeLock, JobOK, At
<1> HIDE DEF j, pc
<1>5. /\ job' = [u \in Thread |-> job'[u]]
      /\ job'[t] = j
      /\ \A u \in Thread \ {t} : JobOK(u)'
  <2>1. \A u \in Thread \ {t} : lock # u
    BY <1>1, ExecutorOK
  <2>2. QED
    BY <1>1, <2>1, OthersUndisturbed
<1>6. JobOK(t)'
  BY <1>1, <1>3, <1>4, <1>5 DEF JobOK, BoundToToken, At
<1>7. TokensOK' /\ DataShape(data)'
  BY <1>1 DEF IInv, TokensOK
<1>8. QED
  BY <1>5, <1>6, <1>7 DEF IInv

\* The re-plan is the plan of the rows, and the digest is the token's.
LEMMA ReplanInv ==
  ASSUME IInv, NEW t \in Thread, Replan(t)
  PROVE  IInv'
<1>1. PICK plan : /\ plan = PlanOf(job[t].who, job[t].act, data)
                  /\ plan # Refused /\ plan.digest = job[t].digest
                  /\ job' = [job EXCEPT ![t].pc = "write", ![t].plan = plan]
                  /\ UNCHANGED <<data, token, lock>>
  BY DEF Replan, SamePlan
<1> DEFINE j == [pc |-> "write", who |-> job[t].who, act |-> job[t].act, seen |-> job[t].seen,
                 tok |-> job[t].tok, digest |-> job[t].digest, plan |-> plan]
<1>2. JobOK(t) /\ job[t].pc = "plan"
  BY DEF IInv, Replan, At
<1>3. job' = [job EXCEPT ![t] = j]
  <2>1. j = [job[t] EXCEPT !.pc = "write", !.plan = plan]
    <3>1. PICK i : i = [job[t] EXCEPT !.pc = "write"]
      OBVIOUS
    <3>2. i = [pc |-> "write", who |-> job[t].who, act |-> job[t].act, seen |-> job[t].seen,
               tok |-> job[t].tok, digest |-> job[t].digest, plan |-> job[t].plan]
      BY <1>2, <3>1 DEF JobOK, JobShape
    <3>3. PICK k : k = [i EXCEPT !.plan = plan]
      OBVIOUS
    <3>4. k = j
      BY <3>2, <3>3
    <3>5. QED
      BY <3>1, <3>3, <3>4
  <2>2. QED
    BY <1>1, <2>1 DEF IInv
<1>4. BoundToToken(job[t]) /\ lock = t
  BY <1>2 DEF JobOK
<1>5. /\ job' = [u \in Thread |-> job'[u]]
      /\ job'[t] = j
      /\ \A u \in Thread \ {t} : JobOK(u)'
  BY <1>1, <1>3, OthersUndisturbed
<1>6. JobOK(t)'
  <2>1. /\ JobShape(j) /\ j.pc = "write" /\ j.who = job[t].who /\ j.act = job[t].act
        /\ j.tok = job[t].tok /\ j.digest = job[t].digest /\ j.plan = plan
    BY DEF JobShape
  <2> HIDE DEF j
  <2>2. BoundToToken(job[t])'
    BY <1>1, <1>4, <1>5, <2>1 DEF BoundToToken
  <2>3. JobShape(job[t])' /\ job'[t].pc = "write" /\ lock' = t
    BY <1>1, <1>4, <1>5, <2>1 DEF JobShape
  <2>4. job'[t].plan = PlanOf(job'[t].who, job'[t].act, data')
    BY <1>1, <1>5, <2>1
  <2>5. job'[t].plan # Refused /\ job'[t].plan.digest = job'[t].digest
    BY <1>1, <1>5, <2>1
  <2>6. QED
    BY <2>2, <2>3, <2>4, <2>5 DEF JobOK, At
<1>7. TokensOK' /\ DataShape(data)'
  BY <1>1 DEF IInv, TokensOK
<1>8. QED
  BY <1>5, <1>6, <1>7 DEF IInv

-----------------------------------------------------------------------------
(* What the plans leave alone.                                             *)

\* The slot actions plan no change of the ansvariga.
LEMMA SlotPlanRoles ==
  ASSUME NEW d, DataShape(d), NEW act,
         NEW plan \in {UpdateSlots(d, act), DeleteSlots(d, act), CreateSlots(d, act)},
         plan # Refused
  PROVE  DataShape(plan.data) /\ plan.data.role = d.role
<1>1. CASE plan = UpdateSlots(d, act)
  <2>1. PICK seat, swap : plan.data = [d EXCEPT !.seat = seat, !.swap = swap]
    <3>1. plan.data = [d EXCEPT !.seat = EditedSeats(d, act),
                                !.swap = CancelSwaps(d, Edits(d, act), {})]
      BY <1>1 DEF UpdateSlots
    <3>2. QED
      BY <3>1, Zenon
  <2>2. PICK f : f = [d EXCEPT !.seat = seat]
    OBVIOUS
  <2>3. DataShape(f) /\ f.role = d.role
    BY <2>2 DEF DataShape
  <2>4. plan.data = [f EXCEPT !.swap = swap]
    BY <2>1, <2>2, Zenon
  <2>5. QED
    BY <2>3, <2>4 DEF DataShape
<1>2. CASE plan = DeleteSlots(d, act)
  <2>1. PICK seat, swap : plan.data = [d EXCEPT !.seat = seat, !.swap = swap]
    <3>1. plan.data = [d EXCEPT !.seat = RemainingSeats(d, act.slots),
                                !.swap = CancelSwaps(d, {}, act.slots)]
      BY <1>2 DEF DeleteSlots
    <3>2. QED
      BY <3>1, Zenon
  <2>2. PICK f : f = [d EXCEPT !.seat = seat]
    OBVIOUS
  <2>3. DataShape(f) /\ f.role = d.role
    BY <2>2 DEF DataShape
  <2>4. plan.data = [f EXCEPT !.swap = swap]
    BY <2>1, <2>2, Zenon
  <2>5. QED
    BY <2>3, <2>4 DEF DataShape
<1>3. CASE plan = CreateSlots(d, act)
  <2>1. PICK seat : plan.data = [d EXCEPT !.seat = seat]
    BY <1>3 DEF CreateSlots
  <2>2. QED
    BY <2>1 DEF DataShape
<1>4. QED
  BY <1>1, <1>2, <1>3

\* Only team_admins.remove can take the last ansvarig away, and only for a
\* club admin.
LEMMA PlanRoles ==
  ASSUME NEW d, DataShape(d), NEW who, NEW act \in Act, NEW plan,
         plan = PlanOf(who, act, d), plan # Refused
  PROVE  /\ DataShape(plan.data)
         /\ d.role # {} /\ plan.data.role = {} => who \in ClubAdmin
<1>1. CASE act.do = "team_admins.add"
  <2>1. plan.data = [d EXCEPT !.role = d.role \union {act.person}]
    BY <1>1 DEF PlanOf, AddTeamAdmin
  <2>2. DataShape(plan.data) /\ plan.data.role = d.role \union {act.person}
    BY <2>1 DEF DataShape
  <2>3. QED
    BY <2>2
<1>2. CASE act.do = "team_admins.remove"
  <2>1. /\ plan.data = [d EXCEPT !.role = d.role \ {act.person}]
        /\ act.person \in d.role
        /\ Cardinality(d.role) # 1 \/ who \in ClubAdmin
    BY <1>2 DEF PlanOf, RemoveTeamAdmin
  <2>2. DataShape(plan.data) /\ plan.data.role = d.role \ {act.person}
    BY <2>1 DEF DataShape
  <2>3. plan.data.role = {} => d.role = {act.person}
    BY <2>1, <2>2
  <2>4. plan.data.role = {} => Cardinality(d.role) = 1
    BY <2>3, FS_Singleton
  <2>5. QED
    BY <2>1, <2>2, <2>4
<1>3. CASE act.do \in {"slot.update", "slot.delete", "slots.create"}
  <2>1. plan \in {UpdateSlots(d, act), DeleteSlots(d, act), CreateSlots(d, act)}
    BY <1>3 DEF PlanOf
  <2>2. QED
    BY <2>1, SlotPlanRoles
<1>4. QED
  BY <1>1, <1>2, <1>3, PlansOK DEF Input

\* The parents' writes leave the ansvariga alone.
LEMMA ParentRoles ==
  ASSUME NEW d, DataShape(d), NEW e \in ParentWrites(d)
  PROVE  DataShape(e) /\ e.role = d.role
<1>1. CASE e \in Proposed(d)
  <2>1. PICK swap : e = [d EXCEPT !.swap = swap]
    BY <1>1 DEF Proposed
  <2>2. QED
    BY <2>1 DEF DataShape
<1>2. CASE e \in Accepted(d)
  <2>1. PICK seat, swap : e = [d EXCEPT !.seat = seat, !.swap = swap]
    BY <1>2 DEF Accepted
  <2>2. PICK f : f = [d EXCEPT !.seat = seat]
    OBVIOUS
  <2>3. DataShape(f) /\ f.role = d.role
    BY <2>2 DEF DataShape
  <2>4. e = [f EXCEPT !.swap = swap]
    BY <2>1, <2>2, Zenon
  <2>5. QED
    BY <2>3, <2>4 DEF DataShape
<1>3. CASE e \in Declined(d)
  <2>1. PICK swap : e = [d EXCEPT !.swap = swap]
    BY <1>3 DEF Declined
  <2>2. QED
    BY <2>1 DEF DataShape
<1>4. QED
  BY <1>1, <1>2, <1>3 DEF ParentWrites

-----------------------------------------------------------------------------
(* The steps that change the rows.                                         *)

\* A commit is made by the thread that has the lock.
LEMMA CommitInv ==
  ASSUME IInv, NEW t \in Thread, Commit(t)
  PROVE  IInv'
<1> DEFINE j == [job[t] EXCEPT !.pc = "mail"]
<1>1. /\ job' = [job EXCEPT ![t] = j]
      /\ data' = job[t].plan.data /\ lock' = None /\ UNCHANGED token
  BY DEF Commit, Goto, IInv
<1>2. JobOK(t) /\ job[t].pc = "write" /\ lock = t
  BY DEF IInv, Commit, JobOK, At
<1>3. JobShape(j) /\ j.pc = "mail"
  BY <1>2 DEF JobOK, JobShape
<1> HIDE DEF j
<1>4. /\ job' = [u \in Thread |-> job'[u]]
      /\ job'[t] = j
      /\ \A u \in Thread \ {t} : JobOK(u)'
  <2>1. \A u \in Thread \ {t} : lock # u
    BY <1>2
  <2>2. QED
    BY <1>1, <2>1, OthersUndisturbed
<1>5. JobOK(t)'
  BY <1>3, <1>4, IdleOK
<1>6. TokensOK'
  BY <1>1 DEF IInv, TokensOK
<1>7. DataShape(data)'
  <2>1. /\ job[t].plan = PlanOf(job[t].who, job[t].act, data) /\ job[t].plan # Refused
        /\ job[t].act \in Act
    BY <1>2 DEF JobOK, At, BoundToToken, IInv, TokensOK
  <2>2. DataShape(job[t].plan.data)
    BY <2>1, PlanRoles DEF IInv
  <2>3. QED
    BY <1>1, <2>2
<1>8. QED
  BY <1>4, <1>5, <1>6, <1>7 DEF IInv

\* A parent's write finds the lock free, so no thread is about to write.
LEMMA ParentWriteInv ==
  ASSUME IInv, ParentWrite
  PROVE  IInv'
<1>1. lock = None /\ UNCHANGED <<token, job, lock>> /\ data' \in ParentWrites(data)
  BY DEF ParentWrite
<1>2. ASSUME NEW t \in Thread
      PROVE  JobOK(t)'
  <2>1. JobOK(t) /\ lock # t
    BY <1>1, ExecutorOK DEF IInv
  <2>2. ~At(t, "write")
    BY <2>1 DEF JobOK, At
  <2>3. BoundToToken(job[t]) => BoundToToken(job[t])'
    BY <1>1 DEF BoundToToken
  <2>4. QED
    BY <1>1, <2>1, <2>2, <2>3 DEF JobOK, At
<1>3. DataShape(data)'
  BY <1>1, ParentRoles DEF IInv
<1>4. TokensOK'
  BY <1>1 DEF IInv, TokensOK
<1>5. QED
  BY <1>1, <1>2, <1>3, <1>4 DEF IInv

LEMMA RestartInv ==
  ASSUME IInv, Restart
  PROVE  IInv'
<1>1. job' = [t \in Thread |-> Idle] /\ UNCHANGED <<data, token>>
  BY DEF Restart
<1>2. ASSUME NEW t \in Thread
      PROVE  JobOK(t)'
  BY <1>1, IdleShape, IdleOK
<1>3. QED
  BY <1>1, <1>2 DEF IInv, TokensOK

\* The invariant.
LEMMA Invariance == Spec => []IInv
<1>1. Init => IInv
  <2>1. SUFFICES ASSUME Init PROVE IInv
    OBVIOUS
  <2>2. \A t \in Thread : JobOK(t)
    BY <2>1, IdleShape DEF Init, JobOK, At
  <2>3. DataShape(data)
    BY <2>1, PlansOK DEF Init, Data, DataShape
  <2>4. QED
    BY <2>1, <2>2, <2>3 DEF IInv, Init, TokensOK
<1>2. IInv /\ [Next]_vars => IInv'
  <2>1. SUFFICES ASSUME IInv, [Next]_vars PROVE IInv'
    OBVIOUS
  <2>2. ASSUME NEW t \in Thread, Request(t)
        PROVE  IInv'
    <3>1. CASE \E who \in Person, act \in Act : ReviewBegin(t, who, act)
      BY <2>1, <3>1, ReviewBeginInv
    <3>2. CASE ReviewReadsOn(t)
      BY <2>1, <3>2, ReviewReadsOnInv
    <3>3. CASE ReviewEnd(t)
      BY <2>1, <3>3, ReviewEndInv
    <3>4. CASE \E k \in TokenId : ApplyBegin(t, k)
      BY <2>1, <3>4, ApplyBeginInv
    <3>5. CASE PreviewBegin(t) \/ TakeLock(t)
      BY <2>1, <3>5, TakeLockInv
    <3>6. CASE Replan(t)
      BY <2>1, <3>6, ReplanInv
    <3>7. CASE Commit(t)
      BY <2>1, <3>7, CommitInv
    <3>8. CASE ReviewRefused(t) \/ PreviewEnd(t) \/ PreviewSkipped(t) \/ Busy(t)
               \/ StalePlan(t) \/ WriteFails(t) \/ AfterCommit(t)
      <4>1. JobOK(t)
        BY <2>1 DEF IInv
      <4>2. /\ job' = [job EXCEPT ![t] = Idle] /\ UNCHANGED <<data, token>>
            /\ lock' = lock \/ lock = t
        BY <3>8, <4>1 DEF ReviewRefused, PreviewEnd, PreviewSkipped, Busy, StalePlan,
                          WriteFails, AfterCommit, Release, Return, JobOK, At
      <4>3. QED
        BY <2>1, <4>2, IdleShape, StepToRest
    <3>9. QED
      BY <2>2, <3>1, <3>2, <3>3, <3>4, <3>5, <3>6, <3>7, <3>8 DEF Request
  <2>3. CASE ParentWrite
    BY <2>1, <2>3, ParentWriteInv
  <2>4. CASE Restart
    BY <2>1, <2>4, RestartInv
  <2>5. CASE UNCHANGED vars
    <3>1. UNCHANGED <<data, token, job, lock>>
      BY <2>5 DEF vars
    <3>2. \A t \in Thread : JobOK(t)'
      BY <2>1, <3>1 DEF IInv, JobOK, BoundToToken, At
    <3>3. QED
      BY <2>1, <3>1, <3>2 DEF IInv, TokensOK
  <2>6. QED
    BY <2>1, <2>2, <2>3, <2>4, <2>5 DEF Next
<1>3. QED
  BY <1>1, <1>2, PTL DEF Spec

-----------------------------------------------------------------------------
(* The theorems.                                                           *)

\* What a commit knows.
LEMMA CommitKnows ==
  ASSUME IInv, NEW t \in Thread, Commit(t)
  PROVE  /\ job[t].who \in Person /\ job[t].act \in Act
         /\ job[t].plan = PlanOf(job[t].who, job[t].act, data) /\ job[t].plan # Refused
         /\ <<job[t].who, job[t].act, job[t].plan.digest>> \in Reviewed
         /\ data' = job[t].plan.data
<1>1. JobOK(t) /\ At(t, "write")
  BY DEF IInv, Commit
<1>2. BoundToToken(job[t])
  BY <1>1 DEF JobOK, At
<1>3. QED
  BY <1>1, <1>2 DEF JobOK, BoundToToken, IInv, TokensOK, Reviewed, Commit

\* A step that is not a commit changes the rows only as the parents may.
LEMMA OtherSteps ==
  ASSUME IInv, [Next]_vars, \A t \in Thread : ~Commit(t)
  PROVE  data' = data \/ ParentWrite
<1>1. ASSUME NEW t \in Thread, Request(t)
      PROVE  data' = data
  BY <1>1 DEF Request, ReviewBegin, ReviewReadsOn, ReviewEnd, ReviewRefused, PreviewBegin,
              PreviewEnd, PreviewSkipped, ApplyBegin, TakeLock, Busy, Replan, StalePlan,
              WriteFails, AfterCommit
<1>2. QED
  BY <1>1 DEF Next, Restart, vars

\* The tokens that exist stay; a review adds at most one.
LEMMA ReviewedGrows ==
  ASSUME IInv, [Next]_vars
  PROVE  \/ UNCHANGED Reviewed
         \/ /\ UNCHANGED data
            /\ \E review \in Reviewed' : Reviewed' = Reviewed \union {review}
<1>1. CASE UNCHANGED token
  BY <1>1 DEF Reviewed
<1>2. CASE \E t \in Thread : ReviewEnd(t)
  <2>1. PICK t \in Thread : ReviewEnd(t)
    BY <1>2
  <2> DEFINE new == NewToken(job[t], PlanOf(job[t].who, job[t].act, job[t].seen))
             review == <<new.who, new.act, new.digest>>
  <2>2. PICK k \in TokenId : token[k] = None /\ token' = [token EXCEPT ![k] = new]
    BY <2>1 DEF ReviewEnd
  <2>3. UNCHANGED data
    BY <2>1 DEF ReviewEnd
  <2> HIDE DEF new
  <2>4. token' = [i \in TokenId |-> IF i = k THEN new ELSE token[i]]
    BY <2>2 DEF IInv, TokensOK
  <2>5. CASE new = None
    BY <2>2, <2>4, <2>5 DEF Reviewed
  <2>6. CASE new # None
    <3>1. Reviewed' = Reviewed \union {review}
      BY <2>2, <2>4, <2>6 DEF Reviewed
    <3>2. QED
      BY <2>3, <3>1
  <2>7. QED
    BY <2>5, <2>6
<1>3. QED
  <2>1. ASSUME NEW t \in Thread, Request(t), ~ReviewEnd(t)
        PROVE  UNCHANGED token
    BY <2>1 DEF Request, ReviewBegin, ReviewReadsOn, ReviewRefused, PreviewBegin,
                PreviewEnd, PreviewSkipped, ApplyBegin, TakeLock, Busy, Replan, StalePlan,
                Commit, WriteFails, AfterCommit
  <2>2. ASSUME ParentWrite \/ Restart \/ UNCHANGED vars
        PROVE  UNCHANGED token
    BY <2>2 DEF ParentWrite, Restart, vars
  <2>3. QED
    BY <1>1, <1>2, <2>1, <2>2 DEF Next

\* The executor implements ReviewedChanges: whatever threads, previews,
\* restarts and replays do, the rows change only by the parents' writes and by
\* plans that somebody reviewed and that the rows still give at the commit.
THEOREM PromiseKept == Spec => KeepsPromise
<1>1. Init => Promise!Init
  BY DEF Init, Promise!Init, Reviewed
<1>2. IInv /\ [Next]_vars => [Promise!Next]_(Promise!vars)
  <2>1. SUFFICES ASSUME IInv, [Next]_vars
                 PROVE  Promise!Next \/ UNCHANGED <<data, Reviewed>>
    BY DEF Promise!vars
  <2>2. CASE \E t \in Thread : Commit(t)
    <3>1. PICK t \in Thread : Commit(t)
      BY <2>2
    <3>2. UNCHANGED Reviewed
      BY <3>1 DEF Commit, Reviewed
    <3>3. Promise!Apply(job[t].who, job[t].act)
      BY <2>1, <3>1, <3>2, CommitKnows DEF Promise!Apply
    <3>4. QED
      BY <2>1, <3>1, <3>3, CommitKnows DEF Promise!Next
  <2>3. CASE UNCHANGED data /\ ~\E t \in Thread : Commit(t)
    BY <2>1, <2>3, ReviewedGrows DEF Promise!Next, Promise!Review
  <2>4. CASE ParentWrite
    <3>1. UNCHANGED Reviewed /\ data' \in ParentWrites(data)
      BY <2>4 DEF ParentWrite, Reviewed
    <3>2. QED
      BY <3>1 DEF Promise!Next, Promise!Parents
  <2>5. QED
    BY <2>1, <2>2, <2>3, <2>4, OtherSteps
<1>3. QED
  BY <1>1, <1>2, Invariance, PTL DEF Spec, KeepsPromise, Promise!Spec

\* However many ansvariga remove each other at the same time, the last one is
\* removed only by a club admin.
THEOREM AnsvarigStays == Spec => TeamKeepsAnAnsvarig
<1>1. IInv /\ [Next]_vars =>
        [(data.role # {} /\ data'.role = {}) =>
           \E t \in Thread : Commit(t) /\ job[t].who \in ClubAdmin]_vars
  <2>1. SUFFICES ASSUME IInv, [Next]_vars, data.role # {}, data'.role = {}
                 PROVE  \E t \in Thread : Commit(t) /\ job[t].who \in ClubAdmin
    OBVIOUS
  <2>2. CASE \E t \in Thread : Commit(t)
    <3>1. PICK t \in Thread : Commit(t)
      BY <2>2
    <3>2. job[t].who \in ClubAdmin
      <4>1. /\ DataShape(data) /\ job[t].act \in Act
            /\ job[t].plan = PlanOf(job[t].who, job[t].act, data) /\ job[t].plan # Refused
            /\ data' = job[t].plan.data
        BY <2>1, <3>1, CommitKnows DEF IInv
      <4>2. data.role # {} /\ job[t].plan.data.role = {} => job[t].who \in ClubAdmin
        BY <4>1, PlanRoles
      <4>3. QED
        BY <2>1, <4>1, <4>2
    <3>3. QED
      BY <3>1, <3>2
  <2>3. CASE ~\E t \in Thread : Commit(t)
    <3>1. data' = data \/ ParentWrite
      BY <2>1, <2>3, OtherSteps
    <3>2. ParentWrite => data'.role = data.role
      BY <2>1, ParentRoles DEF ParentWrite, IInv
    <3>3. QED
      BY <2>1, <3>1, <3>2
  <2>4. QED
    BY <2>2, <2>3
<1>2. QED
  BY <1>1, Invariance, PTL DEF Spec, TeamKeepsAnAnsvarig

-----------------------------------------------------------------------------
(* The digest decides the effect: whatever rows two plans of one input are *)
(* made from, be they a mixture that never was, plans with one digest do   *)
(* the same to the rows that people see.                                   *)

\* What rows are made of.
LEMMA RowsOf ==
  ASSUME NEW d \in Data
  PROVE  /\ DataShape(d)
         /\ d.seat \in [Slot -> Seat \union {Gone}] /\ d.role \in SUBSET Person
         /\ \A i \in Requests(d) : d.swap[i] \in Swap
         /\ \A s \in LiveSlots(d) : d.seat[s] \in Seat
         /\ d.swap \in [SwapId -> Swap \union {NoRow}]
BY DEF Data, DataShape, Requests, LiveSlots

\* The status a cancelled request gets.
LEMMA Cancelled ==
  ASSUME NEW r \in Swap, r.status = "pending"
  PROVE  /\ [r EXCEPT !.status = "cancelled"] \in Swap
         /\ [r EXCEPT !.status = "cancelled"] # r
         /\ [r EXCEPT !.status = "cancelled"].status = "cancelled"
         /\ [r EXCEPT !.status = "cancelled"].give = r.give
         /\ [r EXCEPT !.status = "cancelled"].get = r.get
BY DEF Swap

\* What a plan's cancellations do to the requests.
LEMMA CancelledSwaps ==
  ASSUME NEW d \in Data, NEW changed \in SUBSET Slot, NEW deleted \in SUBSET Slot,
         NEW swap, swap = CancelSwaps(d, changed, deleted)
  PROVE  /\ swap \in [SwapId -> Swap \union {NoRow}]
         /\ {i \in Requests(d) : swap[i] # d.swap[i]} =
              Touching(d, deleted) \union (Touching(d, changed) \intersect Pending(d))
         /\ \A i \in Touching(d, deleted) : swap[i] = NoRow
         /\ \A i \in Touching(d, changed) \intersect Pending(d) :
              i \notin Touching(d, deleted) => swap[i] # NoRow /\ swap[i].status = "cancelled"
         /\ \A i \in SwapId : swap[i] # NoRow =>
              /\ i \in Requests(d) /\ i \notin Touching(d, deleted)
              /\ swap[i].give = d.swap[i].give /\ swap[i].get = d.swap[i].get
<1>1. \A i \in SwapId :
        swap[i] = IF i \in Touching(d, deleted) THEN NoRow
                  ELSE IF i \in Touching(d, changed) \intersect Pending(d)
                  THEN [d.swap[i] EXCEPT !.status = "cancelled"]
                  ELSE d.swap[i]
  BY DEF CancelSwaps
<1>2. \A i \in Pending(d) : /\ i \in SwapId /\ d.swap[i] \in Swap
                            /\ d.swap[i].status = "pending"
  BY RowsOf DEF Pending, Requests
<1>3. \A i \in Pending(d) :
        /\ [d.swap[i] EXCEPT !.status = "cancelled"] \in Swap
        /\ [d.swap[i] EXCEPT !.status = "cancelled"] # d.swap[i]
        /\ [d.swap[i] EXCEPT !.status = "cancelled"].status = "cancelled"
        /\ [d.swap[i] EXCEPT !.status = "cancelled"].give = d.swap[i].give
        /\ [d.swap[i] EXCEPT !.status = "cancelled"].get = d.swap[i].get
  BY <1>2, Cancelled
<1>4. /\ Touching(d, deleted) \subseteq Requests(d) /\ Pending(d) \subseteq Requests(d)
      /\ Requests(d) \subseteq SwapId /\ \A i \in Requests(d) : d.swap[i] # NoRow
  BY DEF Touching, Pending, Requests
<1>5. \A i \in SwapId : swap[i] \in Swap \union {NoRow}
  BY <1>1, <1>3, RowsOf
<1>6. swap \in [SwapId -> Swap \union {NoRow}]
  BY <1>5 DEF CancelSwaps
<1>7. {i \in Requests(d) : swap[i] # d.swap[i]} =
        Touching(d, deleted) \union (Touching(d, changed) \intersect Pending(d))
  BY <1>1, <1>3, <1>4
<1>8. \A i \in Swap : i # NoRow
  BY PlansOK
<1>9. /\ \A i \in Touching(d, deleted) : swap[i] = NoRow
      /\ \A i \in Touching(d, changed) \intersect Pending(d) :
           i \notin Touching(d, deleted) => swap[i] # NoRow /\ swap[i].status = "cancelled"
  BY <1>1, <1>3, <1>4, <1>8
<1>10. \A i \in SwapId : swap[i] # NoRow =>
         /\ i \in Requests(d) /\ i \notin Touching(d, deleted)
         /\ swap[i].give = d.swap[i].give /\ swap[i].get = d.swap[i].get
  BY <1>1, <1>3, <1>4 DEF Requests
<1>11. QED
  BY <1>6, <1>7, <1>9, <1>10

\* The same when no seat is deleted.
LEMMA ChangedSwaps ==
  ASSUME NEW d \in Data, NEW changed \in SUBSET Slot,
         NEW swap, swap = CancelSwaps(d, changed, {})
  PROVE  /\ swap \in [SwapId -> Swap \union {NoRow}]
         /\ {i \in Requests(d) : swap[i] # d.swap[i]} = Touching(d, changed) \intersect Pending(d)
         /\ \A i \in Touching(d, changed) \intersect Pending(d) :
              swap[i] # NoRow /\ swap[i].status = "cancelled"
         /\ \A i \in SwapId : swap[i] # NoRow =>
              i \in Requests(d) /\ swap[i].give = d.swap[i].give /\ swap[i].get = d.swap[i].get
<1>1. PICK none \in SUBSET Slot : none = {}
  OBVIOUS
<1>2. Touching(d, none) = {}
  BY <1>1 DEF Touching
<1>3. swap = CancelSwaps(d, changed, none)
  BY <1>1
<1>4. swap \in [SwapId -> Swap \union {NoRow}]
  BY <1>3, CancelledSwaps
<1>5. {i \in Requests(d) : swap[i] # d.swap[i]} =
        Touching(d, none) \union (Touching(d, changed) \intersect Pending(d))
  BY <1>3, CancelledSwaps
<1>6. \A i \in Touching(d, changed) \intersect Pending(d) :
        i \notin Touching(d, none) => swap[i] # NoRow /\ swap[i].status = "cancelled"
  BY <1>3, CancelledSwaps
<1>7. \A i \in SwapId : swap[i] # NoRow =>
        i \in Requests(d) /\ swap[i].give = d.swap[i].give /\ swap[i].get = d.swap[i].get
  BY <1>3, CancelledSwaps
<1>8. QED
  BY <1>2, <1>4, <1>5, <1>6, <1>7

\* The effect, one field at a time.
LEMMA EffectIs ==
  ASSUME NEW d, NEW g
  PROVE  Effect(d, g) =
           [seats |-> {<<s, d.seat[s], g.seat[s]>> :
                         s \in {u \in LiveSlots(d) : g.seat[u] # d.seat[u]}},
            added |-> {g.seat[s] : s \in LiveSlots(g) \ LiveSlots(d)},
            swaps |-> {<<i, IF d.swap[i] = NoRow THEN "none" ELSE d.swap[i].status,
                            IF g.swap[i] = NoRow THEN "none" ELSE g.swap[i].status>> :
                         i \in {j \in Requests(d) : g.swap[j] # d.swap[j]}},
            roles |-> <<g.role \ d.role, d.role \ g.role>>]
BY DEF Effect

\* The fields of an input.
LEMMA Inputs ==
  ASSUME NEW act \in Act
  PROVE  /\ act.do = "slot.update" => /\ act.slots \in SUBSET Slot
                                      /\ act.shift \in Shift \union {Keep}
                                      /\ act.player \in Player \union {Nobody, Keep}
         /\ act.do = "slot.delete" => act.slots \in SUBSET Slot
         /\ act.do = "slots.create" => act.shift \in Shift
         /\ act.do \in {"team_admins.add", "team_admins.remove"} => act.person \in Person
BY PlansOK DEF Input

\* What slot.update does to the rows: the edits, and the pending requests on
\* them cancelled; all of it can be read off the basis.
LEMMA UpdateEffect ==
  ASSUME NEW d \in Data, NEW act \in Act, act.do = "slot.update",
         NEW p, p = UpdateSlots(d, act), p # Refused
  PROVE  /\ p.data \in Data /\ (ForeignKeys(d) => ForeignKeys(p.data))
         /\ p.digest = <<SeatBasis(d, act.slots), SwapBasis(d, Edits(d, act)),
                         SwapWarnings(d, Edits(d, act)), DoubleBooked(d, act)>>
         /\ Effect(d, p.data) =
              [seats |-> {<<s, d.seat[s], Edited(d, act, s)>> : s \in Edits(d, act)},
               added |-> {},
               swaps |-> {<<i, "pending", "cancelled">> :
                            i \in Touching(d, Edits(d, act)) \intersect Pending(d)},
               roles |-> <<{}, {}>>]
<1> DEFINE E == Edits(d, act)
           g == [seat |-> EditedSeats(d, act), swap |-> CancelSwaps(d, E, {}), role |-> d.role]
<1>1. /\ OneShift(d, act.slots)
      /\ p = [digest |-> <<SeatBasis(d, act.slots), SwapBasis(d, E),
                           SwapWarnings(d, E), DoubleBooked(d, act)>>,
              data |-> [d EXCEPT !.seat = EditedSeats(d, act), !.swap = CancelSwaps(d, E, {})]]
  BY DEF UpdateSlots
<1>2. [d EXCEPT !.seat = EditedSeats(d, act), !.swap = CancelSwaps(d, E, {})] = g
  <2>1. PICK seat, swap : seat = EditedSeats(d, act) /\ swap = CancelSwaps(d, E, {})
    OBVIOUS
  <2>2. PICK f : f = [d EXCEPT !.seat = seat]
    OBVIOUS
  <2>3. f = [seat |-> seat, swap |-> d.swap, role |-> d.role]
    BY <2>2, RowsOf DEF DataShape
  <2>4. [f EXCEPT !.swap = swap] = [seat |-> seat, swap |-> swap, role |-> d.role]
    BY <2>3
  <2>5. [d EXCEPT !.seat = seat, !.swap = swap] = [f EXCEPT !.swap = swap]
    BY <2>2, Zenon
  <2>6. QED
    BY <2>1, <2>4, <2>5, Zenon
<1>3. /\ E \subseteq act.slots /\ act.slots \subseteq LiveSlots(d) /\ E \in SUBSET Slot
      /\ \A s \in Slot : s \in E <=> s \in act.slots /\ Edited(d, act, s) # d.seat[s]
  BY <1>1, Inputs DEF OneShift, Edits
<1>4. \A s \in E : Edited(d, act, s) \in Seat
  BY <1>3, Inputs, RowsOf DEF Edited, Seat
<1> HIDE DEF E
<1>5. /\ g.seat \in [Slot -> Seat \union {Gone}]
      /\ \A s \in Slot : g.seat[s] = IF s \in E THEN Edited(d, act, s) ELSE d.seat[s]
  BY <1>4, RowsOf DEF EditedSeats, E
<1>6. LiveSlots(g) \subseteq LiveSlots(d) /\ {u \in LiveSlots(d) : g.seat[u] # d.seat[u]} = E
  BY <1>3, <1>5 DEF LiveSlots
<1>7. PICK swap : swap = CancelSwaps(d, E, {})
  OBVIOUS
<1>8. /\ swap \in [SwapId -> Swap \union {NoRow}]
      /\ {i \in Requests(d) : swap[i] # d.swap[i]} = Touching(d, E) \intersect Pending(d)
      /\ \A i \in Touching(d, E) \intersect Pending(d) : swap[i] # NoRow /\ swap[i].status = "cancelled"
      /\ \A i \in SwapId : swap[i] # NoRow =>
           i \in Requests(d) /\ swap[i].give = d.swap[i].give /\ swap[i].get = d.swap[i].get
  BY <1>3, <1>7, ChangedSwaps
<1>9. g \in Data
  BY <1>5, <1>7, <1>8, RowsOf DEF Data
<1>10. \A i \in Pending(d) : d.swap[i] # NoRow /\ d.swap[i].status = "pending"
  BY DEF Pending, Requests
<1>11. {<<s, d.seat[s], g.seat[s]>> : s \in {u \in LiveSlots(d) : g.seat[u] # d.seat[u]}}
         = {<<s, d.seat[s], Edited(d, act, s)>> : s \in E}
  BY <1>3, <1>5, <1>6
<1>12. {g.seat[s] : s \in LiveSlots(g) \ LiveSlots(d)} = {}
  BY <1>6
<1>13. {<<i, IF d.swap[i] = NoRow THEN "none" ELSE d.swap[i].status,
            IF g.swap[i] = NoRow THEN "none" ELSE g.swap[i].status>> :
          i \in {j \in Requests(d) : g.swap[j] # d.swap[j]}}
         = {<<i, "pending", "cancelled">> : i \in Touching(d, E) \intersect Pending(d)}
  BY <1>7, <1>8, <1>10
<1>14. g.role \ d.role = {} /\ d.role \ g.role = {}
  OBVIOUS
<1>keys. ForeignKeys(d) => ForeignKeys(g)
  <2>1. \A s \in Slot : d.seat[s] # Gone => g.seat[s] # Gone
    BY <1>4, <1>5, PlansOK
  <2>2. \A i \in Requests(d) : d.swap[i].give \in Slot /\ d.swap[i].get \in Slot
    BY RowsOf DEF Swap
  <2>3. QED
    BY <1>7, <1>8, <2>1, <2>2 DEF ForeignKeys, Requests
<1> HIDE DEF g
<1>15. Effect(d, g) =
         [seats |-> {<<s, d.seat[s], Edited(d, act, s)>> : s \in E}, added |-> {},
          swaps |-> {<<i, "pending", "cancelled">> : i \in Touching(d, E) \intersect Pending(d)},
          roles |-> <<{}, {}>>]
  BY <1>11, <1>12, <1>13, <1>14, EffectIs, Zenon
<1>16. /\ p.data = [d EXCEPT !.seat = EditedSeats(d, act), !.swap = CancelSwaps(d, E, {})]
       /\ p.digest = <<SeatBasis(d, act.slots), SwapBasis(d, E), SwapWarnings(d, E),
                       DoubleBooked(d, act)>>
  BY <1>1
<1>17. p.data = g
  BY <1>2, <1>16, Zenon
<1>18. QED
  BY <1>9, <1>15, <1>16, <1>17, <1>keys, Zenon DEF E

\* slot.delete takes the seats and every request on them.
LEMMA DeleteEffect ==
  ASSUME NEW d \in Data, NEW act \in Act, act.do = "slot.delete",
         NEW p, p = DeleteSlots(d, act), p # Refused
  PROVE  /\ p.data \in Data /\ (ForeignKeys(d) => ForeignKeys(p.data))
         /\ p.digest = <<SeatBasis(d, act.slots), SwapBasis(d, act.slots),
                         SwapWarnings(d, act.slots)>>
         /\ Effect(d, p.data) =
              [seats |-> {<<s, d.seat[s], Gone>> : s \in act.slots},
               added |-> {},
               swaps |-> {<<i, d.swap[i].status, "none">> : i \in Touching(d, act.slots)},
               roles |-> <<{}, {}>>]
<1> DEFINE S == act.slots
           g == [seat |-> RemainingSeats(d, S), swap |-> CancelSwaps(d, {}, S), role |-> d.role]
<1>1. /\ OneShift(d, S)
      /\ p = [digest |-> <<SeatBasis(d, S), SwapBasis(d, S), SwapWarnings(d, S)>>,
              data |-> [d EXCEPT !.seat = RemainingSeats(d, S), !.swap = CancelSwaps(d, {}, S)]]
  BY DEF DeleteSlots
<1>2. [d EXCEPT !.seat = RemainingSeats(d, S), !.swap = CancelSwaps(d, {}, S)] = g
  <2>1. PICK seat, swap : seat = RemainingSeats(d, S) /\ swap = CancelSwaps(d, {}, S)
    OBVIOUS
  <2>2. PICK f : f = [d EXCEPT !.seat = seat]
    OBVIOUS
  <2>3. f = [seat |-> seat, swap |-> d.swap, role |-> d.role]
    BY <2>2, RowsOf DEF DataShape
  <2>4. [f EXCEPT !.swap = swap] = [seat |-> seat, swap |-> swap, role |-> d.role]
    BY <2>3
  <2>5. [d EXCEPT !.seat = seat, !.swap = swap] = [f EXCEPT !.swap = swap]
    BY <2>2, Zenon
  <2>6. QED
    BY <2>1, <2>4, <2>5, Zenon
<1>3. S \subseteq LiveSlots(d) /\ S \in SUBSET Slot
  BY <1>1, Inputs DEF OneShift
<1> HIDE DEF S
<1>4. /\ g.seat \in [Slot -> Seat \union {Gone}]
      /\ \A s \in Slot : g.seat[s] = IF s \in S THEN Gone ELSE d.seat[s]
  BY RowsOf DEF RemainingSeats
<1>5. LiveSlots(g) \subseteq LiveSlots(d) /\ {u \in LiveSlots(d) : g.seat[u] # d.seat[u]} = S
  BY <1>3, <1>4 DEF LiveSlots
<1>6. PICK swap : swap = CancelSwaps(d, {}, S)
  OBVIOUS
<1>7. /\ swap \in [SwapId -> Swap \union {NoRow}]
      /\ {i \in Requests(d) : swap[i] # d.swap[i]} = Touching(d, S)
      /\ \A i \in Touching(d, S) : swap[i] = NoRow
      /\ \A i \in SwapId : swap[i] # NoRow =>
           /\ i \in Requests(d) /\ i \notin Touching(d, S)
           /\ swap[i].give = d.swap[i].give /\ swap[i].get = d.swap[i].get
  <2>1. Touching(d, {}) = {}
    BY DEF Touching
  <2>2. QED
    BY <1>3, <1>6, <2>1, CancelledSwaps
<1>8. g \in Data
  BY <1>4, <1>6, <1>7, RowsOf DEF Data
<1>9. \A i \in Touching(d, S) : d.swap[i] # NoRow
  BY DEF Touching, Requests
<1>10. {<<s, d.seat[s], g.seat[s]>> : s \in {u \in LiveSlots(d) : g.seat[u] # d.seat[u]}}
         = {<<s, d.seat[s], Gone>> : s \in S}
  BY <1>3, <1>4, <1>5
<1>11. {g.seat[s] : s \in LiveSlots(g) \ LiveSlots(d)} = {}
  BY <1>5
<1>12. {<<i, IF d.swap[i] = NoRow THEN "none" ELSE d.swap[i].status,
            IF g.swap[i] = NoRow THEN "none" ELSE g.swap[i].status>> :
          i \in {j \in Requests(d) : g.swap[j] # d.swap[j]}}
         = {<<i, d.swap[i].status, "none">> : i \in Touching(d, S)}
  BY <1>6, <1>7, <1>9
<1>13. g.role \ d.role = {} /\ d.role \ g.role = {}
  OBVIOUS
<1>keys. ForeignKeys(d) => ForeignKeys(g)
  <2>1. \A i \in Requests(d) : d.swap[i].give \in Slot /\ d.swap[i].get \in Slot
    BY RowsOf DEF Swap
  <2>2. \A i \in SwapId : g.swap[i] # NoRow =>
          /\ i \in Requests(d) /\ d.swap[i].give \notin S /\ d.swap[i].get \notin S
          /\ g.swap[i].give = d.swap[i].give /\ g.swap[i].get = d.swap[i].get
    BY <1>6, <1>7 DEF Touching
  <2>3. QED
    BY <1>4, <2>1, <2>2 DEF ForeignKeys, Requests
<1> HIDE DEF g
<1>14. Effect(d, g) =
         [seats |-> {<<s, d.seat[s], Gone>> : s \in S}, added |-> {},
          swaps |-> {<<i, d.swap[i].status, "none">> : i \in Touching(d, S)},
          roles |-> <<{}, {}>>]
  BY <1>10, <1>11, <1>12, <1>13, EffectIs, Zenon
<1>15. /\ p.data = [d EXCEPT !.seat = RemainingSeats(d, S), !.swap = CancelSwaps(d, {}, S)]
       /\ p.digest = <<SeatBasis(d, S), SwapBasis(d, S), SwapWarnings(d, S)>>
  BY <1>1
<1>16. p.data = g
  BY <1>2, <1>15, Zenon
<1>17. QED
  BY <1>8, <1>14, <1>15, <1>16, <1>keys, Zenon DEF S

\* slots.create adds one empty seat, whatever the rows are.
LEMMA CreateEffect ==
  ASSUME NEW d \in Data, NEW act \in Act, act.do = "slots.create",
         NEW p, p = CreateSlots(d, act), p # Refused
  PROVE  /\ p.data \in Data /\ (ForeignKeys(d) => ForeignKeys(p.data))
         /\ Effect(d, p.data) =
              [seats |-> {}, added |-> {[player |-> Nobody, shift |-> act.shift]},
               swaps |-> {}, roles |-> <<{}, {}>>]
<1> DEFINE new == [player |-> Nobody, shift |-> act.shift]
           seat == [s \in Slot |-> IF s \in NextSlots(d) THEN new ELSE d.seat[s]]
           g == [seat |-> seat, swap |-> d.swap, role |-> d.role]
<1>1. NextSlots(d) # {} /\ p.data = [d EXCEPT !.seat = seat]
  BY DEF CreateSlots
<1>2. p.data = g
  BY <1>1, RowsOf DEF DataShape
<1>3. new \in Seat /\ new # Gone
  BY Inputs, PlansOK DEF Seat
<1>4. NextSlots(d) \subseteq Slot /\ NextSlots(d) \intersect LiveSlots(d) = {}
  <2>1. \A s \in NextSlots(d) : s \in Slot /\ \A u \in LiveSlots(d) : u < s
    BY DEF NextSlots
  <2>2. \A s \in Slot : s \in Int
    BY DEF Slot
  <2>3. \A s \in NextSlots(d) : s \notin LiveSlots(d)
    BY <2>1, <2>2
  <2>4. QED
    BY <2>1, <2>3
<1> HIDE DEF new
<1>5. /\ g.seat \in [Slot -> Seat \union {Gone}]
      /\ \A s \in Slot : g.seat[s] = IF s \in NextSlots(d) THEN new ELSE d.seat[s]
  BY <1>3, RowsOf
<1>6. g \in Data
  BY <1>5, RowsOf DEF Data
<1>7. {u \in LiveSlots(d) : g.seat[u] # d.seat[u]} = {}
  BY <1>4, <1>5 DEF LiveSlots
<1>8. LiveSlots(g) \ LiveSlots(d) = NextSlots(d)
  BY <1>3, <1>4, <1>5 DEF LiveSlots
<1>9. {g.seat[s] : s \in LiveSlots(g) \ LiveSlots(d)} = {new}
  BY <1>1, <1>4, <1>5, <1>8
<1>10. {j \in Requests(d) : g.swap[j] # d.swap[j]} = {}
  OBVIOUS
<1>11. g.role \ d.role = {} /\ d.role \ g.role = {}
  OBVIOUS
<1>keys. ForeignKeys(d) => ForeignKeys(g)
  <2>1. \A i \in Requests(d) : d.swap[i].give \in Slot /\ d.swap[i].get \in Slot
    BY RowsOf DEF Swap
  <2>2. \A s \in Slot : d.seat[s] # Gone => g.seat[s] # Gone
    BY <1>3, <1>5
  <2>3. QED
    BY <2>1, <2>2 DEF ForeignKeys, Requests
<1> HIDE DEF g
<1>12. QED
  BY <1>2, <1>6, <1>7, <1>9, <1>10, <1>11, <1>keys, EffectIs DEF new

\* The actions on ansvariga change one person's role, or are refused.
LEMMA RoleEffect ==
  ASSUME NEW d \in Data, NEW act \in Act, NEW who,
         act.do \in {"team_admins.add", "team_admins.remove"},
         NEW p, p = PlanOf(who, act, d), p # Refused
  PROVE  /\ p.data \in Data /\ (ForeignKeys(d) => ForeignKeys(p.data))
         /\ Effect(d, p.data) =
              [seats |-> {}, added |-> {}, swaps |-> {},
               roles |-> IF act.do = "team_admins.add" THEN <<{act.person}, {}>>
                                                       ELSE <<{}, {act.person}>>]
<1>1. PICK role \in SUBSET Person :
        /\ p.data = [d EXCEPT !.role = role]
        /\ <<role \ d.role, d.role \ role>> = IF act.do = "team_admins.add" THEN <<{act.person}, {}>>
                                               ELSE <<{}, {act.person}>>
  <2>1. CASE act.do = "team_admins.add"
    <3>1. act.person \notin d.role /\ p.data = [d EXCEPT !.role = d.role \union {act.person}]
      BY <2>1 DEF PlanOf, AddTeamAdmin
    <3>2. d.role \union {act.person} \in SUBSET Person
      BY <2>1, Inputs, RowsOf
    <3>3. (d.role \union {act.person}) \ d.role = {act.person} /\ d.role \ (d.role \union {act.person}) = {}
      BY <3>1
    <3>4. QED
      BY <2>1, <3>1, <3>2, <3>3
  <2>2. CASE act.do = "team_admins.remove"
    <3>1. act.person \in d.role /\ p.data = [d EXCEPT !.role = d.role \ {act.person}]
      BY <2>2 DEF PlanOf, RemoveTeamAdmin
    <3>2. d.role \ {act.person} \in SUBSET Person
      BY RowsOf
    <3>3. (d.role \ {act.person}) \ d.role = {} /\ d.role \ (d.role \ {act.person}) = {act.person}
      BY <3>1
    <3>4. QED
      BY <2>2, <3>1, <3>2, <3>3
  <2>3. QED
    BY <2>1, <2>2
<1> DEFINE g == [seat |-> d.seat, swap |-> d.swap, role |-> role]
<1>2. p.data = g
  BY <1>1, RowsOf DEF DataShape
<1>3. g \in Data
  BY RowsOf DEF Data
<1>4. ForeignKeys(d) => ForeignKeys(g)
  BY DEF ForeignKeys
<1>5. /\ {u \in LiveSlots(d) : g.seat[u] # d.seat[u]} = {} /\ LiveSlots(g) = LiveSlots(d)
      /\ {j \in Requests(d) : g.swap[j] # d.swap[j]} = {} /\ g.role = role
  BY DEF LiveSlots
<1> HIDE DEF g
<1>6. Effect(d, g) = [seats |-> {}, added |-> {}, swaps |-> {},
                      roles |-> <<role \ d.role, d.role \ role>>]
  <2>1. /\ {<<s, d.seat[s], g.seat[s]>> : s \in {u \in LiveSlots(d) : g.seat[u] # d.seat[u]}} = {}
        /\ {g.seat[s] : s \in LiveSlots(g) \ LiveSlots(d)} = {}
        /\ {<<i, IF d.swap[i] = NoRow THEN "none" ELSE d.swap[i].status,
                 IF g.swap[i] = NoRow THEN "none" ELSE g.swap[i].status>> :
               i \in {j \in Requests(d) : g.swap[j] # d.swap[j]}} = {}
    BY <1>5
  <2>2. QED
    BY <1>5, <2>1, EffectIs, Zenon
<1>7. QED
  BY <1>1, <1>2, <1>3, <1>4, <1>6, Zenon

\* The plan of an input leaves rows that are rows.
LEMMA PlanRows ==
  ASSUME NEW d \in Data, NEW act \in Act, NEW who, NEW p, p = PlanOf(who, act, d), p # Refused
  PROVE  p.data \in Data /\ (ForeignKeys(d) => ForeignKeys(p.data))
<1>1. CASE act.do = "slot.update"
  BY <1>1, UpdateEffect DEF PlanOf
<1>2. CASE act.do = "slot.delete"
  BY <1>2, DeleteEffect DEF PlanOf
<1>3. CASE act.do = "slots.create"
  BY <1>3, CreateEffect DEF PlanOf
<1>4. CASE act.do \in {"team_admins.add", "team_admins.remove"}
  <2>1. /\ p.data \in Data /\ (ForeignKeys(d) => ForeignKeys(p.data))
        /\ Effect(d, p.data) =
             [seats |-> {}, added |-> {}, swaps |-> {},
              roles |-> IF act.do = "team_admins.add" THEN <<{act.person}, {}>>
                                                      ELSE <<{}, {act.person}>>]
    BY <1>4, RoleEffect
  <2>2. QED
    BY <2>1
<1>5. QED
  BY <1>1, <1>2, <1>3, <1>4, PlansOK DEF Input

\* Two plans of one input that hash the same have the same effect.
LEMMA DigestDecides ==
  ASSUME NEW d \in Data, NEW e \in Data, NEW act \in Act, NEW who,
         NEW p, p = PlanOf(who, act, d), p # Refused,
         NEW q, q = PlanOf(who, act, e), q # Refused,
         p.digest = q.digest
  PROVE  Effect(d, p.data) = Effect(e, q.data)
<1>1. CASE act.do = "slot.update"
  <2>1. p = UpdateSlots(d, act) /\ q = UpdateSlots(e, act)
    BY <1>1 DEF PlanOf
  <2>2. /\ p.digest = <<SeatBasis(d, act.slots), SwapBasis(d, Edits(d, act)),
                        SwapWarnings(d, Edits(d, act)), DoubleBooked(d, act)>>
        /\ q.digest = <<SeatBasis(e, act.slots), SwapBasis(e, Edits(e, act)),
                        SwapWarnings(e, Edits(e, act)), DoubleBooked(e, act)>>
    BY <1>1, <2>1, UpdateEffect
  <2>3. /\ SeatBasis(d, act.slots) = SeatBasis(e, act.slots)
        /\ SwapBasis(d, Edits(d, act)) = SwapBasis(e, Edits(e, act))
    <3>1. PICK a, b, c, f, x, y, z, g :
            /\ a = SeatBasis(d, act.slots) /\ b = SwapBasis(d, Edits(d, act))
            /\ x = SeatBasis(e, act.slots) /\ y = SwapBasis(e, Edits(e, act))
            /\ p.digest = <<a, b, c, f>> /\ q.digest = <<x, y, z, g>>
      BY <2>2, Zenon
    <3>2. <<a, b, c, f>> = <<x, y, z, g>>
      BY <3>1, Zenon
    <3>3. a = x /\ b = y
      BY <3>2
    <3>4. QED
      BY <3>1, <3>3, Zenon
  <2>4. \A s \in act.slots : d.seat[s] = e.seat[s]
    BY <2>3 DEF SeatBasis
  <2>5. \A s \in act.slots : Edited(d, act, s) = Edited(e, act, s)
    BY <2>4 DEF Edited
  <2>6. Edits(d, act) = Edits(e, act)
    BY <2>4, <2>5 DEF Edits
  <2>7. {<<s, d.seat[s], Edited(d, act, s)>> : s \in Edits(d, act)}
          = {<<s, e.seat[s], Edited(e, act, s)>> : s \in Edits(e, act)}
    <3>1. \A s \in Edits(d, act) : s \in act.slots
      BY DEF Edits
    <3>2. QED
      BY <2>4, <2>5, <2>6, <3>1
  <2>8. Touching(d, Edits(d, act)) \intersect Pending(d)
          = Touching(e, Edits(e, act)) \intersect Pending(e)
    <3>1. ASSUME NEW f \in Data, NEW S
          PROVE  Touching(f, S) \intersect Pending(f)
                   = {i \in SwapId : <<i, "pending">> \in SwapBasis(f, S)}
      BY DEF SwapBasis, Touching, Pending, Requests
    <3>2. QED
      BY <2>3, <3>1
  <2>9. {<<i, "pending", "cancelled">> : i \in Touching(d, Edits(d, act)) \intersect Pending(d)}
          = {<<i, "pending", "cancelled">> : i \in Touching(e, Edits(e, act)) \intersect Pending(e)}
    BY <2>8
  <2>10. /\ Effect(d, p.data) =
              [seats |-> {<<s, d.seat[s], Edited(d, act, s)>> : s \in Edits(d, act)},
               added |-> {},
               swaps |-> {<<i, "pending", "cancelled">> :
                            i \in Touching(d, Edits(d, act)) \intersect Pending(d)},
               roles |-> <<{}, {}>>]
         /\ Effect(e, q.data) =
              [seats |-> {<<s, e.seat[s], Edited(e, act, s)>> : s \in Edits(e, act)},
               added |-> {},
               swaps |-> {<<i, "pending", "cancelled">> :
                            i \in Touching(e, Edits(e, act)) \intersect Pending(e)},
               roles |-> <<{}, {}>>]
    BY <1>1, <2>1, UpdateEffect
  <2>11. QED
    BY <2>7, <2>9, <2>10, Zenon
<1>2. CASE act.do = "slot.delete"
  <2>1. p = DeleteSlots(d, act) /\ q = DeleteSlots(e, act)
    BY <1>2 DEF PlanOf
  <2>2. /\ p.digest = <<SeatBasis(d, act.slots), SwapBasis(d, act.slots),
                        SwapWarnings(d, act.slots)>>
        /\ q.digest = <<SeatBasis(e, act.slots), SwapBasis(e, act.slots),
                        SwapWarnings(e, act.slots)>>
    BY <1>2, <2>1, DeleteEffect
  <2>3. /\ SeatBasis(d, act.slots) = SeatBasis(e, act.slots)
        /\ SwapBasis(d, act.slots) = SwapBasis(e, act.slots)
    <3>1. PICK a, b, c, x, y, z :
            /\ a = SeatBasis(d, act.slots) /\ b = SwapBasis(d, act.slots)
            /\ x = SeatBasis(e, act.slots) /\ y = SwapBasis(e, act.slots)
            /\ p.digest = <<a, b, c>> /\ q.digest = <<x, y, z>>
      BY <2>2, Zenon
    <3>2. <<a, b, c>> = <<x, y, z>>
      BY <3>1, Zenon
    <3>3. a = x /\ b = y
      BY <3>2
    <3>4. QED
      BY <3>1, <3>3, Zenon
  <2>4. {<<s, d.seat[s], Gone>> : s \in act.slots} = {<<s, e.seat[s], Gone>> : s \in act.slots}
    BY <2>3 DEF SeatBasis
  <2>5. {<<i, d.swap[i].status, "none">> : i \in Touching(d, act.slots)}
          = {<<i, e.swap[i].status, "none">> : i \in Touching(e, act.slots)}
    <3>1. {<<i, d.swap[i].status>> : i \in Touching(d, act.slots)}
            = {<<i, e.swap[i].status>> : i \in Touching(e, act.slots)}
      BY <2>3 DEF SwapBasis
    <3>2. ASSUME NEW i \in Touching(d, act.slots)
          PROVE  i \in Touching(e, act.slots) /\ e.swap[i].status = d.swap[i].status
      <4>1. <<i, d.swap[i].status>> \in {<<j, e.swap[j].status>> : j \in Touching(e, act.slots)}
        BY <3>1, Zenon
      <4>2. PICK j \in Touching(e, act.slots) : <<i, d.swap[i].status>> = <<j, e.swap[j].status>>
        BY <4>1
      <4>3. QED
        BY <4>2
    <3>3. ASSUME NEW i \in Touching(e, act.slots)
          PROVE  i \in Touching(d, act.slots) /\ e.swap[i].status = d.swap[i].status
      <4>1. <<i, e.swap[i].status>> \in {<<j, d.swap[j].status>> : j \in Touching(d, act.slots)}
        BY <3>1, Zenon
      <4>2. PICK j \in Touching(d, act.slots) : <<i, e.swap[i].status>> = <<j, d.swap[j].status>>
        BY <4>1
      <4>3. QED
        BY <4>2
    <3>4. QED
      BY <3>2, <3>3
  <2>6. /\ Effect(d, p.data) =
             [seats |-> {<<s, d.seat[s], Gone>> : s \in act.slots}, added |-> {},
              swaps |-> {<<i, d.swap[i].status, "none">> : i \in Touching(d, act.slots)},
              roles |-> <<{}, {}>>]
        /\ Effect(e, q.data) =
             [seats |-> {<<s, e.seat[s], Gone>> : s \in act.slots}, added |-> {},
              swaps |-> {<<i, e.swap[i].status, "none">> : i \in Touching(e, act.slots)},
              roles |-> <<{}, {}>>]
    BY <1>2, <2>1, DeleteEffect
  <2>7. QED
    BY <2>4, <2>5, <2>6, Zenon
<1>3. CASE act.do = "slots.create"
  <2>1. p = CreateSlots(d, act) /\ q = CreateSlots(e, act)
    BY <1>3 DEF PlanOf
  <2>2. QED
    BY <1>3, <2>1, CreateEffect, Zenon
<1>4. CASE act.do \in {"team_admins.add", "team_admins.remove"}
  <2>1. Effect(d, p.data) = [seats |-> {}, added |-> {}, swaps |-> {},
                             roles |-> IF act.do = "team_admins.add" THEN <<{act.person}, {}>>
                                                                     ELSE <<{}, {act.person}>>]
    BY <1>4, RoleEffect
  <2>2. Effect(e, q.data) = [seats |-> {}, added |-> {}, swaps |-> {},
                             roles |-> IF act.do = "team_admins.add" THEN <<{act.person}, {}>>
                                                                     ELSE <<{}, {act.person}>>]
    BY <1>4, RoleEffect
  <2>3. QED
    BY <2>1, <2>2, Zenon
<1>5. QED
  BY <1>1, <1>2, <1>3, <1>4, PlansOK DEF Input

\* The parents' handlers, too, leave rows that are rows.
LEMMA ParentRows ==
  ASSUME NEW d \in Data, ForeignKeys(d), NEW e \in ParentWrites(d)
  PROVE  e \in Data /\ ForeignKeys(e)
<1>1. CASE e \in Proposed(d)
  <2>1. PICK i \in SwapId, s \in FilledSlots(d), u \in FilledSlots(d) :
          e = [d EXCEPT !.swap[i] = Offer(s, u)]
    BY <1>1 DEF Proposed, NextSwaps
  <2>2. /\ s \in Slot /\ u \in Slot /\ d.seat[s] # Gone /\ d.seat[u] # Gone
        /\ Offer(s, u) \in Swap /\ Offer(s, u).give = s /\ Offer(s, u).get = u
    BY DEF FilledSlots, LiveSlots, Offer, Swap
  <2>3. PICK new : new = Offer(s, u)
    OBVIOUS
  <2>4. PICK swap : swap = [d.swap EXCEPT ![i] = new]
    OBVIOUS
  <2>5. e = [seat |-> d.seat, swap |-> swap, role |-> d.role]
    BY <2>1, <2>3, <2>4, RowsOf DEF DataShape
  <2>6. /\ swap \in [SwapId -> Swap \union {NoRow}]
        /\ \A j \in SwapId : swap[j] = IF j = i THEN new ELSE d.swap[j]
    BY <2>2, <2>3, <2>4, RowsOf
  <2>7. e \in Data
    BY <2>5, <2>6, RowsOf DEF Data
  <2>8. QED
    BY <2>2, <2>3, <2>5, <2>6, <2>7 DEF ForeignKeys
<1>2. CASE e \in Accepted(d)
  <2>1. PICK i \in Pending(d) :
          e = [d EXCEPT
                 !.seat = [@ EXCEPT ![d.swap[i].give].player = d.seat[d.swap[i].get].player,
                                    ![d.swap[i].get].player = d.seat[d.swap[i].give].player],
                 !.swap = [j \in SwapId |->
                             IF j = i THEN [d.swap[j] EXCEPT !.status = "accepted"]
                             ELSE IF j \in Touching(d, {d.swap[i].give, d.swap[i].get}) \intersect Pending(d)
                             THEN [d.swap[j] EXCEPT !.status = "declined"]
                             ELSE d.swap[j]]]
    BY <1>2 DEF Accepted
  <2> DEFINE give == d.swap[i].give
             get == d.swap[i].get
             x == d.seat[d.swap[i].get].player
             y == d.seat[d.swap[i].give].player
             others == Touching(d, {d.swap[i].give, d.swap[i].get}) \intersect Pending(d)
  <2>2. /\ give \in Slot /\ get \in Slot /\ d.seat[give] \in Seat /\ d.seat[get] \in Seat
        /\ x \in Player \union {Nobody} /\ y \in Player \union {Nobody}
    <3>1. i \in SwapId /\ d.swap[i] \in Swap /\ d.swap[i] # NoRow
      BY RowsOf DEF Pending, Requests
    <3>2. give \in Slot /\ get \in Slot
      BY <3>1 DEF Swap
    <3>3. d.seat[give] \in Seat /\ d.seat[get] \in Seat
      BY <3>1, <3>2, RowsOf DEF ForeignKeys, LiveSlots
    <3>4. QED
      BY <3>2, <3>3 DEF Seat
  <2>3. PICK seat, swap :
          /\ seat = [d.seat EXCEPT ![give].player = x, ![get].player = y]
          /\ swap = [j \in SwapId |->
                       IF j = i THEN [d.swap[j] EXCEPT !.status = "accepted"]
                       ELSE IF j \in others THEN [d.swap[j] EXCEPT !.status = "declined"]
                       ELSE d.swap[j]]
          /\ e = [d EXCEPT !.seat = seat, !.swap = swap]
    BY <2>1
  <2> HIDE DEF give, get, x, y, others
  <2>4. e = [seat |-> seat, swap |-> swap, role |-> d.role]
    <3>1. PICK f : f = [d EXCEPT !.seat = seat]
      OBVIOUS
    <3>2. f = [seat |-> seat, swap |-> d.swap, role |-> d.role]
      BY <3>1, RowsOf DEF DataShape
    <3>3. [f EXCEPT !.swap = swap] = [seat |-> seat, swap |-> swap, role |-> d.role]
      BY <3>2
    <3>4. e = [f EXCEPT !.swap = swap]
      BY <2>3, <3>1, Zenon
    <3>5. QED
      BY <3>3, <3>4
  <2>5. /\ seat \in [Slot -> Seat \union {Gone}]
        /\ \A s \in Slot : d.seat[s] # Gone => seat[s] # Gone
    <3>1. PICK one : one = [d.seat EXCEPT ![give].player = x]
      OBVIOUS
    <3>2. \A r \in Seat, z \in Player \union {Nobody} : [r EXCEPT !.player = z] \in Seat
      BY DEF Seat
    <3>3. one \in [Slot -> Seat \union {Gone}] /\ one[get] \in Seat
          /\ \A s \in Slot : d.seat[s] # Gone => one[s] # Gone
      BY <2>2, <3>1, <3>2, PlansOK, RowsOf
    <3>4. seat = [one EXCEPT ![get].player = y]
      BY <2>3, <3>1, Zenon
    <3>5. QED
      BY <2>2, <3>2, <3>3, <3>4, PlansOK
  <2>6. /\ swap \in [SwapId -> Swap \union {NoRow}]
        /\ \A j \in SwapId : swap[j] # NoRow =>
             d.swap[j] # NoRow /\ swap[j].give = d.swap[j].give /\ swap[j].get = d.swap[j].get
    <3>1. \A r \in Swap, z \in {"accepted", "declined"} :
            /\ [r EXCEPT !.status = z] \in Swap
            /\ [r EXCEPT !.status = z].give = r.give /\ [r EXCEPT !.status = z].get = r.get
      BY DEF Swap
    <3>2. \A j \in Pending(d) : d.swap[j] \in Swap
      BY RowsOf DEF Pending
    <3>3. \A j \in others : j \in Pending(d)
      BY DEF others
    <3>4. \A j \in Pending(d) : d.swap[j] # NoRow
      BY DEF Pending, Requests
    <3>5. QED
      BY <2>3, <3>1, <3>2, <3>3, <3>4, RowsOf
  <2>7. e \in Data
    BY <2>4, <2>5, <2>6, RowsOf DEF Data
  <2>8. \A j \in Requests(d) : d.swap[j].give \in Slot /\ d.swap[j].get \in Slot
    BY RowsOf DEF Swap
  <2>9. QED
    BY <2>4, <2>5, <2>6, <2>7, <2>8 DEF ForeignKeys, Requests
<1>3. CASE e \in Declined(d)
  <2>1. PICK i \in Pending(d) : e = [d EXCEPT !.swap = [@ EXCEPT ![i].status = "declined"]]
    BY <1>3 DEF Declined
  <2>2. i \in SwapId /\ d.swap[i] \in Swap /\ d.swap[i] # NoRow
    BY RowsOf DEF Pending, Requests
  <2>3. PICK new : new = [d.swap[i] EXCEPT !.status = "declined"]
    OBVIOUS
  <2>4. new \in Swap /\ new.give = d.swap[i].give /\ new.get = d.swap[i].get
    BY <2>2, <2>3 DEF Swap
  <2>5. PICK swap : swap = [d.swap EXCEPT ![i] = new]
    OBVIOUS
  <2>6. e = [seat |-> d.seat, swap |-> swap, role |-> d.role]
    BY <2>1, <2>3, <2>5, RowsOf DEF DataShape
  <2>7. /\ swap \in [SwapId -> Swap \union {NoRow}]
        /\ \A j \in SwapId : swap[j] = IF j = i THEN new ELSE d.swap[j]
    BY <2>4, <2>5, RowsOf
  <2>8. e \in Data
    BY <2>6, <2>7, RowsOf DEF Data
  <2>9. QED
    BY <2>2, <2>4, <2>6, <2>7, <2>8 DEF ForeignKeys
<1>4. QED
  BY <1>1, <1>2, <1>3 DEF ParentWrites

-----------------------------------------------------------------------------
(* What every token stands for.                                            *)

\* Some rows, perhaps never there all at once, that give the plan whose digest
\* is in the token and whose effect the reviewer was told.
StandsForAPlan(tok) ==
  \E seen \in Data : LET plan == PlanOf(tok.who, tok.act, seen) IN
    /\ plan # Refused
    /\ tok.digest = plan.digest
    /\ tok.effect = Effect(seen, plan.data)

ToldInv ==
  /\ data \in Data /\ ForeignKeys(data)
  /\ \A t \in Thread : At(t, "review") => job[t].seen \in Data
  /\ \A k \in TokenId : token[k] # None => StandsForAPlan(token[k])

\* A mixture of rows is rows.
LEMMA MixedRows ==
  ASSUME NEW d \in Data, NEW e \in Data, NEW f \in Mixes(d, e)
  PROVE  f \in Data
<1>1. PICK S, I, P :
        f = [seat |-> [s \in Slot |-> IF s \in S THEN e.seat[s] ELSE d.seat[s]],
             swap |-> [i \in SwapId |-> IF i \in I THEN e.swap[i] ELSE d.swap[i]],
             role |-> (d.role \ P) \union (e.role \intersect P)]
  BY DEF Mixes
<1>2. [s \in Slot |-> IF s \in S THEN e.seat[s] ELSE d.seat[s]] \in [Slot -> Seat \union {Gone}]
  BY RowsOf
<1>3. [i \in SwapId |-> IF i \in I THEN e.swap[i] ELSE d.swap[i]] \in [SwapId -> Swap \union {NoRow}]
  BY RowsOf
<1>4. (d.role \ P) \union (e.role \intersect P) \in SUBSET Person
  BY RowsOf
<1>5. QED
  BY <1>1, <1>2, <1>3, <1>4 DEF Data

\* The rows stay rows.
LEMMA DataStaysRows ==
  ASSUME IInv, data \in Data, ForeignKeys(data), [Next]_vars
  PROVE  data' \in Data /\ ForeignKeys(data')
<1>1. CASE \E t \in Thread : Commit(t)
  <2>1. PICK t \in Thread : Commit(t)
    BY <1>1
  <2>2. /\ job[t].act \in Act /\ job[t].plan = PlanOf(job[t].who, job[t].act, data)
        /\ job[t].plan # Refused /\ data' = job[t].plan.data
    BY <2>1, CommitKnows
  <2>3. job[t].plan.data \in Data /\ ForeignKeys(job[t].plan.data)
    BY <2>2, PlanRows
  <2>4. QED
    BY <2>2, <2>3, Zenon
<1>2. CASE ParentWrite
  <2>1. data' \in ParentWrites(data)
    BY <1>2 DEF ParentWrite
  <2>2. PICK e \in ParentWrites(data) : data' = e
    BY <2>1
  <2>3. e \in Data /\ ForeignKeys(e)
    BY ParentRows
  <2>4. QED
    BY <2>2, <2>3, Zenon
<1>3. CASE data' = data
  BY <1>3, Zenon
<1>4. QED
  BY <1>1, <1>2, <1>3, OtherSteps

\* What a review reads is rows.
LEMMA SeenIsRows ==
  ASSUME IInv, ToldInv, [Next]_vars, NEW u \in Thread, At(u, "review")'
  PROVE  job'[u].seen \in Data
<1>1. ASSUME NEW t \in Thread, NEW j, job' = [job EXCEPT ![t] = j],
             j.pc = "review" => j.seen \in Data
      PROVE  job'[u].seen \in Data
  <2>1. job' = [v \in Thread |-> IF v = t THEN j ELSE job[v]]
    BY <1>1 DEF IInv
  <2>2. QED
    BY <1>1, <2>1 DEF ToldInv, At
<1>2. ASSUME NEW t \in Thread, Request(t)
      PROVE  job'[u].seen \in Data
  <2>1. JobOK(t) /\ (At(t, "review") => job[t].seen \in Data) /\ data \in Data
    BY DEF IInv, ToldInv
  <2>2. CASE \E who \in Person, act \in Act : ReviewBegin(t, who, act)
    <3>1. PICK who \in Person, act \in Act : ReviewBegin(t, who, act)
      BY <2>2
    <3>2. PICK j : j = [pc |-> "review", who |-> who, act |-> act, seen |-> data,
                        tok |-> None, digest |-> None, plan |-> None]
      OBVIOUS
    <3>3. job' = [job EXCEPT ![t] = j]
      BY <3>1, <3>2 DEF ReviewBegin
    <3>4. j.seen \in Data
      BY <2>1, <3>2
    <3>5. QED
      BY <1>1, <3>3, <3>4
  <2>3. CASE ReviewReadsOn(t)
    <3>1. PICK seen \in Mixes(job[t].seen, data) : job' = [job EXCEPT ![t].seen = seen]
      BY <2>3 DEF ReviewReadsOn
    <3>2. PICK j : j = [job[t] EXCEPT !.seen = seen]
      OBVIOUS
    <3>3. job' = [job EXCEPT ![t] = j]
      BY <3>1, <3>2 DEF IInv
    <3>4. seen \in Data
      BY <2>1, <2>3, MixedRows DEF ReviewReadsOn
    <3>5. j.seen = seen
      BY <2>1, <3>2 DEF JobOK, JobShape
    <3>6. QED
      BY <1>1, <3>3, <3>4, <3>5
  <2>4. CASE \E k \in TokenId : ApplyBegin(t, k)
    <3>1. PICK k \in TokenId : ApplyBegin(t, k)
      BY <2>4
    <3>2. PICK j : j = [pc |-> "lock", who |-> token[k].who, act |-> token[k].act, seen |-> None,
                        tok |-> k, digest |-> token[k].digest, plan |-> None]
      OBVIOUS
    <3>3. job' = [job EXCEPT ![t] = j]
      BY <3>1, <3>2 DEF ApplyBegin
    <3>4. j.pc # "review"
      BY <3>2
    <3>5. QED
      BY <1>1, <3>3, <3>4
  <2>5. CASE PreviewBegin(t) \/ TakeLock(t) \/ Commit(t)
    <3>1. PICK pc \in {"rendering", "plan", "mail"} : job' = [job EXCEPT ![t].pc = pc]
      BY <2>5 DEF PreviewBegin, TakeLock, Commit, Goto
    <3>2. PICK j : j = [job[t] EXCEPT !.pc = pc]
      OBVIOUS
    <3>3. job' = [job EXCEPT ![t] = j]
      BY <3>1, <3>2 DEF IInv
    <3>4. j.pc # "review"
      BY <2>1, <3>1, <3>2 DEF JobOK, JobShape
    <3>5. QED
      BY <1>1, <3>3, <3>4
  <2>6. CASE Replan(t)
    <3>1. PICK plan : job' = [job EXCEPT ![t].pc = "write", ![t].plan = plan]
      BY <2>6 DEF Replan
    <3>2. PICK i : i = [job[t] EXCEPT !.pc = "write"]
      OBVIOUS
    <3>3. PICK j : j = [i EXCEPT !.plan = plan]
      OBVIOUS
    <3>4. j.pc = "write"
      BY <2>1, <3>2, <3>3 DEF JobOK, JobShape
    <3>5. j = [job[t] EXCEPT !.pc = "write", !.plan = plan]
      BY <3>2, <3>3, Zenon
    <3>6. job' = [job EXCEPT ![t] = j]
      BY <3>1, <3>5 DEF IInv
    <3>7. QED
      BY <1>1, <3>4, <3>6
  <2>7. CASE ReviewEnd(t)
    <3>1. PICK j : j = [Idle EXCEPT !.pc = "preview"]
      OBVIOUS
    <3>2. job' = [job EXCEPT ![t] = j] /\ j.pc = "preview"
      BY <2>7, <3>1 DEF ReviewEnd, Idle
    <3>3. QED
      BY <1>1, <3>2
  <2>8. CASE ReviewRefused(t) \/ PreviewEnd(t) \/ PreviewSkipped(t) \/ Busy(t)
             \/ StalePlan(t) \/ WriteFails(t) \/ AfterCommit(t)
    <3>1. job' = [job EXCEPT ![t] = Idle]
      BY <2>8 DEF ReviewRefused, PreviewEnd, PreviewSkipped, Busy, StalePlan, WriteFails,
                  AfterCommit, Release, Return
    <3>2. QED
      BY <1>1, <3>1, IdleShape
  <2>9. QED
    BY <1>2, <2>2, <2>3, <2>4, <2>5, <2>6, <2>7, <2>8 DEF Request
<1>3. CASE Restart
  BY <1>3, IdleShape DEF Restart, At
<1>4. CASE UNCHANGED job
  BY <1>4 DEF ToldInv, At
<1>5. QED
  BY <1>2, <1>3, <1>4 DEF Next, ParentWrite, vars

\* A token is signed for the plan that was shown.
LEMMA TokensTellTheTruth ==
  ASSUME IInv, ToldInv, [Next]_vars, NEW k \in TokenId, token'[k] # None
  PROVE  StandsForAPlan(token'[k])
<1>1. CASE UNCHANGED token
  BY <1>1 DEF ToldInv
<1>2. CASE \E t \in Thread : ReviewEnd(t)
  <2>1. PICK t \in Thread : ReviewEnd(t)
    BY <1>2
  <2>2. PICK plan : plan = PlanOf(job[t].who, job[t].act, job[t].seen)
    OBVIOUS
  <2>3. PICK new : new = NewToken(job[t], plan)
    OBVIOUS
  <2>4. PICK i \in TokenId : token' = [token EXCEPT ![i] = new]
    BY <2>1, <2>2, <2>3 DEF ReviewEnd
  <2>5. job[t].seen \in Data /\ plan # Refused
    BY <2>1, <2>2 DEF ReviewEnd, ToldInv
  <2>6. /\ new.who = job[t].who /\ new.act = job[t].act /\ new.digest = plan.digest
        /\ new.effect = Effect(job[t].seen, plan.data)
    BY <2>3 DEF NewToken
  <2>7. StandsForAPlan(new)
    BY <2>2, <2>5, <2>6, Zenon DEF StandsForAPlan
  <2>8. token'[k] = new \/ token'[k] = token[k]
    BY <2>4 DEF IInv, TokensOK
  <2>9. QED
    BY <2>7, <2>8 DEF ToldInv
<1>3. QED
  <2>1. ASSUME NEW t \in Thread, Request(t), ~ReviewEnd(t)
        PROVE  UNCHANGED token
    BY <2>1 DEF Request, ReviewBegin, ReviewReadsOn, ReviewRefused, PreviewBegin,
                PreviewEnd, PreviewSkipped, ApplyBegin, TakeLock, Busy, Replan, StalePlan,
                Commit, WriteFails, AfterCommit
  <2>2. ASSUME ParentWrite \/ Restart \/ UNCHANGED vars
        PROVE  UNCHANGED token
    BY <2>2 DEF ParentWrite, Restart, vars
  <2>3. QED
    BY <1>1, <1>2, <2>1, <2>2 DEF Next

LEMMA ToldInvariance == Spec => []ToldInv
<1>1. Init => ToldInv
  <2>1. SUFFICES ASSUME Init PROVE ToldInv
    OBVIOUS
  <2>2. data \in Data /\ ForeignKeys(data)
    BY <2>1, PlansOK DEF Init
  <2>3. \A t \in Thread : ~At(t, "review")
    BY <2>1, IdleShape DEF Init, At
  <2>4. \A k \in TokenId : token[k] = None
    BY <2>1 DEF Init
  <2>5. QED
    BY <2>2, <2>3, <2>4 DEF ToldInv
<1>2. IInv /\ ToldInv /\ [Next]_vars => ToldInv'
  <2>1. SUFFICES ASSUME IInv, ToldInv, [Next]_vars PROVE ToldInv'
    OBVIOUS
  <2>2. data' \in Data /\ ForeignKeys(data')
    BY <2>1, DataStaysRows DEF ToldInv
  <2>3. \A t \in Thread : At(t, "review")' => job'[t].seen \in Data
    BY <2>1, SeenIsRows
  <2>4. \A k \in TokenId : token'[k] # None => StandsForAPlan(token'[k])
    BY <2>1, TokensTellTheTruth
  <2>5. QED
    BY <2>2, <2>3, <2>4 DEF ToldInv, ForeignKeys
<1>3. QED
  BY <1>1, <1>2, Invariance, PTL DEF Spec

\* Every commit does to the rows exactly what the reviewer of its token was
\* told, although the review may have read the rows at different moments and
\* other people may have written in between.
THEOREM DoesWhatWasReviewed == Spec => AppliedAsReviewed
<1>1. ASSUME IInv, ToldInv, NEW t \in Thread, Commit(t)
      PROVE  Effect(data, data') = token[job[t].tok].effect
  <2>1. /\ job[t].act \in Act
        /\ job[t].plan = PlanOf(job[t].who, job[t].act, data) /\ job[t].plan # Refused
        /\ data' = job[t].plan.data
    BY <1>1, CommitKnows
  <2>2. BoundToToken(job[t]) /\ job[t].plan.digest = job[t].digest
    BY <1>1 DEF Commit, IInv, JobOK, At
  <2>3. PICK tok : tok = token[job[t].tok]
    OBVIOUS
  <2>4. /\ tok.who = job[t].who /\ tok.act = job[t].act /\ tok.digest = job[t].plan.digest
        /\ StandsForAPlan(tok)
    BY <1>1, <2>2, <2>3 DEF BoundToToken, ToldInv
  <2>5. PICK seen \in Data :
          /\ PlanOf(tok.who, tok.act, seen) # Refused
          /\ tok.digest = PlanOf(tok.who, tok.act, seen).digest
          /\ tok.effect = Effect(seen, PlanOf(tok.who, tok.act, seen).data)
    BY <2>4 DEF StandsForAPlan
  <2>6. PICK q : q = PlanOf(job[t].who, job[t].act, seen)
    OBVIOUS
  <2>7. q # Refused /\ q.digest = job[t].plan.digest /\ tok.effect = Effect(seen, q.data)
    BY <2>4, <2>5, <2>6
  <2>8. data \in Data
    BY <1>1 DEF ToldInv
  <2>9. Effect(data, job[t].plan.data) = Effect(seen, q.data)
    BY <2>1, <2>6, <2>7, <2>8, DigestDecides
  <2>10. QED
    BY <2>1, <2>3, <2>7, <2>9, Zenon
<1>2. IInv /\ ToldInv /\ [Next]_vars =>
        [\A t \in Thread : Commit(t) => Effect(data, data') = token[job[t].tok].effect]_vars
  BY <1>1
<1>3. QED
  BY <1>2, Invariance, ToldInvariance, PTL DEF Spec, AppliedAsReviewed

=============================================================================
