------------------------------ MODULE Access_proofs ------------------------------
(***************************************************************************)
(* LoginLinks and AdminDoor for any people, links, teams, keys, threads    *)
(* and limits: a spent link lets nobody in and an inbox is not flooded;    *)
(* an action is run only for a caller with a key (or session) and the      *)
(* right to the team; and a caller gets no more requests through in a      *)
(* window than the limit and two overlaps.                                 *)
(***************************************************************************)
EXTENDS AdminDoor, FiniteSetTheorems, SequenceTheorems, TLAPS

\* A row has a link's fields, and NoLink is not one.
LEMMA RowTypes ==
  ASSUME LoginTypes, NEW l \in Rows
  PROVE  l \in Link /\ link[l] \in LinkRow /\ link[l] # NoLink
BY DEF LoginTypes, Rows

\* The link a handler holds is a row.
LEMMA Held ==
  ASSUME LoginTypes, NEW t \in Thread, req[t].at \in HoldsLink
  PROVE  req[t].link \in Rows
BY DEF LoginTypes

\* One thread goes on to its next step, or answers.
LEMMA StepTypes ==
  ASSUME LoginTypes, NEW t \in Thread, NEW r \in Request,
         req' = [req EXCEPT ![t] = r],
         r.at \in HoldsLink => r.link \in Rows',
         link' \in [Link -> LinkRow \union {NoLink}],
         Rows \subseteq Rows', signed' \subseteq Person
  PROVE  LoginTypes'
<1>1. req' \in [Thread -> Request]
  BY DEF LoginTypes
<1>2. ASSUME NEW u \in Thread, req'[u].at \in HoldsLink
      PROVE  req'[u].link \in Rows'
  <2>1. CASE u = t
    BY <1>2, <2>1 DEF LoginTypes
  <2>2. CASE u # t
    BY <1>2, <2>2 DEF LoginTypes
  <2>3. QED
    BY <2>1, <2>2
<1>3. QED
  BY <1>1, <1>2 DEF LoginTypes

LEMMA IdleIsRequest == [at |-> "idle"] \in Request /\ "idle" \notin HoldsLink
BY DEF Request, Waiting, HoldsLink

\* Every step keeps the types.
LEMMA LoginStepTypes == LoginTypes /\ [LoginNext]_loginVars => LoginTypes'
<1> SUFFICES ASSUME LoginTypes, [LoginNext]_loginVars PROVE LoginTypes'
  OBVIOUS
<1> USE LoginOK
<1>1. ASSUME NEW t \in Thread, NEW p \in Person, AskTooSoon(t, p) PROVE LoginTypes'
  BY <1>1 DEF AskTooSoon, TurnAway, LoginTypes, Rows
<1>2. ASSUME NEW t \in Thread, NEW p \in Person, Ask(t, p) PROVE LoginTypes'
  <2>1. [at |-> "issue", for |-> p] \in Request
    BY DEF Request
  <2>2. Rows' = Rows /\ link' = link /\ signed' = signed
    BY <1>2 DEF Ask, Rows
  <2>3. QED
    BY <1>2, <2>1, <2>2, StepTypes DEF Ask, LoginTypes, HoldsLink
<1>3. ASSUME NEW t \in Thread, Issue(t) PROVE LoginTypes'
  <2>1. PICK l \in Link : /\ link[l] = NoLink
                          /\ link' = [link EXCEPT ![l] = NewLink(req[t].for)]
                          /\ req' = [req EXCEPT ![t] = [at |-> "mail", link |-> l]]
    BY <1>3 DEF Issue
  <2>2. req[t].for \in Person
    <3>1. req[t] \in Request /\ req[t].at = "issue"
      BY <1>3 DEF Issue, LoginTypes
    <3>2. QED
      BY <3>1 DEF Request, Waiting
  <2>3. NewLink(req[t].for) \in LinkRow
    BY <2>2 DEF NewLink, LinkRow
  <2>4. NewLink(req[t].for) # NoLink
    BY <2>3 DEF LinkRow
  <2>5. link' \in [Link -> LinkRow \union {NoLink}]
    BY <2>1, <2>3 DEF LoginTypes
  <2>6. Rows \subseteq Rows' /\ l \in Rows'
    BY <2>1, <2>4 DEF Rows, LoginTypes
  <2>7. [at |-> "mail", link |-> l] \in Request
    BY DEF Request
  <2>8. signed' \subseteq Person
    BY <1>3 DEF Issue, LoginTypes
  <2>9. QED
    BY <2>1, <2>5, <2>6, <2>7, <2>8, StepTypes
<1>4. ASSUME NEW t \in Thread, Mail(t) PROVE LoginTypes'
  <2> DEFINE l == req[t].link
  <2>1. l \in Rows
    BY <1>4, Held DEF Mail, HoldsLink
  <2>2. link[l] \in LinkRow /\ l \in Link
    BY <2>1, RowTypes
  <2>3. [link[l] EXCEPT !.mailed = TRUE] \in LinkRow
    BY <2>2 DEF LinkRow
  <2>4. link' = [link EXCEPT ![l] = [link[l] EXCEPT !.mailed = TRUE]]
    BY <1>4 DEF Mail
  <2>5. [link[l] EXCEPT !.mailed = TRUE] # NoLink
    BY <2>3 DEF LinkRow
  <2>6. link' \in [Link -> LinkRow \union {NoLink}] /\ Rows \subseteq Rows'
    BY <2>2, <2>3, <2>4, <2>5 DEF LoginTypes, Rows
  <2>7. req' = [req EXCEPT ![t] = [at |-> "idle"]] /\ signed' = signed
    BY <1>4 DEF Mail, Answer
  <2>8. QED
    BY <2>6, <2>7, StepTypes, IdleIsRequest DEF LoginTypes
<1>5. ASSUME NEW t \in Thread, MailFails(t) PROVE LoginTypes'
  <2>1. req' = [req EXCEPT ![t] = [at |-> "idle"]] /\ signed' = signed /\ link' = link
    BY <1>5 DEF MailFails, Answer
  <2>2. Rows' = Rows
    BY <2>1 DEF Rows
  <2>3. QED
    BY <2>1, <2>2, StepTypes, IdleIsRequest DEF LoginTypes
<1>6. ASSUME NEW t \in Thread, NEW l \in Link, Click(t, l) PROVE LoginTypes'
  <2>1. [at |-> "consume", link |-> l] \in Request
    BY DEF Request
  <2>2. Rows' = Rows /\ link' = link /\ signed' = signed /\ l \in Rows
    BY <1>6 DEF Click, Rows
  <2>3. QED
    BY <1>6, <2>1, <2>2, StepTypes DEF Click, LoginTypes
<1>7. ASSUME NEW t \in Thread, Consume(t) PROVE LoginTypes'
  <2> DEFINE l == req[t].link
  <2>1. l \in Rows /\ req[t] \in Request /\ req[t].at = "consume"
    BY <1>7, Held DEF Consume, HoldsLink, LoginTypes
  <2>2. link[l] \in LinkRow /\ l \in Link
    BY <2>1, RowTypes
  <2>3. [link[l] EXCEPT !.used = TRUE] \in LinkRow
    BY <2>2 DEF LinkRow
  <2>4. link' = [link EXCEPT ![l] = [link[l] EXCEPT !.used = TRUE]]
    BY <1>7 DEF Consume
  <2>5. [link[l] EXCEPT !.used = TRUE] # NoLink
    BY <2>3 DEF LinkRow
  <2>6. link' \in [Link -> LinkRow \union {NoLink}] /\ Rows \subseteq Rows'
    BY <2>2, <2>3, <2>4, <2>5 DEF LoginTypes, Rows
  <2>7. [req[t] EXCEPT !.at = "welcome"] = [at |-> "welcome", link |-> l]
    BY <2>1 DEF Request, Waiting
  <2>8. [at |-> "welcome", link |-> l] \in Request
    BY <2>2 DEF Request
  <2>9. req' = [req EXCEPT ![t] = [at |-> "welcome", link |-> l]] /\ signed' = signed
    BY <1>7, <2>7 DEF Consume
  <2>10. QED
    BY <2>1, <2>6, <2>8, <2>9, StepTypes DEF LoginTypes
<1>8. ASSUME NEW t \in Thread, SignIn(t) PROVE LoginTypes'
  <2>1. req[t].link \in Rows
    BY <1>8, Held DEF SignIn, HoldsLink
  <2>2. link[req[t].link].for \in Person
    BY <2>1, RowTypes DEF LinkRow
  <2>3. /\ req' = [req EXCEPT ![t] = [at |-> "idle"]] /\ link' = link
        /\ signed' \subseteq Person
    BY <1>8, <2>2 DEF SignIn, Answer, LoginTypes
  <2>4. Rows' = Rows
    BY <2>3 DEF Rows
  <2>5. QED
    BY <2>3, <2>4, StepTypes, IdleIsRequest DEF LoginTypes
<1>9. ASSUME NEW p \in Person, LoseCookie(p) PROVE LoginTypes'
  BY <1>9 DEF LoseCookie, LoginTypes, Rows
<1>10. ASSUME Pass PROVE LoginTypes'
  <2>1. ASSUME NEW l \in Link
        PROVE  link'[l] = NoLink \/ (l \in Rows /\ link'[l] \in LinkRow)
    <3>1. CASE l \notin Rows \/ (link[l].left <= 0 /\ ~InUse(l))
      BY <1>10, <3>1 DEF Pass
    <3>2. CASE l \in Rows /\ ~(link[l].left <= 0 /\ ~InUse(l))
      <4>1. link'[l] = [link[l] EXCEPT !.left = IF @ < 0 THEN @ ELSE @ - 1]
        BY <1>10, <3>2 DEF Pass
      <4>2. link[l] \in LinkRow
        BY <3>2, RowTypes
      <4>3. QED
        BY <3>2, <4>1, <4>2 DEF LinkRow
    <3>3. QED
      BY <3>1, <3>2
  <2>2. link' \in [Link -> LinkRow \union {NoLink}]
    BY <1>10, <2>1 DEF Pass
  <2>3. ASSUME NEW t \in Thread, req[t].at \in HoldsLink PROVE req[t].link \in Rows'
    <3> DEFINE l == req[t].link
    <3>1. l \in Rows /\ InUse(l)
      BY <2>3, Held DEF InUse
    <3>2. l \in Link /\ link[l] \in LinkRow
      BY <3>1, RowTypes
    <3>3. link'[l] = [link[l] EXCEPT !.left = IF @ < 0 THEN @ ELSE @ - 1]
      BY <1>10, <3>1, <3>2 DEF Pass
    <3>4. link'[l] \in LinkRow
      BY <3>2, <3>3 DEF LinkRow
    <3>5. link'[l] # NoLink
      BY <3>4 DEF LinkRow
    <3>6. QED
      BY <3>2, <3>5 DEF Rows
  <2>4. req' = req /\ signed' = signed
    BY <1>10 DEF Pass
  <2>5. QED
    BY <2>2, <2>3, <2>4 DEF LoginTypes
<1>11. ASSUME Crash PROVE LoginTypes'
  BY <1>11, IdleIsRequest DEF Crash, LoginTypes, Rows
<1>12. CASE UNCHANGED loginVars
  BY <1>12 DEF loginVars, LoginTypes, Rows
<1>13. QED
  BY <1>1, <1>2, <1>3, <1>4, <1>5, <1>6, <1>7, <1>8, <1>9, <1>10, <1>11, <1>12 DEF LoginNext

LEMMA LoginInitTypes == LoginInit => LoginTypes
BY IdleIsRequest DEF LoginInit, LoginTypes, Rows

\* The rows keep their types, and a handler never holds a link that is
\* forgotten: what it writes after a pause, it writes to a row that is there.
THEOREM LinksAreRows == LoginSpec => []LoginTypes
BY LoginInitTypes, LoginStepTypes, PTL DEF LoginSpec

-----------------------------------------------------------------------------
(* Spent links.                                                            *)

\* A spent link stays spent while its row keeps its use and does not get
\* younger, and no thread starts to use it.
LEMMA StaysSpent ==
  ASSUME NEW l, Spent(l), l \in Rows',
         link[l].used => link'[l].used,
         link[l].left < 0 => link'[l].left < 0,
         \A t \in Thread : req'[t].at \in {"consume", "welcome"} =>
           \/ req'[t].link # l
           \/ req[t].at \in {"consume", "welcome"} /\ req[t].link = l
  PROVE  Spent(l)'
BY DEF Spent

\* A link that was used, or has run out, never lets anybody in again once the
\* clicks that overlapped the first one have been answered.  A click only
\* goes on if the link is good, and nothing makes a spent link good again.
THEOREM SpentForGood == LoginSpec => SpentStaysSpent
<1> DEFINE Kept == \A l \in Link : Spent(l) => Spent(l)' \/ link'[l] = NoLink
<1>1. LoginTypes /\ [LoginNext]_loginVars => [Kept]_loginVars
  <2>1. SUFFICES ASSUME LoginTypes, LoginNext, NEW l \in Link, Spent(l), link'[l] # NoLink
                 PROVE  Spent(l)'
    OBVIOUS
  <2>2. l \in Rows /\ link[l] \in LinkRow
    BY <2>1, RowTypes DEF Spent
  <2>3. l \in Rows'
    BY <2>1 DEF Rows
  <2>4. ASSUME link'[l] = link[l],
               NEW t \in Thread, NEW r, req' = [req EXCEPT ![t] = r],
               r.at \in {"consume", "welcome"} =>
                 r.link # l \/ (req[t].at \in {"consume", "welcome"} /\ req[t].link = l)
        PROVE  Spent(l)'
    BY <2>1, <2>3, <2>4, StaysSpent DEF LoginTypes
  <2>5. ASSUME NEW t \in Thread, NEW p \in Person, AskTooSoon(t, p) PROVE Spent(l)'
    BY <2>1, <2>3, <2>5, StaysSpent DEF AskTooSoon, TurnAway
  <2>6. ASSUME NEW t \in Thread, NEW p \in Person, Ask(t, p) PROVE Spent(l)'
    BY <2>4, <2>6 DEF Ask
  <2>7. ASSUME NEW t \in Thread, Issue(t) PROVE Spent(l)'
    <3>1. PICK m \in Link : /\ link[m] = NoLink
                            /\ link' = [link EXCEPT ![m] = NewLink(req[t].for)]
                            /\ req' = [req EXCEPT ![t] = [at |-> "mail", link |-> m]]
      BY <2>7 DEF Issue
    <3>2. link'[l] = link[l]
      BY <2>1, <2>2, <3>1 DEF LoginTypes, Rows
    <3>3. QED
      BY <2>4, <3>1, <3>2
  <2>8. ASSUME NEW t \in Thread, Mail(t) PROVE Spent(l)'
    <3>1. link'[l].used = link[l].used /\ link'[l].left = link[l].left
      BY <2>1, <2>2, <2>8 DEF Mail, LoginTypes, LinkRow
    <3>2. req' = [req EXCEPT ![t] = [at |-> "idle"]]
      BY <2>8 DEF Mail, Answer
    <3>3. QED
      BY <2>1, <2>3, <3>1, <3>2, StaysSpent DEF LoginTypes
  <2>9. ASSUME NEW t \in Thread, MailFails(t) PROVE Spent(l)'
    BY <2>4, <2>9 DEF MailFails, Answer
  <2>10. ASSUME NEW t \in Thread, NEW m \in Link, Click(t, m) PROVE Spent(l)'
    <3>1. Good(m) /\ link' = link /\ req' = [req EXCEPT ![t] = [at |-> "consume", link |-> m]]
      BY <2>10 DEF Click
    <3>2. m # l
      BY <2>1, <2>2, <3>1 DEF Good, Spent, LinkRow
    <3>3. QED
      BY <2>4, <3>1, <3>2
  <2>11. ASSUME NEW t \in Thread, Consume(t) PROVE Spent(l)'
    <3>1. /\ req[t] \in Request /\ req[t].at = "consume"
          /\ link' = [link EXCEPT ![req[t].link].used = TRUE]
          /\ req' = [req EXCEPT ![t].at = "welcome"]
      BY <2>1, <2>11 DEF Consume, LoginTypes
    <3>2. req[t].link # l
      BY <2>1, <3>1 DEF Spent
    <3>3. [req[t] EXCEPT !.at = "welcome"] = [at |-> "welcome", link |-> req[t].link]
      BY <3>1 DEF Request, Waiting
    <3>4. link'[l] = link[l] /\ req' = [req EXCEPT ![t] = [at |-> "welcome", link |-> req[t].link]]
      BY <2>1, <3>1, <3>2, <3>3 DEF LoginTypes
    <3>5. QED
      BY <2>4, <3>2, <3>4
  <2>12. ASSUME NEW t \in Thread, SignIn(t) PROVE Spent(l)'
    BY <2>4, <2>12 DEF SignIn, Answer
  <2>13. ASSUME NEW p \in Person, LoseCookie(p) PROVE Spent(l)'
    BY <2>1, <2>3, <2>13, StaysSpent DEF LoseCookie
  <2>14. ASSUME Pass PROVE Spent(l)'
    <3>1. link'[l] = [link[l] EXCEPT !.left = IF @ < 0 THEN @ ELSE @ - 1]
      BY <2>1, <2>14 DEF Pass
    <3>2. link'[l].used = link[l].used /\ (link[l].left < 0 => link'[l].left < 0)
      BY <2>2, <3>1 DEF LinkRow
    <3>3. QED
      BY <2>1, <2>3, <2>14, <3>2, StaysSpent DEF Pass
  <2>15. ASSUME Crash PROVE Spent(l)'
    BY <2>1, <2>3, <2>15, StaysSpent DEF Crash
  <2>16. QED
    BY <2>1, <2>5, <2>6, <2>7, <2>8, <2>9, <2>10, <2>11, <2>12, <2>13, <2>14, <2>15
       DEF LoginNext
<1>2. QED
  BY <1>1, LoginInitTypes, LoginStepTypes, PTL DEF LoginSpec, SpentStaysSpent

-----------------------------------------------------------------------------
(* Links a minute.                                                         *)

\* Sets of links and of requests that gain or lose one element.
LEMMA AtMostOneMore ==
  ASSUME NEW S, IsFiniteSet(S), NEW x, NEW T \in SUBSET (S \cup {x})
  PROVE  /\ IsFiniteSet(T) /\ Cardinality(T) \in Nat /\ Cardinality(S) \in Nat
         /\ Cardinality(T) <= Cardinality(S) + 1
<1>1. /\ IsFiniteSet(S \cup {x})
      /\ Cardinality(S \cup {x}) = IF x \in S THEN Cardinality(S) ELSE Cardinality(S) + 1
  BY FS_AddElement
<1>2. IsFiniteSet(T) /\ Cardinality(T) <= Cardinality(S \cup {x})
  BY <1>1, FS_Subset
<1>3. Cardinality(T) \in Nat /\ Cardinality(S) \in Nat
  BY <1>2, FS_CardinalityType
<1>4. QED
  BY <1>1, <1>2, <1>3

LEMMA AtLeastOneFewer ==
  ASSUME NEW S, IsFiniteSet(S), NEW x \in S, NEW T \in SUBSET (S \ {x})
  PROVE  /\ IsFiniteSet(T) /\ Cardinality(T) \in Nat /\ Cardinality(S) \in Nat
         /\ Cardinality(T) <= Cardinality(S) - 1
<1>1. IsFiniteSet(S \ {x}) /\ Cardinality(S \ {x}) = Cardinality(S) - 1
  BY FS_RemoveElement
<1>2. IsFiniteSet(T) /\ Cardinality(T) <= Cardinality(S \ {x})
  BY <1>1, FS_Subset
<1>3. Cardinality(T) \in Nat /\ Cardinality(S) \in Nat
  BY <1>2, FS_CardinalityType
<1>4. QED
  BY <1>1, <1>2, <1>3

\* The requests that have found no recent link of p and will issue one.
Issuing(p) == {t \in Thread : req[t].at = "issue" /\ req[t].for = p}

\* Every recent link was issued by a request that overlapped the first, and
\* those still to come must leave room for themselves.
FewInv ==
  \A p \in Person :
    /\ IsFiniteSet(Recent(p))
    /\ Cardinality(Recent(p)) + Cardinality(Issuing(p)) <= Cardinality(Thread)

LEMMA IssuingFinite ==
  ASSUME NEW p
  PROVE  IsFiniteSet(Issuing(p)) /\ Cardinality(Issuing(p)) \in Nat
BY LoginOK, FS_Subset, FS_CardinalityType DEF Issuing

\* Nothing was issued and nobody has decided to issue.
LEMMA FewKept ==
  ASSUME FewInv, \A p \in Person : Recent(p)' \subseteq Recent(p) /\ Issuing(p)' \subseteq Issuing(p)
  PROVE  FewInv'
<1> SUFFICES ASSUME NEW p \in Person
             PROVE  /\ IsFiniteSet(Recent(p)')
                    /\ Cardinality(Recent(p)') + Cardinality(Issuing(p)') <= Cardinality(Thread)
  BY DEF FewInv
<1>1. IsFiniteSet(Recent(p)') /\ Cardinality(Recent(p)') <= Cardinality(Recent(p))
  BY FS_Subset DEF FewInv
<1>2. Cardinality(Issuing(p)') <= Cardinality(Issuing(p))
  BY IssuingFinite, FS_Subset
<1>3. /\ Cardinality(Recent(p)) \in Nat /\ Cardinality(Recent(p)') \in Nat
      /\ Cardinality(Issuing(p)) \in Nat /\ Cardinality(Thread) \in Nat
  BY <1>1, IssuingFinite, LoginOK, FS_CardinalityType DEF FewInv
<1>4. IsFiniteSet(Issuing(p)') /\ Cardinality(Issuing(p)') \in Nat
  BY IssuingFinite, FS_Subset, FS_CardinalityType
<1>5. Cardinality(Recent(p)) + Cardinality(Issuing(p)) <= Cardinality(Thread)
  BY DEF FewInv
<1>6. QED
  BY <1>1, <1>2, <1>3, <1>4, <1>5

\* A link keeps its age, and one thread goes on to something else than issuing.
LEMMA FewElsewhere ==
  ASSUME LoginTypes, FewInv, NEW t \in Thread, NEW r, r.at # "issue",
         req' = [req EXCEPT ![t] = r],
         \A l \in Rows' : /\ l \in Rows /\ link'[l].for = link[l].for
                          /\ link'[l].left = link[l].left
  PROVE  FewInv'
<1>1. \A p \in Person : Recent(p)' \subseteq Recent(p)
  BY DEF Recent
<1>2. \A p \in Person : Issuing(p)' \subseteq Issuing(p)
  BY DEF Issuing, LoginTypes
<1>3. QED
  BY <1>1, <1>2, FewKept

LEMMA FewAsk ==
  ASSUME LoginTypes, FewInv, NEW t \in Thread, NEW p \in Person, Ask(t, p)
  PROVE  FewInv'
<1>1. /\ Recent(p) = {} /\ link' = link /\ req[t].at = "idle"
      /\ req' = [req EXCEPT ![t] = [at |-> "issue", for |-> p]]
  BY DEF Ask
<1>2. \A q \in Person : Recent(q)' = Recent(q)
  BY <1>1 DEF Recent, Rows
<1>3. ASSUME NEW q \in Person, q # p
      PROVE  Issuing(q)' = Issuing(q)
  BY <1>1, <1>3 DEF Issuing, LoginTypes
<1>4. Cardinality(Recent(p)') = 0
  BY <1>1, <1>2, FS_EmptySet
<1>5. Cardinality(Issuing(p)') <= Cardinality(Thread) /\ Cardinality(Issuing(p)') \in Nat
  BY LoginOK, FS_Subset, FS_CardinalityType DEF Issuing
<1>6. Cardinality(Thread) \in Nat
  BY LoginOK, FS_CardinalityType
<1>7. Cardinality(Recent(p)') + Cardinality(Issuing(p)') <= Cardinality(Thread)
  BY <1>4, <1>5, <1>6
<1>8. ASSUME NEW q \in Person
      PROVE  /\ IsFiniteSet(Recent(q)')
             /\ Cardinality(Recent(q)') + Cardinality(Issuing(q)') <= Cardinality(Thread)
  <2>1. CASE q = p
    BY <1>2, <1>7, <2>1 DEF FewInv
  <2>2. CASE q # p
    BY <1>2, <1>3, <2>2 DEF FewInv
  <2>3. QED
    BY <2>1, <2>2
<1>9. QED
  BY <1>8 DEF FewInv

\* One more link, and one request fewer that will issue one.
LEMMA FewIssue ==
  ASSUME LoginTypes, FewInv, NEW t \in Thread, Issue(t), NEW p, p = req[t].for
  PROVE  FewInv'
<1>1. PICK l \in Link : /\ link[l] = NoLink
                        /\ link' = [link EXCEPT ![l] = NewLink(p)]
                        /\ req' = [req EXCEPT ![t] = [at |-> "mail", link |-> l]]
  BY DEF Issue
<1>2. p \in Person /\ req[t].at = "issue"
  BY DEF Issue, LoginTypes, Request, Waiting
<1>3. ASSUME NEW q \in Person, q # p
      PROVE  Recent(q)' \subseteq Recent(q) /\ Issuing(q)' \subseteq Issuing(q)
  BY <1>1, <1>3 DEF Recent, Rows, Issuing, NewLink, LoginTypes
<1>4. Recent(p)' \subseteq Recent(p) \cup {l}
  BY <1>1, <1>2 DEF Recent, Rows, LoginTypes
<1>5. Issuing(p)' \subseteq Issuing(p) \ {t} /\ t \in Issuing(p)
  BY <1>1, <1>2 DEF Issuing, LoginTypes
<1>6. IsFiniteSet(Recent(p)) /\ Cardinality(Recent(p)) \in Nat
  BY <1>2, FS_CardinalityType DEF FewInv
<1>7. /\ IsFiniteSet(Recent(p)') /\ Cardinality(Recent(p)') \in Nat
      /\ Cardinality(Recent(p)') <= Cardinality(Recent(p)) + 1
  BY <1>4, <1>6, AtMostOneMore
<1>8. /\ Cardinality(Issuing(p)') \in Nat /\ Cardinality(Issuing(p)) \in Nat
      /\ Cardinality(Issuing(p)') <= Cardinality(Issuing(p)) - 1
  BY <1>5, IssuingFinite, AtLeastOneFewer
<1>9. Cardinality(Recent(p)) + Cardinality(Issuing(p)) <= Cardinality(Thread)
  BY <1>2 DEF FewInv
<1>10. Cardinality(Thread) \in Nat
  BY LoginOK, FS_CardinalityType
<1>11. Cardinality(Recent(p)') + Cardinality(Issuing(p)') <= Cardinality(Thread)
  BY <1>6, <1>7, <1>8, <1>9, <1>10
<1>12. ASSUME NEW q \in Person, q # p
       PROVE  /\ IsFiniteSet(Recent(q)')
              /\ Cardinality(Recent(q)') + Cardinality(Issuing(q)') <= Cardinality(Thread)
  <2>1. /\ IsFiniteSet(Recent(q)) /\ Cardinality(Recent(q)) \in Nat
        /\ Cardinality(Recent(q)) + Cardinality(Issuing(q)) <= Cardinality(Thread)
    BY FS_CardinalityType DEF FewInv
  <2>2. /\ IsFiniteSet(Recent(q)') /\ Cardinality(Recent(q)') \in Nat
        /\ Cardinality(Recent(q)') <= Cardinality(Recent(q))
    BY <1>3, <1>12, <2>1, FS_Subset, FS_CardinalityType
  <2>3. /\ Cardinality(Issuing(q)) \in Nat /\ Cardinality(Issuing(q)') \in Nat
        /\ Cardinality(Issuing(q)') <= Cardinality(Issuing(q))
    BY <1>3, <1>12, IssuingFinite, FS_Subset, FS_CardinalityType
  <2>4. QED
    BY <1>10, <2>1, <2>2, <2>3
<1>13. QED
  BY <1>7, <1>11, <1>12 DEF FewInv

LEMMA FewStep == LoginTypes /\ FewInv /\ [LoginNext]_loginVars => FewInv'
<1> SUFFICES ASSUME LoginTypes, FewInv, [LoginNext]_loginVars PROVE FewInv'
  OBVIOUS
<1>1. ASSUME UNCHANGED link, \A p \in Person : Issuing(p)' \subseteq Issuing(p) PROVE FewInv'
  <2>1. \A p \in Person : Recent(p)' = Recent(p)
    BY <1>1 DEF Recent, Rows
  <2>2. QED
    BY <1>1, <2>1, FewKept
<1>2. ASSUME NEW t \in Thread, Mail(t) \/ MailFails(t) \/ SignIn(t) PROVE FewInv'
  <2>1. req' = [req EXCEPT ![t] = [at |-> "idle"]]
    BY <1>2 DEF Mail, MailFails, SignIn, Answer
  <2>2. req[t].link \in Link /\ link[req[t].link] \in LinkRow /\ req[t].link \in Rows
    BY <1>2, Held, RowTypes DEF Mail, MailFails, SignIn, HoldsLink
  <2>3. link' = link \/ link' = [link EXCEPT ![req[t].link] = [link[req[t].link] EXCEPT !.mailed = TRUE]]
    BY <1>2 DEF Mail, MailFails, SignIn
  <2>4. \A l \in Rows' : l \in Rows /\ link'[l].for = link[l].for /\ link'[l].left = link[l].left
    BY <2>2, <2>3 DEF Rows, LoginTypes, LinkRow
  <2>5. QED
    BY <2>1, <2>4, FewElsewhere
<1>3. ASSUME NEW t \in Thread, Consume(t) PROVE FewInv'
  <2>1. /\ req[t] \in Request /\ req[t].at = "consume"
        /\ req' = [req EXCEPT ![t] = [req[t] EXCEPT !.at = "welcome"]]
        /\ link' = [link EXCEPT ![req[t].link] = [link[req[t].link] EXCEPT !.used = TRUE]]
    BY <1>3 DEF Consume, LoginTypes
  <2> DEFINE r == [at |-> "welcome", link |-> req[t].link]
  <2>5. [req[t] EXCEPT !.at = "welcome"] = r
    BY <2>1 DEF Request, Waiting
  <2>2. req[t].link \in Link /\ link[req[t].link] \in LinkRow /\ req[t].link \in Rows
    BY <1>3, Held, RowTypes DEF Consume, HoldsLink
  <2>3. \A l \in Rows' : l \in Rows /\ link'[l].for = link[l].for /\ link'[l].left = link[l].left
    BY <2>1, <2>2 DEF Rows, LoginTypes, LinkRow
  <2>4. QED
    BY <2>1, <2>3, <2>5, FewElsewhere
<1>4. ASSUME NEW t \in Thread, NEW l \in Link, Click(t, l) PROVE FewInv'
  <2>1. link' = link /\ req' = [req EXCEPT ![t] = [at |-> "consume", link |-> l]]
    BY <1>4 DEF Click
  <2>2. QED
    BY <2>1, FewElsewhere DEF Rows
<1>5. ASSUME Pass PROVE FewInv'
  <2>1. ASSUME NEW p \in Person, NEW l \in Recent(p)' PROVE l \in Recent(p)
    <3>1. l \in Rows /\ link'[l] = [link[l] EXCEPT !.left = IF @ < 0 THEN @ ELSE @ - 1]
      BY <1>5, <2>1 DEF Pass, Recent, Rows
    <3>2. link[l] \in LinkRow
      BY <3>1, RowTypes
    <3>3. link'[l].for = link[l].for /\ link'[l].left <= link[l].left
          /\ link'[l].left \in Int /\ link[l].left \in Int
      BY <3>1, <3>2, LoginOK DEF LinkRow
    <3>4. link'[l].for = p /\ LinkLife - link'[l].left < AskGap
      BY <2>1 DEF Recent
    <3>5. QED
      BY <3>1, <3>3, <3>4, LoginOK DEF Recent
  <2>2. \A p \in Person : Issuing(p)' = Issuing(p)
    BY <1>5 DEF Pass, Issuing
  <2>3. QED
    BY <2>1, <2>2, FewKept
<1>6. ASSUME Crash PROVE FewInv'
  BY <1>1, <1>6 DEF Crash, Issuing
<1>7. ASSUME NEW t \in Thread, NEW p \in Person, AskTooSoon(t, p) PROVE FewInv'
  BY <1>1, <1>7 DEF AskTooSoon, TurnAway, Issuing
<1>8. ASSUME NEW p \in Person, LoseCookie(p) PROVE FewInv'
  BY <1>1, <1>8 DEF LoseCookie, Issuing
<1>9. CASE UNCHANGED loginVars
  BY <1>1, <1>9 DEF loginVars, Issuing
<1>10. QED
  BY <1>2, <1>3, <1>4, <1>5, <1>6, <1>7, <1>8, <1>9, FewAsk, FewIssue DEF LoginNext

LEMMA FewInit == LoginInit => FewInv
<1> SUFFICES ASSUME LoginInit, NEW p \in Person
             PROVE  /\ IsFiniteSet(Recent(p))
                    /\ Cardinality(Recent(p)) + Cardinality(Issuing(p)) <= Cardinality(Thread)
  BY DEF FewInv
<1>1. Recent(p) = {} /\ Issuing(p) = {}
  BY DEF LoginInit, Recent, Rows, Issuing
<1>2. Cardinality(Thread) \in Nat
  BY LoginOK, FS_CardinalityType
<1>3. QED
  BY <1>1, <1>2, FS_EmptySet

\* However often somebody asks, and whatever is lost or restarted meanwhile: a
\* minute brings an inbox at most one link for each request served at a time.
THEOREM InboxIsSpared == LoginSpec => []FewLinksAMinute
<1>1. LoginTypes /\ FewInv => FewLinksAMinute
  <2> SUFFICES ASSUME LoginTypes, FewInv, NEW p \in Person
               PROVE  Cardinality({l \in Rows : link[l].for = p /\ link[l].left > LinkLife - AskGap})
                        <= Cardinality(Thread)
    BY DEF FewLinksAMinute
  <2>1. \A l \in Rows : link[l].left \in Int
    BY RowTypes, LoginOK DEF LinkRow
  <2>2. {l \in Rows : link[l].for = p /\ link[l].left > LinkLife - AskGap} = Recent(p)
    BY <2>1, LoginOK DEF Recent
  <2>3. /\ Cardinality(Recent(p)) \in Nat /\ Cardinality(Issuing(p)) \in Nat
        /\ Cardinality(Recent(p)) + Cardinality(Issuing(p)) <= Cardinality(Thread)
    BY IssuingFinite, FS_CardinalityType DEF FewInv
  <2>4. Cardinality(Thread) \in Nat
    BY LoginOK, FS_CardinalityType
  <2>5. QED
    BY <2>2, <2>3, <2>4
<1>2. QED
  BY <1>1, LoginInitTypes, LoginStepTypes, FewInit, FewStep, PTL DEF LoginSpec

-----------------------------------------------------------------------------
(* Keys and rights.                                                        *)

Both == {"key", "right"}

Under == {"limit", "count", "append", "rights", "act"}

Call == [at : {"idle"}] \union [at : Under, who : Who, team : Team, stamp : 0 .. Delay]

\* How much of it a request has been seen to have, wherever it has come to:
\* the API looks for the key first and the right last, the pages for the right
\* at once.
Seen(r, h) ==
  \/ r.at = "idle"
  \/ r.at = "act" /\ h = Both
  \/ r.at \in {"limit", "count", "append"} /\ r.who \in Person /\ h = Both
  \/ r.at \in {"limit", "count", "append", "rights"} /\ r.who \in Key /\ "key" \in h

IInv ==
  /\ call \in [Thread -> Call]
  /\ had \in [Thread -> SUBSET Both]
  /\ \A c \in Thread : Seen(call[c], had[c])

\* What a request has been seen to have is not forgotten before it ends.
LEMMA Remembered ==
  ASSUME Remember, NEW c \in Thread, call'[c].at # "idle"
  PROVE  /\ call[c].at # "idle" => had'[c] = had[c] \union HasNow(call[c])'
         /\ call[c].at = "idle" => had'[c] = HasNow(call[c])'
BY DEF Remember

LEMMA HadTypes ==
  ASSUME IInv, Remember
  PROVE  had' \in [Thread -> SUBSET Both]
<1>1. \A c \in Thread : HasNow(call[c])' \subseteq Both
  BY DEF HasNow, Both
<1>2. QED
  BY <1>1 DEF IInv, Remember

LEMMA IdleIsCall == [at |-> "idle"] \in Call
BY DEF Call

\* A request that stays where it is, whatever the time it has been there.
LEMMA Unmoved ==
  ASSUME IInv, Remember, NEW c \in Thread, call'[c].at = call[c].at,
         call'[c].at # "idle" => call'[c].who = call[c].who
  PROVE  Seen(call'[c], had'[c])
<1>1. CASE call[c].at = "idle"
  BY <1>1 DEF Seen
<1>2. CASE call[c].at # "idle"
  <2>1. had[c] \subseteq had'[c] /\ had'[c] \subseteq Both /\ Seen(call[c], had[c])
    BY <1>2, Remembered, HadTypes DEF IInv
  <2>2. had[c] = Both => had'[c] = Both
    BY <2>1
  <2>3. QED
    BY <1>2, <2>1, <2>2 DEF Seen
<1>3. QED
  BY <1>1, <1>2

\* One thread's request goes on to r; the others stay where they are.
LEMMA StepInv ==
  ASSUME IInv, Remember, NEW c \in Thread, NEW r \in Call,
         call' = [call EXCEPT ![c] = r], Seen(r, had'[c])
  PROVE  IInv'
<1>1. call' \in [Thread -> Call]
  BY DEF IInv
<1>2. ASSUME NEW d \in Thread PROVE Seen(call'[d], had'[d])
  <2>1. CASE d = c
    BY <2>1 DEF IInv
  <2>2. CASE d # c
    BY <2>2, Unmoved DEF IInv
  <2>3. QED
    BY <2>1, <2>2
<1>3. QED
  BY <1>1, <1>2, HadTypes DEF IInv

\* The requests stay where they are.
LEMMA QuietInv ==
  ASSUME IInv, Remember, UNCHANGED call
  PROVE  IInv'
BY Unmoved, HadTypes DEF IInv

\* Time passes for the requests inside the limiter.
LEMMA LaterInv ==
  ASSUME IInv, Remember, Later
  PROVE  IInv'
<1>1. ASSUME NEW c \in Thread
      PROVE  /\ call'[c] \in Call /\ call'[c].at = call[c].at
             /\ call'[c].at # "idle" => call'[c].who = call[c].who
  <2>1. call[c] \in Call
    BY DEF IInv
  <2>2. CASE InLimiter(c)
    <3>1. call'[c] = [call[c] EXCEPT !.stamp = @ + 1] /\ call[c].stamp < Delay
      BY <2>2 DEF Later
    <3>2. /\ call[c].who \in Who /\ call[c].team \in Team /\ call[c].stamp \in 0 .. Delay
          /\ call[c].at \in Under
          /\ call[c] = [at |-> call[c].at, who |-> call[c].who, team |-> call[c].team,
                        stamp |-> call[c].stamp]
      BY <2>1, <2>2 DEF Call, InLimiter
    <3>3. call[c].stamp + 1 \in 0 .. Delay
      BY <3>1, <3>2, DoorOK
    <3>4. call'[c] = [at |-> call[c].at, who |-> call[c].who, team |-> call[c].team,
                      stamp |-> call[c].stamp + 1]
      BY <3>1, <3>2
    <3>5. QED
      BY <3>2, <3>3, <3>4 DEF Call
  <2>3. CASE ~InLimiter(c)
    BY <2>1, <2>3 DEF Later
  <2>4. QED
    BY <2>2, <2>3
<1>2. call' \in [Thread -> Call]
  BY <1>1 DEF Later
<1>3. QED
  BY <1>1, <1>2, Unmoved, HadTypes DEF IInv

\* A request under way keeps its caller and its team.
LEMMA UnderWay ==
  ASSUME IInv, NEW c \in Thread, call[c].at # "idle"
  PROVE  /\ call[c].at \in Under /\ call[c].who \in Who /\ call[c].team \in Team
         /\ call[c].stamp \in 0 .. Delay
BY DEF IInv, Call

LEMMA Moved ==
  ASSUME IInv, NEW c \in Thread, call[c].at # "idle",
         NEW at \in Under, NEW stamp \in 0 .. Delay, Step(c, at, stamp)
  PROVE  /\ call' = [call EXCEPT ![c] = [at |-> at, who |-> call[c].who, team |-> call[c].team,
                                         stamp |-> stamp]]
         /\ call'[c] = [at |-> at, who |-> call[c].who, team |-> call[c].team, stamp |-> stamp]
         /\ call'[c] \in Call /\ call'[c].at # "idle"
BY UnderWay DEF IInv, Call, Step, Under

LEMMA StepOn ==
  ASSUME IInv, Remember, NEW c \in Thread, call[c].at # "idle",
         NEW at \in Under, NEW stamp \in 0 .. Delay, Step(c, at, stamp),
         Seen(call'[c], had'[c])
  PROVE  IInv'
BY Moved, StepInv

LEMMA DoneInv ==
  ASSUME IInv, Remember, NEW c \in Thread, Done(c)
  PROVE  IInv'
BY StepInv, IdleIsCall DEF Done, Seen

-----------------------------------------------------------------------------
LEMMA AuthenticateInv ==
  ASSUME IInv, Remember, NEW c \in Thread, NEW k \in Key, NEW t \in Team, Authenticate(c, k, t)
  PROVE  IInv'
<1> DEFINE r == [at |-> "limit", who |-> k, team |-> t, stamp |-> 0]
<1>1. call' = [call EXCEPT ![c] = r] /\ call[c].at = "idle" /\ key' = key
  BY DEF Authenticate, Take
<1>2. call'[c] = r /\ r \in Call
  BY <1>1, DoorOK DEF IInv, Call, Who, Under
<1>3. ~key'[k].revoked /\ key'[k].left > 0
  BY <1>1 DEF Authenticate, Works
<1>4. "key" \in HasNow(call[c])'
  BY <1>2, <1>3 DEF HasNow
<1>5. had'[c] = HasNow(call[c])'
  BY <1>1, <1>2, Remembered
<1>6. Seen(r, had'[c])
  BY <1>4, <1>5 DEF Seen
<1>7. QED
  BY <1>1, <1>2, <1>6, StepInv

LEMMA RightsOnPageInv ==
  ASSUME IInv, Remember, NEW c \in Thread, NEW p \in Person, NEW t \in Team, RightsOnPage(c, p, t)
  PROVE  IInv'
<1> DEFINE r == [at |-> "limit", who |-> p, team |-> t, stamp |-> 0]
<1>1. /\ call' = [call EXCEPT ![c] = r] /\ call[c].at = "idle"
      /\ ansvarig' = ansvarig /\ clubAdmin' = clubAdmin
  BY DEF RightsOnPage, Take
<1>2. call'[c] = r /\ r \in Call
  BY <1>1, DoorOK DEF IInv, Call, Who, Under
<1>3. p \in clubAdmin' \/ <<p, t>> \in ansvarig'
  BY <1>1 DEF RightsOnPage, AdminTeams
<1>4. Both \subseteq HasNow(call[c])'
  BY <1>2, <1>3 DEF HasNow, Owner, Both
<1>5. had'[c] = HasNow(call[c])' /\ had'[c] \subseteq Both
  BY <1>1, <1>2, Remembered, HadTypes
<1>6. Seen(r, had'[c])
  BY <1>4, <1>5 DEF Seen
<1>7. QED
  BY <1>1, <1>2, <1>6, StepInv

\* The limiter looks at nobody's rights: a request has seen as much after it.
LEMMA StillSeen ==
  ASSUME IInv, Remember, NEW c \in Thread, call[c].at # "idle", call'[c].at # "idle"
  PROVE  /\ "key" \in had[c] => "key" \in had'[c]
         /\ had[c] = Both => had'[c] = Both
BY Remembered, HadTypes DEF Both

LEMMA ReadClockInv ==
  ASSUME IInv, Remember, NEW c \in Thread, ReadClock(c)
  PROVE  IInv'
<1>1. call[c].at = "limit" /\ Step(c, "count", 0) /\ 0 \in 0 .. Delay /\ "count" \in Under
  BY DoorOK DEF ReadClock, Under
<1>2. call'[c] = [at |-> "count", who |-> call[c].who, team |-> call[c].team, stamp |-> 0]
  BY <1>1, Moved
<1>3. Seen(call'[c], had'[c])
  BY <1>1, <1>2, StillSeen DEF IInv, Seen
<1>4. QED
  BY <1>1, <1>3, StepOn

LEMMA CompareInv ==
  ASSUME IInv, Remember, NEW c \in Thread, Compare(c)
  PROVE  IInv'
<1>1. call[c].at = "count" /\ call[c].stamp \in 0 .. Delay /\ "append" \in Under
  BY UnderWay DEF Compare, Under
<1>2. CASE Done(c)
  BY <1>2, DoneInv
<1>3. CASE Step(c, "append", call[c].stamp)
  <2>1. call'[c] = [at |-> "append", who |-> call[c].who, team |-> call[c].team,
                    stamp |-> call[c].stamp]
    BY <1>1, <1>3, Moved
  <2>2. Seen(call'[c], had'[c])
    BY <1>1, <2>1, StillSeen DEF IInv, Seen
  <2>3. QED
    BY <1>1, <1>3, <2>2, StepOn
<1>4. QED
  BY <1>2, <1>3 DEF Compare

LEMMA LetThroughInv ==
  ASSUME IInv, Remember, NEW c \in Thread, LetThrough(c)
  PROVE  IInv'
<1> DEFINE at == IF call[c].who \in Key THEN "rights" ELSE "act"
<1>1. call[c].at = "append" /\ Step(c, at, 0) /\ 0 \in 0 .. Delay
  BY DoorOK DEF LetThrough
<1>2. at \in Under
  BY DEF Under
<1>3. call'[c].at = at /\ call'[c].who = call[c].who /\ call'[c].at # "idle"
  <2> HIDE DEF at
  <2>1. /\ call'[c] = [at |-> at, who |-> call[c].who, team |-> call[c].team, stamp |-> 0]
        /\ call'[c].at # "idle"
    BY <1>1, <1>2, Moved
  <2>2. QED
    BY <2>1
<1>4. \/ call[c].who \in Key /\ "key" \in had'[c]
      \/ call[c].who \notin Key /\ had'[c] = Both
  BY <1>1, <1>3, StillSeen, DoorOK DEF IInv, Seen, Both
<1>5. Seen(call'[c], had'[c])
  BY <1>3, <1>4 DEF Seen
<1> HIDE DEF at
<1>6. QED
  BY <1>1, <1>2, <1>5, StepOn

LEMMA RightsByKeyInv ==
  ASSUME IInv, Remember, NEW c \in Thread, RightsByKey(c)
  PROVE  IInv'
<1>1. call[c].at = "rights" /\ 0 \in 0 .. Delay /\ "act" \in Under
  BY DoorOK DEF RightsByKey, Under
<1>2. CASE Done(c)
  BY <1>2, DoneInv
<1>3. CASE /\ call[c].team \in AdminTeams(Owner(call[c].who))
           /\ Step(c, "act", 0)
  <2>1. call'[c] = [at |-> "act", who |-> call[c].who, team |-> call[c].team, stamp |-> 0]
    BY <1>1, <1>3, Moved
  <2>2. ansvarig' = ansvarig /\ clubAdmin' = clubAdmin /\ key' = key
    BY DEF RightsByKey
  <2>3. "right" \in HasNow(call[c])'
    BY <1>3, <2>1, <2>2 DEF HasNow, AdminTeams, Owner
  <2>4. "key" \in had'[c]
    BY <1>1, <2>1, StillSeen DEF IInv, Seen
  <2>5. had'[c] = Both
    BY <1>1, <2>1, <2>3, <2>4, Remembered, HadTypes DEF Both
  <2>6. Seen(call'[c], had'[c])
    BY <2>1, <2>5 DEF Seen
  <2>7. QED
    BY <1>1, <1>3, <2>6, StepOn
<1>4. QED
  BY <1>2, <1>3 DEF RightsByKey

-----------------------------------------------------------------------------
LEMMA DoorStep == IInv /\ DoorNext => IInv'
<1> SUFFICES ASSUME IInv, DoorNext PROVE IInv'
  OBVIOUS
<1>1. Remember
  BY DEF DoorNext
<1>2. ASSUME NEW c \in Thread, Serve(c) PROVE IInv'
  <2>1. ASSUME Act(c) PROVE IInv'
    BY <1>1, <2>1, DoneInv DEF Act
  <2>2. ASSUME Prune(c) PROVE IInv'
    BY <1>1, <2>2, QuietInv DEF Prune
  <2>3. QED
    BY <1>1, <1>2, <2>1, <2>2, AuthenticateInv, RightsOnPageInv, ReadClockInv, CompareInv,
       LetThroughInv, RightsByKeyInv DEF Serve
<1>3. ASSUME NEW p \in Person, NEW k \in Key, CreateKey(k, p) \/ RevokeKey(k, p) PROVE IInv'
  BY <1>1, <1>3, QuietInv DEF CreateKey, RevokeKey
<1>4. ASSUME NEW p \in Person, NEW t \in Team, AddAnsvarig(p, t) \/ RemoveAnsvarig(p, t)
      PROVE IInv'
  BY <1>1, <1>4, QuietInv DEF AddAnsvarig, RemoveAnsvarig
<1>5. ASSUME Later PROVE IInv'
  BY <1>1, <1>5, LaterInv
<1>6. ASSUME NEW config \in Config, Restart(config) PROVE IInv'
  BY <1>1, <1>6, IdleIsCall, HadTypes DEF Restart, IInv, Seen
<1>7. QED
  BY <1>2, <1>3, <1>4, <1>5, <1>6 DEF DoorNext

\* What each request must have been seen to have, at every moment.
LEMMA DoorSeen == AccessSpec => []IInv
<1>1. DoorInit => IInv
  BY IdleIsCall DEF DoorInit, IInv, Seen
<1>2. IInv /\ [(LoginNext /\ UNCHANGED doorVars) \/ DoorNext]_accessVars => IInv'
  <2>1. IInv /\ UNCHANGED doorVars => IInv'
    BY DEF IInv, doorVars
  <2>2. QED
    BY <2>1, DoorStep DEF accessVars
<1>3. QED
  BY <1>1, <1>2, PTL DEF AccessSpec

\* Whatever keys run out or are revoked, whoever becomes or stops being
\* ansvarig, and however requests overlap: nothing is run for somebody who
\* never had both the key and the right while the request lasted.
THEOREM RightsHeld == AccessSpec => []NoActWithoutRights
<1>1. IInv => NoActWithoutRights
  BY DEF IInv, NoActWithoutRights, Seen, Both
<1>2. QED
  BY <1>1, DoorSeen, PTL

-----------------------------------------------------------------------------
(* The limiter.                                                            *)

Hits == Seq(0 .. Window + Delay)
Backs == 0 .. Window - 1
Count == [came : Nat, late : Nat]

\* The hits of the last b + 1 moments.
Since(h, b) == {i \in DOMAIN h : h[i] <= b}

LEMMA Numbers ==
  /\ Window \in Nat \ {0} /\ Delay \in Nat /\ Limit \in Nat \ {0} /\ Cardinality(Thread) \in Nat
  /\ Backs \subseteq Nat
BY DoorOK, LoginOK, FS_CardinalityType DEF Backs

LEMMA HitFacts ==
  ASSUME NEW h \in Hits
  PROVE  /\ Len(h) \in Nat /\ DOMAIN h = 1 .. Len(h)
         /\ \A i \in 1 .. Len(h) : h[i] \in Nat /\ h[i] <= Window + Delay
<1>1. Len(h) \in Nat /\ DOMAIN h = 1 .. Len(h)
  BY DEF Hits
<1>2. \A i \in 1 .. Len(h) : h[i] \in 0 .. Window + Delay
  BY ElementOfSeq DEF Hits
<1>3. QED
  BY <1>1, <1>2, Numbers

LEMMA SinceFinite ==
  ASSUME NEW h \in Hits, NEW b
  PROVE  /\ IsFiniteSet(Since(h, b)) /\ Cardinality(Since(h, b)) \in Nat
         /\ Cardinality(Since(h, b)) <= Len(h)
<1>1. Len(h) \in Nat /\ Since(h, b) \in SUBSET (1 .. Len(h))
  BY HitFacts DEF Since
<1>2. /\ IsFiniteSet(1 .. Len(h))
      /\ Cardinality(1 .. Len(h)) = IF 1 > Len(h) THEN 0 ELSE Len(h) - 1 + 1
  BY <1>1, FS_Interval
<1>3. IsFiniteSet(Since(h, b)) /\ Cardinality(Since(h, b)) <= Cardinality(1 .. Len(h))
  BY <1>1, <1>2, FS_Subset
<1>4. QED
  BY <1>1, <1>2, <1>3, FS_CardinalityType

\* A hit that is dropped was not one of them.
LEMMA SinceTail ==
  ASSUME NEW h \in Hits, h # <<>>, NEW b \in Nat, Head(h) > b
  PROVE  /\ Tail(h) \in Hits
         /\ Cardinality(Since(h, b)) <= Cardinality(Since(Tail(h), b))
<1>1. /\ Tail(h) \in Hits /\ Len(Tail(h)) = Len(h) - 1
      /\ \A i \in 1 .. Len(Tail(h)) : Tail(h)[i] = h[i + 1]
  BY HeadTailProperties DEF Hits
<1>2. Head(h) = h[1] /\ Len(h) \in Nat
  BY HitFacts
<1> DEFINE f == [i \in Since(h, b) |-> i - 1]
<1>3. ASSUME NEW i \in Since(h, b)
      PROVE  i \in Nat /\ i - 1 \in Since(Tail(h), b)
  <2>1. i \in 1 .. Len(h) /\ h[i] <= b /\ h[i] \in Nat
    BY HitFacts DEF Since
  <2>2. i # 1
    BY <1>2, <2>1
  <2>3. i - 1 \in 1 .. Len(Tail(h)) /\ i - 1 + 1 = i
    BY <1>1, <1>2, <2>1, <2>2
  <2>4. Tail(h)[i - 1] = h[i]
    BY <1>1, <2>3
  <2>5. DOMAIN Tail(h) = 1 .. Len(Tail(h))
    BY <1>1, HitFacts
  <2>6. QED
    BY <2>1, <2>3, <2>4, <2>5 DEF Since
<1>4. f \in [Since(h, b) -> Since(Tail(h), b)]
  BY <1>3
<1>5. ASSUME Cardinality(Since(Tail(h), b)) < Cardinality(Since(h, b)) PROVE FALSE
  <2>1. IsFiniteSet(Since(h, b)) /\ IsFiniteSet(Since(Tail(h), b))
    BY <1>1, SinceFinite
  <2>2. \E x, y \in Since(h, b) : x # y /\ f[x] = f[y]
    <3> HIDE DEF f
    <3>1. QED
      BY <1>4, <1>5, <2>1, FS_PigeonHole
  <2>3. QED
    BY <1>3, <2>2
<1>6. QED
  BY <1>1, <1>5, SinceFinite

LEMMA SinceAppend ==
  ASSUME NEW h \in Hits, NEW b \in Nat, NEW s \in 0 .. Delay
  PROVE  /\ Append(h, s) \in Hits
         /\ Cardinality(Since(Append(h, s), b)) =
              Cardinality(Since(h, b)) + (IF s <= b THEN 1 ELSE 0)
<1>1. s \in 0 .. Window + Delay
  BY Numbers
<1>2. /\ Append(h, s) \in Hits /\ Len(Append(h, s)) = Len(h) + 1
      /\ Append(h, s)[Len(h) + 1] = s
      /\ \A i \in 1 .. Len(h) : Append(h, s)[i] = h[i]
  BY <1>1, AppendProperties DEF Hits
<1>3. DOMAIN Append(h, s) = 1 .. Len(h) + 1 /\ DOMAIN h = 1 .. Len(h) /\ Len(h) \in Nat
  BY <1>2, HitFacts
<1>4. Since(Append(h, s), b) = IF s <= b THEN Since(h, b) \cup {Len(h) + 1} ELSE Since(h, b)
  BY <1>2, <1>3 DEF Since
<1>5. Len(h) + 1 \notin Since(h, b)
  BY <1>3 DEF Since
<1>6. Cardinality(Since(h, b) \cup {Len(h) + 1}) = Cardinality(Since(h, b)) + 1
  BY <1>5, SinceFinite, FS_AddElement
<1>7. QED
  BY <1>2, <1>4, <1>6, SinceFinite

\* A moment later they are the hits of one moment more.
LEMMA SinceOlder ==
  ASSUME NEW h \in Hits
  PROVE  /\ Older(h) \in Hits
         /\ \A b \in Backs \ {0} : Since(Older(h), b) = Since(h, b - 1)
<1>1. /\ Len(h) \in Nat /\ DOMAIN h = 1 .. Len(h)
      /\ \A i \in 1 .. Len(h) : h[i] \in Nat /\ h[i] <= Window + Delay
  BY HitFacts
<1>2. Older(h) = [i \in 1 .. Len(h) |-> IF h[i] < Window + Delay THEN h[i] + 1 ELSE h[i]]
  BY <1>1 DEF Older
<1>3. \A i \in 1 .. Len(h) : (IF h[i] < Window + Delay THEN h[i] + 1 ELSE h[i]) \in 0 .. Window + Delay
  BY <1>1, Numbers
<1>4. Older(h) \in Hits /\ DOMAIN Older(h) = 1 .. Len(h)
  BY <1>1, <1>2, <1>3 DEF Hits
<1>5. ASSUME NEW b \in Backs \ {0} PROVE Since(Older(h), b) = Since(h, b - 1)
  <2>1. b \in Nat /\ b < Window + Delay
    BY Numbers DEF Backs
  <2>2. \A i \in 1 .. Len(h) : Older(h)[i] <= b <=> h[i] <= b - 1
    BY <1>1, <1>2, <2>1, Numbers
  <2>3. QED
    BY <1>1, <1>4, <2>2 DEF Since
<1>6. QED
  BY <1>4, <1>5

\* The requests that were let through and are about to be noted down, and the
\* requests that are still to be let through or not: those that read the clock
\* in the last b + 1 moments, and those that read it before.
Passing(w, b) ==
  {c \in Thread : call[c].at = "append" /\ call[c].who = w /\ call[c].stamp <= b}
Overdue(b) == {c \in Thread : call[c].at = "count" /\ call[c].stamp > b}

\* A request is let through only while there is room among the hits, so those
\* that came lately are few; and one that came before was under way all the
\* time since, so those are on different threads.
LimitInv ==
  /\ hits \in [Who -> Hits] /\ let \in [Who -> [Backs -> Count]]
  /\ \A w \in Who, b \in Backs :
       /\ let[w][b].came <= Cardinality(Since(hits[w], b)) + Cardinality(Passing(w, b))
       /\ let[w][b].came <= Limit + Cardinality(Thread) - 1
       /\ let[w][b].late + Cardinality(Overdue(b)) <= Cardinality(Thread)

LEMMA ThreadsFinite ==
  ASSUME NEW S \in SUBSET Thread
  PROVE  IsFiniteSet(S) /\ Cardinality(S) \in Nat /\ Cardinality(S) <= Cardinality(Thread)
BY LoginOK, FS_Subset, FS_CardinalityType

LEMMA SomeThreads ==
  ASSUME NEW w, NEW b
  PROVE  /\ Passing(w, b) \in SUBSET Thread /\ Overdue(b) \in SUBSET Thread
         /\ Passing(w, b)' \in SUBSET Thread /\ Overdue(b)' \in SUBSET Thread
BY DEF Passing, Overdue

LEMMA Larger ==
  ASSUME NEW S \in SUBSET Thread, NEW T \in SUBSET S
  PROVE  Cardinality(T) <= Cardinality(S)
BY ThreadsFinite, FS_Subset

LEMMA CountTypes ==
  ASSUME LimitInv, NEW w \in Who, NEW b \in Backs
  PROVE  let[w][b] \in Count /\ let[w][b].came \in Nat /\ let[w][b].late \in Nat
BY DEF LimitInv, Count

\* The counts as they were; nobody is lost among the hits, and nobody found who
\* came long ago.
LEMMA LimitKept ==
  ASSUME LimitInv, UNCHANGED let, hits' \in [Who -> Hits],
         \A w \in Who, b \in Backs :
           /\ Cardinality(Since(hits[w], b)) <= Cardinality(Since(hits'[w], b))
           /\ Passing(w, b) \subseteq Passing(w, b)' /\ Overdue(b)' \subseteq Overdue(b)
  PROVE  LimitInv'
<1>1. ASSUME NEW w \in Who, NEW b \in Backs
      PROVE  /\ let[w][b].came <= Cardinality(Since(hits'[w], b)) + Cardinality(Passing(w, b)')
             /\ let[w][b].came <= Limit + Cardinality(Thread) - 1
             /\ let[w][b].late + Cardinality(Overdue(b)') <= Cardinality(Thread)
  <2>1. /\ let[w][b].came <= Cardinality(Since(hits[w], b)) + Cardinality(Passing(w, b))
        /\ let[w][b].came <= Limit + Cardinality(Thread) - 1
        /\ let[w][b].late + Cardinality(Overdue(b)) <= Cardinality(Thread)
    BY DEF LimitInv
  <2>2. /\ Cardinality(Passing(w, b)) <= Cardinality(Passing(w, b)')
        /\ Cardinality(Overdue(b)') <= Cardinality(Overdue(b))
    BY SomeThreads, Larger
  <2>3. /\ Cardinality(Passing(w, b)) \in Nat /\ Cardinality(Passing(w, b)') \in Nat
        /\ Cardinality(Overdue(b)) \in Nat /\ Cardinality(Overdue(b)') \in Nat
    BY SomeThreads, ThreadsFinite
  <2>4. Cardinality(Since(hits[w], b)) \in Nat /\ Cardinality(Since(hits'[w], b)) \in Nat
    BY SinceFinite DEF LimitInv
  <2>5. Cardinality(Since(hits[w], b)) <= Cardinality(Since(hits'[w], b))
    OBVIOUS
  <2>6. QED
    BY <2>1, <2>2, <2>3, <2>4, <2>5, CountTypes, Numbers
<1>2. QED
  BY <1>1 DEF LimitInv

LEMMA NoneYet ==
  ASSUME NEW w
  PROVE  /\ <<>> \in Hits /\ Nobody \in [Backs -> Count]
         /\ \A b \in Backs : Nobody[b].came = 0 /\ Nobody[b].late = 0
BY DEF Hits, Nobody, Backs, Count

LEMMA LimitInit == DoorInit => LimitInv
<1> SUFFICES ASSUME DoorInit PROVE LimitInv
  OBVIOUS
<1>1. ASSUME NEW w \in Who, NEW b \in Backs
      PROVE  /\ 0 <= Cardinality(Since(<<>>, b)) + Cardinality(Passing(w, b))
             /\ 0 <= Limit + Cardinality(Thread) - 1
             /\ 0 + Cardinality(Overdue(b)) <= Cardinality(Thread)
  <2>1. Cardinality(Since(<<>>, b)) \in Nat
    BY NoneYet, SinceFinite
  <2>2. /\ Cardinality(Passing(w, b)) \in Nat /\ Cardinality(Overdue(b)) \in Nat
        /\ Cardinality(Overdue(b)) <= Cardinality(Thread)
    BY SomeThreads, ThreadsFinite
  <2>3. QED
    BY <2>1, <2>2, Numbers
<1>2. hits = [w \in Who |-> <<>>] /\ let = [w \in Who |-> Nobody]
  BY DEF DoorInit
<1>3. QED
  BY <1>1, <1>2, NoneYet DEF LimitInv

LEMMA RestartKeepsLimit ==
  ASSUME NEW config, Restart(config)
  PROVE  LimitInv'
<1>1. ASSUME NEW w \in Who, NEW b \in Backs
      PROVE  /\ 0 <= Cardinality(Since(<<>>, b)) + Cardinality(Passing(w, b)')
             /\ 0 <= Limit + Cardinality(Thread) - 1
             /\ 0 + Cardinality(Overdue(b)') <= Cardinality(Thread)
  BY NoneYet, SinceFinite, SomeThreads, ThreadsFinite, Numbers
<1>2. hits' = [w \in Who |-> <<>>] /\ let' = [w \in Who |-> Nobody]
  BY DEF Restart
<1>3. QED
  BY <1>1, <1>2, NoneYet DEF LimitInv

\* What is dropped is out of the window even for a clock read this moment.
LEMMA PruneKeepsLimit ==
  ASSUME IInv, LimitInv, NEW c \in Thread, Prune(c), NEW who, who = call[c].who
  PROVE  LimitInv'
<1>1. /\ who \in Who /\ hits[who] \in Hits /\ call[c].stamp \in Nat
      /\ OldFirst(hits[who], call[c].stamp)
      /\ hits' = [hits EXCEPT ![who] = Tail(hits[who])] /\ call' = call /\ let' = let
  BY UnderWay DEF Prune, LimitInv
<1>2. hits[who] # <<>> /\ Head(hits[who]) >= Window
  <2>1. hits[who] # <<>> /\ Head(hits[who]) - call[c].stamp >= Window
    BY <1>1 DEF OldFirst
  <2>2. Head(hits[who]) \in 0 .. Window + Delay
    BY <1>1, <2>1, HeadTailProperties DEF Hits
  <2>3. QED
    BY <1>1, <2>1, <2>2, Numbers
<1>3. ASSUME NEW b \in Backs
      PROVE  /\ Tail(hits[who]) \in Hits
             /\ Cardinality(Since(hits[who], b)) <= Cardinality(Since(Tail(hits[who]), b))
  <2>1. Head(hits[who]) \in 0 .. Window + Delay
    BY <1>1, <1>2, HeadTailProperties DEF Hits
  <2>2. b \in Nat /\ Head(hits[who]) > b
    BY <1>2, <2>1, Numbers DEF Backs
  <2>3. QED
    BY <1>1, <1>2, <2>2, SinceTail
<1>4. hits' \in [Who -> Hits]
  <2>1. 0 \in Backs
    BY Numbers DEF Backs
  <2>2. QED
    BY <1>1, <1>3, <2>1 DEF LimitInv
<1>5. ASSUME NEW w \in Who, NEW b \in Backs
      PROVE  Cardinality(Since(hits[w], b)) <= Cardinality(Since(hits'[w], b))
  <2>1. CASE w = who
    <3>1. hits'[w] = Tail(hits[who])
      BY <1>1, <2>1 DEF LimitInv
    <3>2. QED
      BY <1>3, <2>1, <3>1
  <2>2. CASE w # who
    <3>1. hits'[w] = hits[w]
      BY <1>1, <2>2 DEF LimitInv
    <3>2. Cardinality(Since(hits[w], b)) \in Nat
      BY SinceFinite DEF LimitInv
    <3>3. QED
      BY <3>1, <3>2
  <2>3. QED
    BY <2>1, <2>2
<1>6. \A w \in Who, b \in Backs : Passing(w, b)' = Passing(w, b) /\ Overdue(b)' = Overdue(b)
  BY <1>1 DEF Passing, Overdue
<1>7. QED
  BY <1>1, <1>4, <1>5, <1>6, LimitKept

\* One more was let through: it found fewer hits than the limit, and it is one
\* of the threads itself.
LEMMA RoomKeepsLimit ==
  ASSUME IInv, LimitInv, NEW c \in Thread, call[c].at = "count",
         NEW who, who = call[c].who, NEW s, s = call[c].stamp,
         Room(hits[who]), Step(c, "append", s),
         let' = [let EXCEPT ![who] = OneMore(let[who], s)], UNCHANGED hits
  PROVE  LimitInv'
<1>1. who \in Who /\ s \in 0 .. Delay /\ s \in Nat
  BY UnderWay, Numbers
<1>2. call' = [call EXCEPT ![c] = [at |-> "append", who |-> who, team |-> call[c].team, stamp |-> s]]
  BY DEF Step
<1>3. let[who] \in [Backs -> Count] /\ hits[who] \in Hits
  BY <1>1 DEF LimitInv
<1>4. OneMore(let[who], s) =
        [b \in Backs |-> IF s <= b THEN [let[who][b] EXCEPT !.came = @ + 1]
                                   ELSE [let[who][b] EXCEPT !.late = @ + 1]]
  BY <1>3 DEF OneMore
<1>5. ASSUME NEW b \in Backs
      PROVE  LET n == OneMore(let[who], s)[b] IN
             /\ n \in Count
             /\ n.came = let[who][b].came + (IF s <= b THEN 1 ELSE 0)
             /\ n.late = let[who][b].late + (IF s <= b THEN 0 ELSE 1)
  <2>1. let[who][b] \in Count /\ b \in Nat
    BY <1>1, CountTypes, Numbers
  <2>2. CASE s <= b
    <3>1. OneMore(let[who], s)[b] = [let[who][b] EXCEPT !.came = @ + 1]
      BY <1>4, <2>2
    <3>2. QED
      BY <2>1, <2>2, <3>1 DEF Count
  <2>3. CASE ~(s <= b)
    <3>1. OneMore(let[who], s)[b] = [let[who][b] EXCEPT !.late = @ + 1]
      BY <1>4, <2>3
    <3>2. QED
      BY <2>1, <2>3, <3>1 DEF Count
  <2>4. QED
    BY <2>2, <2>3
<1>6. let' \in [Who -> [Backs -> Count]]
  <2>1. OneMore(let[who], s) \in [Backs -> Count]
    BY <1>4, <1>5
  <2>2. QED
    BY <1>1, <2>1 DEF LimitInv
<1>7. ASSUME NEW w \in Who, NEW b \in Backs
      PROVE  /\ Passing(w, b)' = IF w = who /\ s <= b THEN Passing(w, b) \cup {c} ELSE Passing(w, b)
             /\ c \notin Passing(w, b)
             /\ Overdue(b)' = Overdue(b) \ {c}
             /\ s > b => c \in Overdue(b)
  BY <1>1, <1>2 DEF Passing, Overdue, IInv
<1>8. ASSUME NEW w \in Who, NEW b \in Backs
      PROVE  /\ let'[w][b].came <= Cardinality(Since(hits[w], b)) + Cardinality(Passing(w, b)')
             /\ let'[w][b].came <= Limit + Cardinality(Thread) - 1
             /\ let'[w][b].late + Cardinality(Overdue(b)') <= Cardinality(Thread)
  <2>1. /\ let[w][b].came <= Cardinality(Since(hits[w], b)) + Cardinality(Passing(w, b))
        /\ let[w][b].came <= Limit + Cardinality(Thread) - 1
        /\ let[w][b].late + Cardinality(Overdue(b)) <= Cardinality(Thread)
    BY DEF LimitInv
  <2>2. /\ Cardinality(Passing(w, b)) \in Nat /\ Cardinality(Overdue(b)) \in Nat
        /\ Cardinality(Passing(w, b)') \in Nat /\ Cardinality(Overdue(b)') \in Nat
        /\ IsFiniteSet(Passing(w, b)) /\ IsFiniteSet(Overdue(b))
        /\ Cardinality(Passing(w, b)') <= Cardinality(Thread)
    BY SomeThreads, ThreadsFinite
  <2>3. Cardinality(Passing(w, b) \cup {c}) = Cardinality(Passing(w, b)) + 1
    BY <1>7, <2>2, FS_AddElement
  <2>4. Cardinality(Overdue(b)') = IF c \in Overdue(b) THEN Cardinality(Overdue(b)) - 1
                                   ELSE Cardinality(Overdue(b))
    BY <1>7, <2>2, FS_RemoveElement
  <2>5. /\ Cardinality(Since(hits[w], b)) \in Nat /\ Cardinality(Since(hits[w], b)) <= Len(hits[w])
        /\ Len(hits[w]) \in Nat
    BY SinceFinite, HitFacts DEF LimitInv
  <2>6. let[w][b].came \in Nat /\ let[w][b].late \in Nat
    BY CountTypes
  <2>7. CASE w # who
    <3>1. let'[w][b] = let[w][b] /\ Passing(w, b)' = Passing(w, b)
      BY <1>7, <2>7 DEF LimitInv
    <3>2. QED
      BY <2>1, <2>2, <2>4, <2>6, <3>1, Numbers
  <2>8. CASE w = who /\ s <= b
    <3>1. let'[w][b].came = let[w][b].came + 1 /\ let'[w][b].late = let[w][b].late
      <4>1. let'[w][b] = OneMore(let[who], s)[b]
        BY <1>1, <2>8 DEF LimitInv
      <4>2. QED
        BY <1>5, <2>6, <2>8, <4>1
    <3>2. Cardinality(Passing(w, b)') = Cardinality(Passing(w, b)) + 1
      BY <1>7, <2>3, <2>8
    <3>3. Len(hits[w]) < Limit
      BY <2>8 DEF Room
    <3>4. let'[w][b].came <= Cardinality(Since(hits[w], b)) + Cardinality(Passing(w, b)')
      BY <2>1, <2>2, <2>5, <2>6, <3>1, <3>2
    <3>5. let'[w][b].came <= Limit + Cardinality(Thread) - 1
      <4>1. Limit \in Nat /\ Cardinality(Thread) \in Nat
        BY Numbers
      <4>2. Cardinality(Since(hits[w], b)) <= Limit - 1
        BY <2>5, <3>3, <4>1
      <4>3. Cardinality(Passing(w, b)) <= Cardinality(Thread) - 1
        BY <2>2, <3>2, <4>1
      <4>4. \A n, x, y, l, t \in Nat :
              n <= x + y /\ x <= l - 1 /\ y <= t - 1 => n + 1 <= l + t - 1
        OBVIOUS
      <4>5. let[w][b].came + 1 <= Limit + Cardinality(Thread) - 1
        BY <2>1, <2>2, <2>5, <2>6, <4>1, <4>2, <4>3, <4>4
      <4>6. QED
        BY <3>1, <4>5
    <3>6. let'[w][b].late + Cardinality(Overdue(b)') <= Cardinality(Thread)
      BY <2>1, <2>2, <2>4, <2>6, <3>1, Numbers
    <3>7. QED
      BY <3>4, <3>5, <3>6
  <2>9. CASE w = who /\ ~(s <= b)
    <3>1. let'[w][b].came = let[w][b].came /\ let'[w][b].late = let[w][b].late + 1
      <4>1. let'[w][b] = OneMore(let[who], s)[b]
        BY <1>1, <2>9 DEF LimitInv
      <4>2. QED
        BY <1>5, <2>6, <2>9, <4>1
    <3>2. Passing(w, b)' = Passing(w, b) /\ c \in Overdue(b)
      <4>1. s > b
        BY <1>1, <2>9, Numbers
      <4>2. QED
        BY <1>7, <2>9, <4>1
    <3>3. QED
      BY <2>1, <2>2, <2>4, <2>6, <3>1, <3>2, Numbers
  <2>10. QED
    BY <2>7, <2>8, <2>9
<1>9. QED
  BY <1>6, <1>8 DEF LimitInv

\* A reading is noted down: it was counted already.
LEMMA LetThroughKeepsLimit ==
  ASSUME IInv, LimitInv, NEW c \in Thread, LetThrough(c),
         NEW who, who = call[c].who, NEW s, s = call[c].stamp
  PROVE  LimitInv'
<1>1. who \in Who /\ s \in 0 .. Delay /\ s \in Nat /\ call[c].at = "append" /\ hits[who] \in Hits
  BY UnderWay, Numbers DEF LetThrough, LimitInv
<1>2. PICK at \in {"rights", "act"} :
        call' = [call EXCEPT ![c] = [at |-> at, who |-> who, team |-> call[c].team, stamp |-> 0]]
  BY DEF LetThrough, Step
<1>3. hits' = [hits EXCEPT ![who] = Append(hits[who], s)] /\ let' = let
  BY DEF LetThrough
<1>4. ASSUME NEW b \in Backs
      PROVE  /\ Append(hits[who], s) \in Hits
             /\ Cardinality(Since(Append(hits[who], s), b)) =
                  Cardinality(Since(hits[who], b)) + (IF s <= b THEN 1 ELSE 0)
  BY <1>1, SinceAppend, Numbers
<1>5. hits' \in [Who -> Hits]
  <2>1. 0 \in Backs
    BY Numbers DEF Backs
  <2>2. QED
    BY <1>1, <1>3, <1>4, <2>1 DEF LimitInv
<1>6. ASSUME NEW w \in Who, NEW b \in Backs
      PROVE  /\ Passing(w, b)' = Passing(w, b) \ {c}
             /\ c \in Passing(w, b) => w = who /\ s <= b
             /\ Overdue(b)' = Overdue(b)
  BY <1>1, <1>2 DEF Passing, Overdue, IInv
<1>7. ASSUME NEW w \in Who, NEW b \in Backs
      PROVE  /\ let[w][b].came <= Cardinality(Since(hits'[w], b)) + Cardinality(Passing(w, b)')
             /\ let[w][b].came <= Limit + Cardinality(Thread) - 1
             /\ let[w][b].late + Cardinality(Overdue(b)') <= Cardinality(Thread)
  <2>1. /\ let[w][b].came <= Cardinality(Since(hits[w], b)) + Cardinality(Passing(w, b))
        /\ let[w][b].came <= Limit + Cardinality(Thread) - 1
        /\ let[w][b].late + Cardinality(Overdue(b)) <= Cardinality(Thread)
    BY DEF LimitInv
  <2>2. Cardinality(Passing(w, b)) \in Nat /\ IsFiniteSet(Passing(w, b))
    BY SomeThreads, ThreadsFinite
  <2>3. Cardinality(Passing(w, b)') = IF c \in Passing(w, b) THEN Cardinality(Passing(w, b)) - 1
                                      ELSE Cardinality(Passing(w, b))
    BY <1>6, <2>2, FS_RemoveElement
  <2>4. Cardinality(Since(hits[w], b)) \in Nat /\ let[w][b].came \in Nat
    BY SinceFinite, CountTypes DEF LimitInv
  <2>5. CASE w = who
    <3>1. hits'[w] = Append(hits[who], s)
      BY <1>1, <1>3, <2>5 DEF LimitInv
    <3>2. Cardinality(Since(hits'[w], b)) = Cardinality(Since(hits[w], b)) + (IF s <= b THEN 1 ELSE 0)
      BY <1>4, <2>5, <3>1
    <3>3. QED
      BY <1>1, <1>6, <2>1, <2>2, <2>3, <2>4, <3>2, Numbers
  <2>6. CASE w # who
    <3>1. hits'[w] = hits[w]
      BY <1>1, <1>3, <2>6 DEF LimitInv
    <3>2. QED
      BY <1>6, <2>1, <2>3, <2>6, <3>1
  <2>7. QED
    BY <2>5, <2>6
<1>8. QED
  BY <1>3, <1>5, <1>7 DEF LimitInv

\* A moment later the last b + 1 moments are the b before, and this one.
LEMMA LaterKeepsLimit ==
  ASSUME IInv, LimitInv, Later
  PROVE  LimitInv'
<1>1. /\ hits' = [w \in Who |-> Older(hits[w])]
      /\ let' = [w \in Who |-> [b \in Backs |-> IF b = 0 THEN Nobody[0] ELSE let[w][b - 1]]]
  BY DEF Later, Backs
<1>2. \A b \in Backs \ {0} : b - 1 \in Backs
  BY Numbers DEF Backs
<1>3. Nobody[0] = [came |-> 0, late |-> 0] /\ Nobody[0] \in Count
  BY Numbers DEF Nobody, Count
<1>4. hits' \in [Who -> Hits] /\ let' \in [Who -> [Backs -> Count]]
  <2>1. \A w \in Who : Older(hits[w]) \in Hits
    BY SinceOlder DEF LimitInv
  <2>2. \A w \in Who, b \in Backs : (IF b = 0 THEN Nobody[0] ELSE let[w][b - 1]) \in Count
    BY <1>2, <1>3, CountTypes
  <2>3. QED
    BY <1>1, <2>1, <2>2
<1>5. ASSUME NEW w \in Who, NEW b \in Backs \ {0}
      PROVE  Passing(w, b)' = Passing(w, b - 1) /\ Overdue(b)' = Overdue(b - 1)
  <2>1. b \in Nat
    BY Numbers
  <2>2. ASSUME NEW c \in Thread, call[c].at \in {"count", "append"}
        PROVE  /\ call'[c].at = call[c].at /\ call'[c].who = call[c].who
               /\ call'[c].stamp = call[c].stamp + 1 /\ call[c].stamp \in Nat
    <3>1. call'[c] = [call[c] EXCEPT !.stamp = @ + 1]
      BY <2>2 DEF Later, InLimiter
    <3>2. call[c] \in Call /\ call[c].at # "idle"
      BY <2>2 DEF IInv
    <3>3. QED
      BY <3>1, <3>2, Numbers DEF Call
  <2>3. ASSUME NEW c \in Thread, call[c].at \notin {"count", "append"} PROVE call'[c] = call[c]
    BY <2>3 DEF Later, InLimiter
  <2>4. \A c \in Thread : c \in Passing(w, b)' <=> c \in Passing(w, b - 1)
    BY <2>1, <2>2, <2>3 DEF Passing
  <2>5. \A c \in Thread : c \in Overdue(b)' <=> c \in Overdue(b - 1)
    BY <2>1, <2>2, <2>3 DEF Overdue
  <2>6. QED
    BY <2>4, <2>5, SomeThreads
<1>6. ASSUME NEW w \in Who, NEW b \in Backs
      PROVE  /\ let'[w][b].came <= Cardinality(Since(hits'[w], b)) + Cardinality(Passing(w, b)')
             /\ let'[w][b].came <= Limit + Cardinality(Thread) - 1
             /\ let'[w][b].late + Cardinality(Overdue(b)') <= Cardinality(Thread)
  <2>1. CASE b = 0
    <3>1. let'[w][b].came = 0 /\ let'[w][b].late = 0
      BY <1>1, <1>3, <2>1
    <3>2. /\ Cardinality(Since(hits'[w], b)) \in Nat /\ Cardinality(Passing(w, b)') \in Nat
          /\ Cardinality(Overdue(b)') <= Cardinality(Thread) /\ Cardinality(Overdue(b)') \in Nat
      BY <1>4, SinceFinite, SomeThreads, ThreadsFinite
    <3>3. QED
      BY <3>1, <3>2, Numbers
  <2>2. CASE b # 0
    <3>1. let'[w][b] = let[w][b - 1] /\ b - 1 \in Backs
      BY <1>1, <1>2, <2>2
    <3>2. Since(hits'[w], b) = Since(hits[w], b - 1)
      BY <1>1, <2>2, SinceOlder DEF LimitInv
    <3>3. Passing(w, b)' = Passing(w, b - 1) /\ Overdue(b)' = Overdue(b - 1)
      BY <1>5, <2>2
    <3>4. QED
      BY <3>1, <3>2, <3>3 DEF LimitInv
  <2>3. QED
    BY <2>1, <2>2
<1>7. QED
  BY <1>4, <1>6 DEF LimitInv

LEMMA LimitStep == IInv /\ LimitInv /\ DoorNext => LimitInv'
<1> SUFFICES ASSUME IInv, LimitInv, DoorNext PROVE LimitInv'
  OBVIOUS
<1>1. ASSUME UNCHANGED <<hits, let>>,
             \A w \in Who, b \in Backs :
               Passing(w, b) \subseteq Passing(w, b)' /\ Overdue(b)' \subseteq Overdue(b)
      PROVE  LimitInv'
  <2>1. hits' \in [Who -> Hits]
    BY <1>1 DEF LimitInv
  <2>2. \A w \in Who, b \in Backs :
          Cardinality(Since(hits[w], b)) <= Cardinality(Since(hits'[w], b))
    BY <1>1, SinceFinite DEF LimitInv
  <2>3. QED
    BY <1>1, <2>1, <2>2, LimitKept
<1>2. ASSUME UNCHANGED <<hits, let, call>> PROVE LimitInv'
  BY <1>1, <1>2 DEF Passing, Overdue
<1>3. ASSUME NEW c \in Thread, call[c].at # "append",
             \A d \in Thread \ {c} : call'[d] = call[d],
             call'[c].at = "count" => call'[c].stamp = 0, UNCHANGED <<hits, let>>
      PROVE  LimitInv'
  <2>1. ASSUME NEW w \in Who, NEW b \in Backs
        PROVE  Passing(w, b) \subseteq Passing(w, b)' /\ Overdue(b)' \subseteq Overdue(b)
    <3>1. b \in Nat
      BY Numbers
    <3>2. \A d \in Passing(w, b) : d # c
      BY <1>3 DEF Passing
    <3>3. \A d \in Overdue(b)' : d # c
      BY <1>3, <3>1 DEF Overdue
    <3>4. QED
      BY <1>3, <3>2, <3>3 DEF Passing, Overdue
  <2>2. QED
    BY <1>1, <1>3, <2>1
<1>4. ASSUME NEW c \in Thread, NEW t \in Team, NEW k \in Key, Authenticate(c, k, t) PROVE LimitInv'
  BY <1>3, <1>4 DEF Authenticate, Take, IInv
<1>5. ASSUME NEW c \in Thread, NEW t \in Team, NEW p \in Person, RightsOnPage(c, p, t)
      PROVE  LimitInv'
  BY <1>3, <1>5 DEF RightsOnPage, Take, IInv
<1>6. ASSUME NEW c \in Thread, Act(c) PROVE LimitInv'
  BY <1>3, <1>6 DEF Act, Done, IInv
<1>7. ASSUME NEW c \in Thread, ReadClock(c) PROVE LimitInv'
  BY <1>3, <1>7 DEF ReadClock, Step, IInv
<1>8. ASSUME NEW c \in Thread, RightsByKey(c) PROVE LimitInv'
  <2>1. UNCHANGED <<hits, let>> /\ call[c].at = "rights"
    BY <1>8 DEF RightsByKey
  <2>2. CASE Done(c)
    BY <1>3, <2>1, <2>2 DEF Done, IInv
  <2>3. CASE Step(c, "act", 0)
    BY <1>3, <2>1, <2>3 DEF Step, IInv
  <2>4. QED
    BY <1>8, <2>2, <2>3 DEF RightsByKey
<1>9. ASSUME NEW c \in Thread, Compare(c) PROVE LimitInv'
  <2>1. UNCHANGED hits /\ call[c].at = "count"
    BY <1>9 DEF Compare
  <2>2. CASE Done(c) /\ UNCHANGED let
    BY <1>3, <2>1, <2>2 DEF Done, IInv
  <2>3. CASE /\ Room(hits[call[c].who]) /\ Step(c, "append", call[c].stamp)
             /\ let' = [let EXCEPT ![call[c].who] = OneMore(let[call[c].who], call[c].stamp)]
    BY <2>1, <2>3, RoomKeepsLimit
  <2>4. QED
    BY <1>9, <2>2, <2>3 DEF Compare
<1>10. ASSUME NEW p \in Person, NEW k \in Key, CreateKey(k, p) \/ RevokeKey(k, p) PROVE LimitInv'
  BY <1>2, <1>10 DEF CreateKey, RevokeKey
<1>11. ASSUME NEW p \in Person, NEW t \in Team, AddAnsvarig(p, t) \/ RemoveAnsvarig(p, t)
       PROVE LimitInv'
  BY <1>2, <1>11 DEF AddAnsvarig, RemoveAnsvarig
<1>12. QED
  BY <1>4, <1>5, <1>6, <1>7, <1>8, <1>9, <1>10, <1>11, PruneKeepsLimit, LetThroughKeepsLimit,
     LaterKeepsLimit, RestartKeepsLimit DEF DoorNext, Serve

\* Nothing locks the limiter, a hit bears the time at which its request came and
\* not the one at which it was let through, and the hits may be out of order;
\* and yet no window sees more let through than the limit and two overlaps,
\* however long a request is held up.
THEOREM WindowHolds == AccessSpec => []WindowLimited
<1>1. IInv /\ LimitInv /\ [(LoginNext /\ UNCHANGED doorVars) \/ DoorNext]_accessVars => LimitInv'
  <2>1. LimitInv /\ UNCHANGED doorVars => LimitInv'
    BY DEF doorVars, LimitInv, Passing, Overdue
  <2>2. QED
    BY <2>1, LimitStep DEF accessVars
<1>2. LimitInv => WindowLimited
  <2> SUFFICES ASSUME LimitInv, NEW w \in Who
               PROVE  let[w][Window - 1].came + let[w][Window - 1].late
                        <= Limit + 2 * Cardinality(Thread) - 1
    BY DEF WindowLimited
  <2>1. Window - 1 \in Backs
    BY Numbers DEF Backs
  <2>2. /\ let[w][Window - 1].came <= Limit + Cardinality(Thread) - 1
        /\ let[w][Window - 1].late + Cardinality(Overdue(Window - 1)) <= Cardinality(Thread)
    BY <2>1 DEF LimitInv
  <2>3. Cardinality(Overdue(Window - 1)) \in Nat
    BY SomeThreads, ThreadsFinite
  <2>4. let[w][Window - 1].came \in Nat /\ let[w][Window - 1].late \in Nat
    BY <2>1, CountTypes
  <2>5. QED
    BY <2>2, <2>3, <2>4, Numbers
<1>3. QED
  BY <1>1, <1>2, DoorSeen, LimitInit, PTL DEF AccessSpec

=============================================================================
