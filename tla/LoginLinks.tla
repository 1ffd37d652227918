------------------------------- MODULE LoginLinks -------------------------------
(***************************************************************************)
(* How a parent gets in: POST /login mails a link, at most one a minute;   *)
(* the button behind the link trades it for a session.  Handlers run in    *)
(* threads and are interleaved at every statement and every mail; mails    *)
(* get lost and the server restarts.  Time is measured as what is left of  *)
(* each link's life, so that runs never end.                               *)
(***************************************************************************)
EXTENDS Integers, FiniteSets

CONSTANTS
  Person,    \* the addresses of registered parents
  Link,      \* bound: at most this many links are remembered at a time
  LinkLife,  \* TOKEN_MAX_AGE_SECONDS
  AskGap,    \* RATE_LIMIT_SECONDS
  Thread,    \* requests served at a time: Flask starts a thread for each
  NoLink     \* no such row

VARIABLES
  link,    \* login_tokens; mailed: whether the link reached the inbox
  signed,  \* who has a session cookie
  req      \* the request each thread is serving

loginVars == <<link, signed, req>>

ASSUME LoginOK ==
  /\ AskGap \in Nat /\ LinkLife \in Nat /\ 0 < AskGap /\ AskGap <= LinkLife
  /\ IsFiniteSet(Thread)
  /\ NoLink \notin [for : Person, left : -1 .. LinkLife, used : BOOLEAN, mailed : BOOLEAN]

\* left: until it expires, -1 once it has.
LinkRow == [for : Person, left : -1 .. LinkLife, used : BOOLEAN, mailed : BOOLEAN]

Waiting == [at : {"idle"}]
Request == Waiting \union [at : {"issue"}, for : Person]
                   \union [at : {"mail", "consume", "welcome"}, link : Link]

Rows == {l \in Link : link[l] # NoLink}
Answer(t) == req' = [req EXCEPT ![t] = [at |-> "idle"]]

-----------------------------------------------------------------------------
(* POST /login.                                                            *)

\* Mutant of Recent: links that were used do not count.
RecentUnused(p) ==
  {l \in Rows : link[l].for = p /\ LinkLife - link[l].left < AskGap /\ ~link[l].used}

\* The links issued to this address less than a minute ago.
Recent(p) == {l \in Rows : link[l].for = p /\ LinkLife - link[l].left < AskGap}

\* Mutant of TurnAway: asking again starts the minute again.
TurnAwayAndWait(p) ==
  link' = [l \in Link |-> IF l \in Recent(p) THEN [link[l] EXCEPT !.left = LinkLife] ELSE link[l]]

\* Asked too soon: the page says the same, and nothing is written.
TurnAway(p) == UNCHANGED link

AskTooSoon(t, p) ==
  /\ req[t].at = "idle"
  /\ Recent(p) # {}
  /\ TurnAway(p)
  /\ UNCHANGED <<signed, req>>

Ask(t, p) ==
  /\ req[t].at = "idle"
  /\ Recent(p) = {}
  /\ req' = [req EXCEPT ![t] = [at |-> "issue", for |-> p]]
  /\ UNCHANGED <<link, signed>>

NewLink(p) == [for |-> p, left |-> LinkLife, used |-> FALSE, mailed |-> FALSE]

\* issue_login_token commits the row before the link is mailed.
Issue(t) ==
  /\ req[t].at = "issue"
  /\ \E l \in Link :
       /\ link[l] = NoLink
       /\ link' = [link EXCEPT ![l] = NewLink(req[t].for)]
       /\ req' = [req EXCEPT ![t] = [at |-> "mail", link |-> l]]
  /\ UNCHANGED signed

Mail(t) ==
  /\ req[t].at = "mail"
  /\ link' = [link EXCEPT ![req[t].link].mailed = TRUE]
  /\ Answer(t)
  /\ UNCHANGED signed

\* send_login_link raises: the handler answers 500, the row stays.
MailFails(t) ==
  /\ req[t].at = "mail"
  /\ Answer(t)
  /\ UNCHANGED <<link, signed>>

-----------------------------------------------------------------------------
(* POST /login/verify.  The GET before it, which mail scanners make too,   *)
(* reads the row and changes nothing.                                      *)

\* Mutant of Good: consumed links still pass.
GoodIfFresh(l) == link[l].left >= 0

\* _check_login_token.
Good(l) == ~link[l].used /\ link[l].left >= 0

Click(t, l) ==
  /\ req[t].at = "idle"
  /\ l \in Rows /\ link[l].mailed
  /\ Good(l)
  /\ req' = [req EXCEPT ![t] = [at |-> "consume", link |-> l]]
  /\ UNCHANGED <<link, signed>>

\* The rest of verify_login_token: the row is written whatever happened to
\* it since it was checked.
Consume(t) ==
  /\ req[t].at = "consume"
  /\ link' = [link EXCEPT ![req[t].link].used = TRUE]
  /\ req' = [req EXCEPT ![t].at = "welcome"]
  /\ UNCHANGED signed

\* login_user, after the commit.
SignIn(t) ==
  /\ req[t].at = "welcome"
  /\ signed' = signed \union {link[req[t].link].for}
  /\ Answer(t)
  /\ UNCHANGED link

-----------------------------------------------------------------------------
(* The world around it.                                                    *)

\* The cookie is cleared, or its sixty days are over.
LoseCookie(p) ==
  /\ p \in signed
  /\ signed' = signed \ {p}
  /\ UNCHANGED <<link, req>>

HoldsLink == {"mail", "consume", "welcome"}
InUse(l) == \E t \in Thread : req[t].at \in HoldsLink /\ req[t].link = l

\* A moment passes.  An expired row that no handler holds answers like one
\* that never was, so it is forgotten.
Pass ==
  /\ \E l \in Rows : link[l].left >= 0 \/ ~InUse(l)
  /\ link' = [l \in Link |->
                IF l \notin Rows \/ (link[l].left <= 0 /\ ~InUse(l)) THEN NoLink
                ELSE [link[l] EXCEPT !.left = IF @ < 0 THEN @ ELSE @ - 1]]
  /\ UNCHANGED <<signed, req>>

Crash ==
  /\ \E t \in Thread : req[t].at # "idle"
  /\ req' = [t \in Thread |-> [at |-> "idle"]]
  /\ UNCHANGED <<link, signed>>

LoginInit ==
  /\ link = [l \in Link |-> NoLink]
  /\ signed = {}
  /\ req = [t \in Thread |-> [at |-> "idle"]]

LoginNext ==
  \/ \E t \in Thread :
       \/ \E p \in Person : AskTooSoon(t, p) \/ Ask(t, p)
       \/ Issue(t) \/ Mail(t) \/ MailFails(t)
       \/ \E l \in Link : Click(t, l)
       \/ Consume(t) \/ SignIn(t)
  \/ \E p \in Person : LoseCookie(p)
  \/ Pass
  \/ Crash

\* Handlers finish unless the server stops, and time goes on.  Somebody who
\* wants in keeps asking; of his mails and clicks not all come too late, and
\* not every one meets a restart.
Wants(p) ==
  /\ SF_loginVars(\E t \in Thread : Ask(t, p))
  /\ SF_loginVars(\E t \in Thread : req[t].at = "issue" /\ req[t].for = p /\ Issue(t))
  /\ SF_loginVars(\E t \in Thread : /\ req[t].at = "mail" /\ link[req[t].link].for = p
                                    /\ link[req[t].link].left = LinkLife /\ Mail(t))
  /\ SF_loginVars(\E t \in Thread, l \in Rows : link[l].for = p /\ Click(t, l))
  /\ SF_loginVars(\E t \in Thread : /\ req[t].at = "consume" /\ link[req[t].link].for = p
                                    /\ Consume(t))
  /\ SF_loginVars(\E t \in Thread : /\ req[t].at = "welcome" /\ link[req[t].link].for = p
                                    /\ SignIn(t))

Handlers ==
  \A t \in Thread : WF_loginVars(Issue(t) \/ Mail(t) \/ MailFails(t) \/ Consume(t) \/ SignIn(t))

LoginFair == Handlers /\ WF_loginVars(Pass) /\ \A p \in Person : Wants(p)

LoginSpec == LoginInit /\ [][LoginNext]_loginVars /\ LoginFair

-----------------------------------------------------------------------------
(* Properties.                                                             *)

LoginTypes ==
  /\ link \in [Link -> LinkRow \union {NoLink}]
  /\ signed \subseteq Person
  /\ req \in [Thread -> Request]
  /\ \A t \in Thread : req[t].at \in HoldsLink => req[t].link \in Rows

\* An inbox gets no more links in a minute than requests were served at a
\* time: one, unless somebody sends the form again before the first is done.
FewLinksAMinute ==
  \A p \in Person :
    Cardinality({l \in Rows : link[l].for = p /\ link[l].left > LinkLife - AskGap})
      <= Cardinality(Thread)

\* A link is spent when it was used and every click that overlapped the first
\* has been answered; or when it has expired.  A spent link never lets
\* anybody in again.
Spent(l) ==
  /\ l \in Rows /\ (link[l].used \/ link[l].left < 0)
  /\ \A t \in Thread : ~(req[t].at \in {"consume", "welcome"} /\ req[t].link = l)

SpentStaysSpent ==
  [][\A l \in Link : Spent(l) => Spent(l)' \/ link'[l] = NoLink]_loginVars

\* A parent who keeps asking and clicking gets in, however often mails fail,
\* the server restarts, or he asks too soon.
KeepsTryingGetsIn ==
  \A p \in Person : []<>(p \in signed)

=============================================================================
