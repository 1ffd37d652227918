------------------------------- MODULE AdminDoor -------------------------------
(***************************************************************************)
(* Who gets to run an admin action: through the pages with a session, or   *)
(* through /admin/api with a personal key.  A request is several steps     *)
(* (key, limiter, rights, action) and requests overlap, inside the limiter *)
(* too; meanwhile keys run out and are revoked, ansvariga come and go, and *)
(* the server restarts, which empties the limiter and seeds the club       *)
(* admins.  Ages are relative to now, so that runs never end.              *)
(***************************************************************************)
EXTENDS LoginLinks, Sequences

CONSTANTS
  Team,
  OnRoster,   \* <<person, team>>: the parents of the team's players
  Key,        \* bound: keys that are ever made
  NoKey,      \* no such row
  KeyLife,    \* KEY_LIFETIME
  Limit,      \* hits the limiter lets through in a window
  Window,     \* its window
  Delay,      \* bound: how long a request may be inside the limiter
  Config      \* the values CLUB_ADMINS is given

VARIABLES
  key,        \* api_keys
  ansvarig,   \* team_roles of that kind: <<person, team>>
  clubAdmin,  \* club_admins
  hits,       \* RateLimiter._hits: for each caller's identity, the ages of its hits
  call,       \* the request each thread is serving
  let,        \* history: how many were let through in the last 1, 2 .. Window moments
  had         \* history: what each request's caller had at some moment of it

doorVars == <<key, ansvarig, clubAdmin, hits, call, let, had>>

ASSUME DoorOK ==
  /\ KeyLife \in Nat \ {0} /\ Limit \in Nat \ {0} /\ Window \in Nat \ {0} /\ Delay \in Nat
  /\ OnRoster \subseteq Person \X Team
  /\ \A c \in Config : c \subseteq Person
  /\ Key \intersect Person = {}

\* left: until it expires; a key with nothing left is refused.
KeyRow == [owner : Person, left : 0 .. KeyLife, revoked : BOOLEAN]
ASSUME KeyOK == NoKey \notin KeyRow

Made == {k \in Key : key[k] # NoKey}

\* What a limiter counts by: ("api", key) or ("web", person).
Who == Key \union Person

Owner(who) == IF who \in Person THEN who ELSE key[who].owner

\* stamp: inside the limiter, how long ago it read the clock.
Step(c, at, stamp) ==
  call' = [call EXCEPT ![c] = [at |-> at, who |-> @.who, team |-> @.team, stamp |-> stamp]]
Done(c) == call' = [call EXCEPT ![c] = [at |-> "idle"]]

-----------------------------------------------------------------------------
(* Keys and rights.                                                        *)

\* Mutant of Works: revoking is forgotten.
WorksUntilExpiry(k) == k \in Made /\ key[k].left > 0

\* authenticate.
Works(k) == k \in Made /\ ~key[k].revoked /\ key[k].left > 0

\* admin_teams; admin_context takes the team from them, or refuses.
AdminTeams(p) == IF p \in clubAdmin THEN Team ELSE {t \in Team : <<p, t>> \in ansvarig}

NewKey(p) == [owner |-> p, left |-> KeyLife, revoked |-> FALSE]

CreateKey(k, p) ==
  /\ p \in signed
  /\ AdminTeams(p) # {}
  /\ key[k] = NoKey
  /\ key' = [key EXCEPT ![k] = NewKey(p)]
  /\ UNCHANGED <<ansvarig, clubAdmin, hits, call, let>>

\* By its owner, or by a club admin; a key outlives the role it was made
\* under and stays revocable.
RevokeKey(k, p) ==
  /\ p \in signed
  /\ k \in Made
  /\ key[k].owner = p \/ p \in clubAdmin
  /\ ~key[k].revoked
  /\ key' = [key EXCEPT ![k].revoked = TRUE]
  /\ UNCHANGED <<ansvarig, clubAdmin, hits, call, let>>

\* team_admins.add and team_admins.remove, by somebody who administers the
\* team; the last one is removed by a club admin only.
AddAnsvarig(p, t) ==
  /\ \E q \in Person : t \in AdminTeams(q)
  /\ <<p, t>> \in OnRoster \ ansvarig
  /\ ansvarig' = ansvarig \union {<<p, t>>}
  /\ UNCHANGED <<key, clubAdmin, hits, call, let>>

RemoveAnsvarig(p, t) ==
  /\ <<p, t>> \in ansvarig
  /\ clubAdmin # {} \/ \E q \in Person \ {p} : <<q, t>> \in ansvarig
  /\ ansvarig' = ansvarig \ {<<p, t>>}
  /\ UNCHANGED <<key, clubAdmin, hits, call, let>>

-----------------------------------------------------------------------------
(* A request.  The API asks for the key, counts, then looks up the rights; *)
(* the pages look up the rights, then count.                               *)

Take(c, who, t) ==
  call' = [call EXCEPT ![c] = [at |-> "limit", who |-> who, team |-> t, stamp |-> 0]]

\* _key: a key that does not work is answered at once.
Authenticate(c, k, t) ==
  /\ call[c].at = "idle"
  /\ Works(k)
  /\ Take(c, k, t)
  /\ UNCHANGED <<key, ansvarig, clubAdmin, hits, let>>

\* RateLimiter.allow takes no lock.  It reads the clock once,
ReadClock(c) ==
  /\ call[c].at = "limit"
  /\ Step(c, "count", 0)
  /\ UNCHANGED <<key, ansvarig, clubAdmin, hits, let>>

\* drops the hits that were out of the window by that reading, one at a time
\* from the front (hits noted down late are behind younger ones),
OldFirst(h, stamp) == h # <<>> /\ Head(h) - stamp >= Window

Prune(c) ==
  LET who == call[c].who IN
  /\ call[c].at = "count"
  /\ OldFirst(hits[who], call[c].stamp)
  /\ hits' = [hits EXCEPT ![who] = Tail(@)]
  /\ UNCHANGED <<key, ansvarig, clubAdmin, call, let>>

\* Mutant of Room: the limit itself still lets one in.
RoomForOneMore(h) == Len(h) <= Limit

Room(h) == Len(h) < Limit

\* Of the last b + 1 moments: how many were let through that had read the clock
\* in them (came), and how many that had read it before (late).
OneMore(l, stamp) ==
  [b \in DOMAIN l |-> IF stamp <= b THEN [l[b] EXCEPT !.came = @ + 1]
                                    ELSE [l[b] EXCEPT !.late = @ + 1]]

\* compares what is left with the limit,
Compare(c) ==
  LET who == call[c].who
      stamp == call[c].stamp
  IN
  /\ call[c].at = "count"
  /\ ~OldFirst(hits[who], stamp)
  /\ \/ /\ Room(hits[who])
        /\ Step(c, "append", stamp)
        /\ let' = [let EXCEPT ![who] = OneMore(@, stamp)]
     \/ ~Room(hits[who]) /\ Done(c) /\ UNCHANGED let
  /\ UNCHANGED <<key, ansvarig, clubAdmin, hits>>

\* and notes the reading down.
LetThrough(c) ==
  LET who == call[c].who IN
  /\ call[c].at = "append"
  /\ hits' = [hits EXCEPT ![who] = Append(@, call[c].stamp)]
  /\ Step(c, IF who \in Key THEN "rights" ELSE "act", 0)
  /\ UNCHANGED <<key, ansvarig, clubAdmin, let>>

\* admin_context: a team that is not among the caller's is not found.
RightsByKey(c) ==
  /\ call[c].at = "rights"
  /\ IF call[c].team \in AdminTeams(Owner(call[c].who)) THEN Step(c, "act", 0) ELSE Done(c)
  /\ UNCHANGED <<key, ansvarig, clubAdmin, hits, let>>

RightsOnPage(c, p, t) ==
  /\ call[c].at = "idle"
  /\ p \in signed
  /\ t \in AdminTeams(p)
  /\ Take(c, p, t)
  /\ UNCHANGED <<key, ansvarig, clubAdmin, hits, let>>

\* The action, with the rights looked up before (module Executor).
Act(c) ==
  /\ call[c].at = "act"
  /\ Done(c)
  /\ UNCHANGED <<key, ansvarig, clubAdmin, hits, let>>

-----------------------------------------------------------------------------
(* Time and restarts.                                                      *)

\* No hit is kept older than any reading of the clock can tell.
Older(h) == [i \in DOMAIN h |-> IF h[i] < Window + Delay THEN h[i] + 1 ELSE h[i]]

Nobody == [b \in 0 .. Window - 1 |-> [came |-> 0, late |-> 0]]

InLimiter(c) == call[c].at \in {"count", "append"}

Later ==
  /\ \A c \in Thread : InLimiter(c) => call[c].stamp < Delay
  /\ key' = [k \in Key |-> IF k \in Made /\ key[k].left > 0
                           THEN [key[k] EXCEPT !.left = @ - 1] ELSE key[k]]
  /\ hits' = [w \in Who |-> Older(hits[w])]
  /\ call' = [c \in Thread |-> IF InLimiter(c) THEN [call[c] EXCEPT !.stamp = @ + 1] ELSE call[c]]
  /\ let' = [w \in Who |-> [b \in 0 .. Window - 1 |-> IF b = 0 THEN Nobody[0] ELSE let[w][b - 1]]]
  /\ UNCHANGED <<ansvarig, clubAdmin>>

\* seed_club_admins.
Seeded(config) == IF clubAdmin # {} THEN clubAdmin ELSE config

\* Requests are lost, the limiters are new, CLUB_ADMINS may have changed.
Restart(config) ==
  /\ clubAdmin' = Seeded(config)
  /\ hits' = [w \in Who |-> <<>>]
  /\ let' = [w \in Who |-> Nobody]
  /\ call' = [c \in Thread |-> [at |-> "idle"]]
  /\ UNCHANGED <<key, ansvarig>>

-----------------------------------------------------------------------------
(* What a request's caller has at a moment: a good key (or a session), and *)
(* the right to administer the team it names.                              *)
HasNow(r) ==
  IF r.at = "idle" THEN {}
  ELSE {x \in {"key", "right"} :
          IF x = "key"
          THEN r.who \in Person \/ (~key[r.who].revoked /\ key[r.who].left > 0)
          ELSE Owner(r.who) \in clubAdmin \/ <<Owner(r.who), r.team>> \in ansvarig}

\* Remembered over each request, from its first moment to its last.
Remember ==
  had' = [c \in Thread |->
            IF call'[c].at = "idle" THEN {}
            ELSE IF call[c].at = "idle" THEN HasNow(call[c])' ELSE had[c] \union HasNow(call[c])']

DoorInit ==
  /\ key = [k \in Key |-> NoKey]
  /\ ansvarig \in SUBSET OnRoster
  /\ clubAdmin \in Config
  /\ hits = [w \in Who |-> <<>>]
  /\ let = [w \in Who |-> Nobody]
  /\ call = [c \in Thread |-> [at |-> "idle"]]
  /\ had = [c \in Thread |-> {}]

Serve(c) ==
  \/ \E t \in Team : \/ \E k \in Key : Authenticate(c, k, t)
                    \/ \E p \in Person : RightsOnPage(c, p, t)
  \/ ReadClock(c) \/ Prune(c) \/ Compare(c) \/ LetThrough(c)
  \/ RightsByKey(c) \/ Act(c)

DoorNext ==
  /\ \/ \E c \in Thread : Serve(c)
     \/ \E p \in Person, k \in Key : CreateKey(k, p) \/ RevokeKey(k, p)
     \/ \E p \in Person, t \in Team : AddAnsvarig(p, t) \/ RemoveAnsvarig(p, t)
     \/ Later
     \/ \E config \in Config : Restart(config)
  /\ Remember
  /\ UNCHANGED loginVars

\* Both ways in, over one table of people.
accessVars == <<loginVars, doorVars>>
AccessSpec ==
  /\ LoginInit /\ DoorInit
  /\ [][(LoginNext /\ UNCHANGED doorVars) \/ DoorNext]_accessVars

-----------------------------------------------------------------------------
(* Properties.                                                             *)

\* "An ansvarig who is removed locks their agent out on the next request":
\* nothing is run for a caller who had no good key, or no right to that team,
\* at any moment of the request.
NoActWithoutRights ==
  \A c \in Thread : call[c].at = "act" => had[c] = {"key", "right"}

\* However its requests are spaced and overlap, and however long each of them
\* is held up in the limiter: since the server started, no window sees more of
\* a caller's requests let through than the limit and two overlaps, those that
\* came together and those that had come before it and were let through late.
WindowLimited ==
  \A w \in Who : LET l == let[w][Window - 1] IN
    l.came + l.late <= Limit + 2 * Cardinality(Thread) - 1

=============================================================================
