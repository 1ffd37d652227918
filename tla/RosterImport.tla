----------------------------- MODULE RosterImport -----------------------------
(***************************************************************************)
(* roster.import: 360Player's members export against the club's tables.    *)
(* The export of one team adds players, guardians and links, follows the   *)
(* team's leaders and marks their children as exempt from duties; people   *)
(* are shared between the teams.  A plan and its writes run under SQLite's *)
(* write lock (module Executor), so an import is one step; between the     *)
(* imports the ansvariga of each team come and go.                         *)
(***************************************************************************)
EXTENDS Integers, Sequences, FiniteSets, FiniteSetsExt

CONSTANTS
  Team,
  Person,    \* addresses; a person is an address
  Name,      \* names; players of one team are told apart by their names
  Unnamed,   \* an empty name
  NoEmail,   \* an empty address
  File,      \* the exports that are tried: sequences of member rows
  NoFile,    \* no export yet
  Start      \* the tables the system may start with

VARIABLES
  name,    \* the people, by address: what each is called
  exempt,  \* the players, by team and name: whether each is exempt
  link,    \* parent_players
  role,    \* team_roles
  last     \* history: the last export imported into each team

vars == <<name, exempt, link, role, last>>

Player == Team \X Name
TeamRole == Person \X Team \X {"leader", "ansvarig"}

\* A row of the export, its names and addresses normalised.
Member == [name : Name \union {Unnamed}, email : Person \union {NoEmail},
           parents : BOOLEAN, children : SUBSET Name]

\* What the tables promise: rows refer to rows that exist, and whoever has a
\* role in a team has a child there.
Referential(people, players, links, roles) ==
  /\ links \subseteq people \X players
  /\ \A r \in roles : r[1] \in people /\ \E x \in players : x[1] = r[2] /\ <<r[1], x>> \in links

ASSUME RosterOK ==
  /\ NoEmail \notin Person /\ Unnamed \notin Name /\ NoFile \notin File
  /\ \A f \in File : f \in Seq(Member) /\ \A i \in DOMAIN f : f[i].parents => f[i].name \in Name
  /\ \A s \in Start :
       /\ DOMAIN s.name \subseteq Person /\ s.name \in [DOMAIN s.name -> Name \union {Unnamed}]
       /\ s.player \subseteq Player
       /\ s.link \subseteq Person \X Player /\ s.role \subseteq Person \X Team \X {"ansvarig"}
       /\ Referential(DOMAIN s.name, s.player, s.link, s.role)

-----------------------------------------------------------------------------
(* What an export says (members_csv.interpret).                            *)

\* Rows that name parents are players.
PlayersIn(file) == {file[i].name : i \in {j \in DOMAIN file : file[j].parents}}

\* Mutant of KnownChildren: a sibling on another team too.
AnyChildren(file, i) == file[i].children

\* The children of a row who are players here.
KnownChildren(file, i) == file[i].children \intersect PlayersIn(file)

\* The rows that make an address a guardian.
GuardianRows(file, e) ==
  {i \in DOMAIN file : file[i].email = e /\ KnownChildren(file, i) # {}}

Guardians(file) == {e \in Person : GuardianRows(file, e) # {}}
ChildrenOf(file, e) == UNION {KnownChildren(file, i) : i \in GuardianRows(file, e)}

\* The first row's name stands.
NameIn(file, e) == file[Min(GuardianRows(file, e))].name

\* Rows with neither parents nor children: members of the team themselves.
OwnRow(file, e) ==
  \E i \in DOMAIN file : file[i].email = e /\ ~file[i].parents /\ file[i].children = {}

\* Mutant of Leaders: members whose children are not on the team too.
LeadersOrMembers(file) == {e \in Guardians(file) \union DOMAIN name : OwnRow(file, e)}

\* A leader is a guardian with a row of his own.
Leaders(file) == {e \in Guardians(file) : OwnRow(file, e)}

-----------------------------------------------------------------------------
(* Reconciling it with the tables.                                         *)

\* The teams a person is tied to, by a child or a role.
Ties(e) == {x[1] : x \in {y \in DOMAIN exempt : <<e, y>> \in link}}
             \union {t \in Team : \E r \in {"leader", "ansvarig"} : <<e, t, r>> \in role}

\* Mutant of Renamed: everybody with a tie to this team.
RenamedIfTied(e, t, file) ==
  e \in Guardians(file) /\ t \in Ties(e) /\ NameIn(file, e) # Unnamed

\* A known guardian takes the export's name if this team is all he has.
Renamed(e, t, file) ==
  e \in Guardians(file) /\ Ties(e) = {t} /\ NameIn(file, e) # Unnamed

\* Mutant of LinksAfter: the team's links as the export has them.
LinksReplaced(t, file) ==
  {l \in link : l[2][1] # t}
    \union UNION {{<<e, <<t, c>>>> : c \in ChildrenOf(file, e)} : e \in Guardians(file)}

LinksAfter(t, file) ==
  link \union UNION {{<<e, <<t, c>>>> : c \in ChildrenOf(file, e)} : e \in Guardians(file)}

\* Mutant of RolesAfter: adds and removes computed from the same old list.
RolesToggled(t, file) ==
  LET old == {e \in Person : <<e, t, "leader">> \in role}
      new == (Leaders(file) \ old) \union (old \ Leaders(file))
  IN {r \in role : r[2] # t \/ r[3] # "leader"} \union {<<e, t, "leader">> : e \in new}

\* The team's leaders become the export's.
RolesAfter(t, file) ==
  {r \in role : r[2] # t \/ r[3] # "leader"} \union {<<e, t, "leader">> : e \in Leaders(file)}

\* Mutant of ExemptAfter: only the children the export lists.
ExemptIfListed(x, t, file) ==
  IF x[1] = t /\ x[2] \in PlayersIn(file)
  THEN \E e \in Leaders(file) : <<e, x>> \in LinksAfter(t, file)
  ELSE x \in DOMAIN exempt /\ exempt[x]

\* This team's players are exempt if a parent they now have leads it.
ExemptAfter(x, t, file) ==
  IF x[1] = t THEN \E e \in Leaders(file) : <<e, x>> \in LinksAfter(t, file)
  ELSE exempt[x]

\* RosterImport.plan and _write.
Import(t, file) ==
  /\ exempt' = [x \in DOMAIN exempt \union ({t} \X PlayersIn(file)) |-> ExemptAfter(x, t, file)]
  /\ name' = [e \in DOMAIN name \union Guardians(file) |->
                IF e \notin DOMAIN name \/ Renamed(e, t, file) THEN NameIn(file, e) ELSE name[e]]
  /\ link' = LinksAfter(t, file)
  /\ role' = RolesAfter(t, file)
  /\ last' = [last EXCEPT ![t] = file]

-----------------------------------------------------------------------------
(* The ansvariga, by one of them or by a club admin.                       *)

OnRoster(e, t) == \E x \in DOMAIN exempt : x[1] = t /\ <<e, x>> \in link

AddTeamAdmin(t, e) ==
  /\ OnRoster(e, t)
  /\ <<e, t, "ansvarig">> \notin role
  /\ role' = role \union {<<e, t, "ansvarig">>}
  /\ UNCHANGED <<name, exempt, link, last>>

\* A club admin may remove the last one, too.
RemoveTeamAdmin(t, e) ==
  /\ <<e, t, "ansvarig">> \in role
  /\ role' = role \ {<<e, t, "ansvarig">>}
  /\ UNCHANGED <<name, exempt, link, last>>

-----------------------------------------------------------------------------
Init ==
  \E s \in Start :
    /\ name = s.name
    /\ exempt = [x \in s.player |-> FALSE]
    /\ link = s.link
    /\ role = s.role
    /\ last = [t \in Team |-> NoFile]

Next ==
  \E t \in Team :
    \/ \E file \in File : Import(t, file)
    \/ \E e \in Person : AddTeamAdmin(t, e) \/ RemoveTeamAdmin(t, e)

Spec == Init /\ [][Next]_vars

-----------------------------------------------------------------------------
(* Properties.                                                             *)

\* Types, and referential integrity: no import writes a link or a role of
\* somebody, or to somebody, who is not there.
TypeOK ==
  /\ DOMAIN name \subseteq Person /\ name \in [DOMAIN name -> Name \union {Unnamed}]
  /\ DOMAIN exempt \subseteq Player /\ exempt \in [DOMAIN exempt -> BOOLEAN]
  /\ link \subseteq (DOMAIN name) \X (DOMAIN exempt)
  /\ role \subseteq {r \in TeamRole : r[1] \in DOMAIN name}
  /\ last \in [Team -> File \union {NoFile}]

\* Who is exempt never drifts from who leads: at every moment exactly the
\* children of a team's leaders are exempt there, whatever became of leaders
\* and children who are missing from later exports (staffing trusts the flag).
LeadersFamiliesExempt ==
  \A x \in DOMAIN exempt :
    exempt[x] <=> \E e \in DOMAIN name : <<e, x>> \in link /\ <<e, x[1], "leader">> \in role

\* Whoever has a role in a team has a child on it, so the pages that list a
\* team's roster can always show, and remove, its leaders and ansvariga.
RolesAreOnRoster ==
  \A r \in role : \E x \in DOMAIN exempt : x[1] = r[2] /\ <<r[1], x>> \in link

\* An export is about one team: nothing of another team changes, and nobody
\* with a child or a role elsewhere is renamed by it.
OtherTeamsUntouched ==
  [][\E t \in Team :
       /\ \A x \in DOMAIN exempt : x[1] # t => x \in DOMAIN exempt' /\ exempt'[x] = exempt[x]
       /\ \A x \in DOMAIN exempt' \ DOMAIN exempt : x[1] = t
       /\ \A l \in link \union link' : l[2][1] # t => l \in link /\ l \in link'
       /\ \A r \in role \union role' : r[2] # t => r \in role /\ r \in role'
       /\ \A e \in DOMAIN name : e \in DOMAIN name' /\ (name'[e] # name[e] => Ties(e) = {t})]_vars

\* An import takes nothing away: whoever could act for a child still can, and
\* nobody stops being ansvarig by being absent from a file.
NobodyLosesAChild ==
  [][/\ DOMAIN name \subseteq DOMAIN name'
     /\ DOMAIN exempt \subseteq DOMAIN exempt'
     /\ link \subseteq link'
     /\ last' # last => \A r \in role : r[3] = "ansvarig" => r \in role']_vars

\* The export a team was last read from has nothing left to say about its
\* children, their parents or its leaders, whatever other teams imported and
\* whoever became ansvarig since.
SameExportAgain ==
  [][\A t \in Team :
       (last[t] # NoFile /\ Import(t, last[t])) => UNCHANGED <<exempt, link, role>>]_vars

=============================================================================
