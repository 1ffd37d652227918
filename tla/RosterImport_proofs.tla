------------------------- MODULE RosterImport_proofs -------------------------
(***************************************************************************)
(* What imports and the changes between them preserve, for every club and  *)
(* every export.  The argument rests on one strengthening of the           *)
(* properties, Settled: what the last export of a team said is in the      *)
(* tables, and a team's leaders are exactly that export's.                 *)
(***************************************************************************)
EXTENDS RosterImport, TLAPS, WellFoundedInduction

USE DEF Player, TeamRole

-----------------------------------------------------------------------------
(* Reading an export.                                                      *)

LEMMA FileType ==
  ASSUME NEW file \in File
  PROVE  /\ DOMAIN file \subseteq Nat
         /\ \A i \in DOMAIN file : file[i] \in Member
         /\ \A i \in DOMAIN file : file[i].parents => file[i].name \in Name
<1>1. file \in Seq(Member)
  BY RosterOK
<1>2. DOMAIN file = 1 .. Len(file) /\ \A i \in 1 .. Len(file) : file[i] \in Member
  BY <1>1
<1> QED
  BY <1>1, <1>2, RosterOK

\* The first row of a guardian is one of the export's.
LEMMA NameType ==
  ASSUME NEW file \in File, NEW e \in Guardians(file)
  PROVE  NameIn(file, e) \in Name \union {Unnamed}
<1> DEFINE rows == GuardianRows(file, e)
<1>1. rows \subseteq DOMAIN file /\ rows # {} /\ rows \subseteq Nat
  BY FileType DEF Guardians, GuardianRows
<1>2. Min(rows) \in rows
  <2>1. \E n \in rows : \A k \in rows : n <= k
    <3>1. IsWellFoundedOn(OpToRel(<, Nat), Nat)
      BY NatLessThanWellFounded
    <3>2. \E n \in rows : \A k \in rows : ~ (<<k, n>> \in OpToRel(<, Nat))
      BY <1>1, <3>1, WFMin
    <3>3. \A k, n \in Nat : k < n => <<k, n>> \in OpToRel(<, Nat)
      BY Zenon DEF OpToRel
    <3>4. \A k, n \in rows : ~ (k < n) => n <= k
      BY <1>1
    <3> QED
      BY <1>1, <3>2, <3>3, <3>4
  <2> QED
    BY <2>1 DEF Min
<1>3. file[Min(rows)] \in Member
  BY <1>1, <1>2, FileType
<1> QED
  BY <1>3 DEF NameIn, Member

LEMMA ChildrenArePlayers ==
  ASSUME NEW file \in File, NEW e \in Person
  PROVE  /\ PlayersIn(file) \subseteq Name
         /\ ChildrenOf(file, e) \subseteq PlayersIn(file)
         /\ e \in Guardians(file) => ChildrenOf(file, e) # {}
<1>1. PlayersIn(file) \subseteq Name
  BY FileType DEF PlayersIn
<1>2. ChildrenOf(file, e) \subseteq PlayersIn(file)
  BY DEF ChildrenOf, KnownChildren
<1>3. e \in Guardians(file) => ChildrenOf(file, e) # {}
  BY DEF Guardians, GuardianRows, ChildrenOf
<1> QED
  BY <1>1, <1>2, <1>3

LEMMA LeadersAreGuardians ==
  ASSUME NEW file
  PROVE  Leaders(file) \subseteq Guardians(file) /\ Guardians(file) \subseteq Person
BY DEF Leaders, Guardians

\* The links an import adds.
LEMMA NewLinks ==
  ASSUME NEW t \in Team, NEW file \in File, NEW l
  PROVE  l \in LinksAfter(t, file) <=>
           \/ l \in link
           \/ \E e \in Guardians(file) : \E c \in ChildrenOf(file, e) : l = <<e, <<t, c>>>>
BY DEF LinksAfter

-----------------------------------------------------------------------------
(* The inductive invariant.                                                *)

\* What the last export of each team said is there.
Settled ==
  \A t \in Team : last[t] # NoFile =>
    /\ {t} \X PlayersIn(last[t]) \subseteq DOMAIN exempt
    /\ \A e \in Guardians(last[t]) : \A c \in ChildrenOf(last[t], e) : <<e, <<t, c>>>> \in link
    /\ \A e \in Person : <<e, t, "leader">> \in role <=> e \in Leaders(last[t])

IInv == TypeOK /\ RolesAreOnRoster /\ LeadersFamiliesExempt /\ Settled

LEMMA InitHolds == Init => IInv
<1> SUFFICES ASSUME Init PROVE IInv
  OBVIOUS
<1>1. PICK s \in Start : /\ name = s.name /\ exempt = [x \in s.player |-> FALSE]
                         /\ link = s.link /\ role = s.role /\ last = [t \in Team |-> NoFile]
  BY DEF Init
<1>2. DOMAIN exempt = s.player /\ \A x \in s.player : exempt[x] = FALSE
  BY <1>1
<1>3. TypeOK
  BY <1>1, <1>2, RosterOK DEF TypeOK, Referential
<1>4. RolesAreOnRoster
  BY <1>1, <1>2, RosterOK DEF RolesAreOnRoster, Referential
<1>5. LeadersFamiliesExempt
  BY <1>1, <1>2, RosterOK DEF LeadersFamiliesExempt
<1>6. Settled
  BY <1>1 DEF Settled
<1> QED
  BY <1>3, <1>4, <1>5, <1>6 DEF IInv

-----------------------------------------------------------------------------
(* An import.                                                              *)

LEMMA ImportTypes ==
  ASSUME TypeOK, NEW t \in Team, NEW file \in File, Import(t, file)
  PROVE  TypeOK'
<1>0. \A e \in Guardians(file) : NameIn(file, e) \in Name \union {Unnamed}
  BY NameType
<1>1. DOMAIN name' = DOMAIN name \union Guardians(file)
  BY DEF Import
<1>2. DOMAIN name' \subseteq Person /\ name' \in [DOMAIN name' -> Name \union {Unnamed}]
  <2>1. Guardians(file) \subseteq Person
    BY LeadersAreGuardians
  <2>2. \A e \in DOMAIN name' : name'[e] \in Name \union {Unnamed}
    BY <1>0, <1>1 DEF Import, TypeOK, Renamed
  <2> QED
    BY <1>1, <2>1, <2>2 DEF Import, TypeOK
<1>3. DOMAIN exempt' = DOMAIN exempt \union ({t} \X PlayersIn(file))
  BY DEF Import
<1>4. DOMAIN exempt' \subseteq Player /\ exempt' \in [DOMAIN exempt' -> BOOLEAN]
  <2>1. PlayersIn(file) \subseteq Name
    BY FileType DEF PlayersIn
  <2>2. \A x \in DOMAIN exempt' : exempt'[x] \in BOOLEAN
    BY <1>3 DEF Import, ExemptAfter, TypeOK
  <2> QED
    BY <1>3, <2>1, <2>2 DEF Import, TypeOK
<1>5. link' \subseteq (DOMAIN name') \X (DOMAIN exempt')
  <2> SUFFICES ASSUME NEW l \in link' PROVE l \in (DOMAIN name') \X (DOMAIN exempt')
    OBVIOUS
  <2>1. l \in LinksAfter(t, file)
    BY DEF Import
  <2>2. CASE l \in link
    BY <2>2, <1>1, <1>3 DEF TypeOK
  <2>3. CASE \E e \in Guardians(file) : \E c \in ChildrenOf(file, e) : l = <<e, <<t, c>>>>
    BY <2>3, <1>1, <1>3, ChildrenArePlayers, LeadersAreGuardians
  <2> QED
    BY <2>1, <2>2, <2>3, NewLinks
<1>6. role' \subseteq {r \in TeamRole : r[1] \in DOMAIN name'}
  BY <1>1, LeadersAreGuardians DEF Import, RolesAfter, TypeOK
<1>7. last' \in [Team -> File \union {NoFile}]
  BY DEF Import, TypeOK
<1> QED
  BY <1>2, <1>4, <1>5, <1>6, <1>7 DEF TypeOK

LEMMA ImportRoster ==
  ASSUME TypeOK, RolesAreOnRoster, NEW t \in Team, NEW file \in File, Import(t, file)
  PROVE  RolesAreOnRoster'
<1>1. link' = LinksAfter(t, file) /\ DOMAIN exempt \subseteq DOMAIN exempt'
  BY DEF Import
<1>2. DOMAIN exempt' = DOMAIN exempt \union ({t} \X PlayersIn(file))
  BY DEF Import
<1> SUFFICES ASSUME NEW r \in role'
             PROVE  \E x \in DOMAIN exempt' : x[1] = r[2] /\ <<r[1], x>> \in link'
  BY DEF RolesAreOnRoster
<1>3. CASE r \in role
  <2>1. PICK x \in DOMAIN exempt : x[1] = r[2] /\ <<r[1], x>> \in link
    BY <1>3 DEF RolesAreOnRoster
  <2> QED
    BY <2>1, <1>1, NewLinks
<1>4. CASE r \notin role
  <2>1. PICK e \in Leaders(file) : r = <<e, t, "leader">>
    BY <1>4 DEF Import, RolesAfter
  <2>2. PICK c \in ChildrenOf(file, e) : TRUE
    BY ChildrenArePlayers, LeadersAreGuardians
  <2>3. <<t, c>> \in DOMAIN exempt' /\ <<e, <<t, c>>>> \in link'
    BY <2>2, <1>1, <1>2, ChildrenArePlayers, LeadersAreGuardians, NewLinks
  <2> QED
    BY <2>1, <2>3
<1> QED
  BY <1>3, <1>4

LEMMA ImportExempts ==
  ASSUME TypeOK, LeadersFamiliesExempt, NEW t \in Team, NEW file \in File, Import(t, file)
  PROVE  LeadersFamiliesExempt'
<1>0. TypeOK'
  BY ImportTypes
<1> SUFFICES ASSUME NEW x \in DOMAIN exempt'
             PROVE  exempt'[x] <=> \E e \in DOMAIN name' : <<e, x>> \in link'
                                                            /\ <<e, x[1], "leader">> \in role'
  BY DEF LeadersFamiliesExempt
<1>1. exempt'[x] = ExemptAfter(x, t, file)
  BY DEF Import
<1>2. link' = LinksAfter(t, file) /\ role' = RolesAfter(t, file)
  BY DEF Import
<1>3. DOMAIN name' = DOMAIN name \union Guardians(file)
  BY DEF Import
<1>4. CASE x[1] = t
  <2>1. \A e : <<e, t, "leader">> \in role' <=> e \in Leaders(file)
    BY <1>2 DEF RolesAfter
  <2> QED
    BY <1>1, <1>2, <1>3, <1>4, <2>1, LeadersAreGuardians DEF ExemptAfter
<1>5. CASE x[1] # t
  <2>1. x \in DOMAIN exempt /\ x \in Player
    BY <1>5, <1>0 DEF Import, TypeOK
  <2>2. exempt'[x] = exempt[x]
    BY <1>1, <1>5 DEF ExemptAfter
  <2>3. \A e : <<e, x>> \in link' <=> <<e, x>> \in link
    BY <1>2, <1>5, NewLinks
  <2>4. \A e : <<e, x[1], "leader">> \in role' <=> <<e, x[1], "leader">> \in role
    BY <1>2, <1>5 DEF RolesAfter
  <2>5. \A e : <<e, x>> \in link => e \in DOMAIN name
    BY DEF TypeOK
  <2>6. exempt[x] <=> \E e \in DOMAIN name : <<e, x>> \in link /\ <<e, x[1], "leader">> \in role
    BY <2>1 DEF LeadersFamiliesExempt
  <2> QED
    BY <2>2, <2>3, <2>4, <2>5, <2>6, <1>3
<1> QED
  BY <1>4, <1>5

LEMMA ImportSettles ==
  ASSUME TypeOK, Settled, NEW t \in Team, NEW file \in File, Import(t, file)
  PROVE  Settled'
<1>1. /\ link' = LinksAfter(t, file) /\ role' = RolesAfter(t, file)
      /\ DOMAIN exempt' = DOMAIN exempt \union ({t} \X PlayersIn(file))
      /\ last' = [last EXCEPT ![t] = file]
  BY DEF Import
<1> SUFFICES ASSUME NEW u \in Team, last'[u] # NoFile
             PROVE  /\ {u} \X PlayersIn(last'[u]) \subseteq DOMAIN exempt'
                    /\ \A e \in Guardians(last'[u]) : \A c \in ChildrenOf(last'[u], e) :
                         <<e, <<u, c>>>> \in link'
                    /\ \A e \in Person : <<e, u, "leader">> \in role' <=> e \in Leaders(last'[u])
  BY DEF Settled
<1>2. CASE u = t
  <2>1. last'[u] = file
    BY <1>1, <1>2 DEF TypeOK
  <2>2. \A e : <<e, u, "leader">> \in role' <=> e \in Leaders(file)
    BY <1>1, <1>2 DEF RolesAfter
  <2> QED
    BY <1>1, <1>2, <2>1, <2>2, NewLinks
<1>3. CASE u # t
  <2>1. last'[u] = last[u]
    BY <1>1, <1>3 DEF TypeOK
  <2>2. \A e : <<e, u, "leader">> \in role' <=> <<e, u, "leader">> \in role
    BY <1>1, <1>3 DEF RolesAfter
  <2> QED
    BY <1>1, <2>1, <2>2, NewLinks DEF Settled
<1> QED
  BY <1>2, <1>3

-----------------------------------------------------------------------------
(* The ansvariga.                                                          *)

LEMMA TeamAdminsKeep ==
  ASSUME IInv, NEW t \in Team, NEW e \in Person, AddTeamAdmin(t, e) \/ RemoveTeamAdmin(t, e)
  PROVE  IInv'
<1> USE DEF IInv
<1>1. UNCHANGED <<name, exempt, link, last>>
  BY DEF AddTeamAdmin, RemoveTeamAdmin
<1>2. \A p, u : <<p, u, "leader">> \in role' <=> <<p, u, "leader">> \in role
  BY DEF AddTeamAdmin, RemoveTeamAdmin
<1>3. \A r \in role' : r \in role \/ (r = <<e, t, "ansvarig">> /\ OnRoster(e, t))
  BY DEF AddTeamAdmin, RemoveTeamAdmin
<1>4. TypeOK'
  <2>1. OnRoster(e, t) => e \in DOMAIN name
    BY DEF OnRoster, TypeOK
  <2>2. role' \subseteq {r \in TeamRole : r[1] \in DOMAIN name}
    BY <1>3, <2>1 DEF TypeOK
  <2> QED
    BY <1>1, <2>2 DEF TypeOK
<1>5. RolesAreOnRoster'
  <2> SUFFICES ASSUME NEW r \in role'
               PROVE  \E x \in DOMAIN exempt' : x[1] = r[2] /\ <<r[1], x>> \in link'
    BY DEF RolesAreOnRoster
  <2>1. CASE r \in role
    BY <2>1, <1>1 DEF RolesAreOnRoster
  <2>2. CASE r = <<e, t, "ansvarig">> /\ OnRoster(e, t)
    BY <2>2, <1>1 DEF OnRoster
  <2> QED
    BY <2>1, <2>2, <1>3
<1>6. LeadersFamiliesExempt'
  BY <1>1, <1>2 DEF LeadersFamiliesExempt
<1>7. Settled'
  BY <1>1, <1>2 DEF Settled
<1> QED
  BY <1>4, <1>5, <1>6, <1>7

LEMMA StepKeeps == IInv /\ [Next]_vars => IInv'
<1> SUFFICES ASSUME IInv, [Next]_vars PROVE IInv'
  OBVIOUS
<1>1. CASE Next
  <2>1. PICK t \in Team : \/ \E file \in File : Import(t, file)
                          \/ \E e \in Person : AddTeamAdmin(t, e) \/ RemoveTeamAdmin(t, e)
    BY <1>1 DEF Next
  <2>2. CASE \E file \in File : Import(t, file)
    BY <2>2, ImportTypes, ImportRoster, ImportExempts, ImportSettles DEF IInv
  <2>3. CASE \E e \in Person : AddTeamAdmin(t, e) \/ RemoveTeamAdmin(t, e)
    BY <2>3, TeamAdminsKeep
  <2> QED
    BY <2>1, <2>2, <2>3
<1>2. CASE UNCHANGED vars
  BY <1>2 DEF vars, IInv, TypeOK, RolesAreOnRoster, LeadersFamiliesExempt, Settled
<1> QED
  BY <1>1, <1>2

THEOREM Inductive == Spec => []IInv
BY InitHolds, StepKeeps, PTL DEF Spec

-----------------------------------------------------------------------------
(* The theorems.                                                           *)

\* No import writes a link or a role of, or to, somebody who is not there.
THEOREM TypeCorrect == Spec => []TypeOK
<1>1. IInv => TypeOK
  BY DEF IInv
<1> QED
  BY <1>1, Inductive, PTL

\* For every history of exports, exactly the leaders' children are exempt.
THEOREM ExemptFollowsLeaders == Spec => []LeadersFamiliesExempt
<1>1. IInv => LeadersFamiliesExempt
  BY DEF IInv
<1> QED
  BY <1>1, Inductive, PTL

\* Whoever has a role in a team has a child on it.
THEOREM RolesStayOnRoster == Spec => []RolesAreOnRoster
<1>1. IInv => RolesAreOnRoster
  BY DEF IInv
<1> QED
  BY <1>1, Inductive, PTL

\* An import takes no child from anybody and no ansvarig from a team.
THEOREM NobodyIsLost == Spec => NobodyLosesAChild
<1> DEFINE Keeps == /\ DOMAIN name \subseteq DOMAIN name'
                    /\ DOMAIN exempt \subseteq DOMAIN exempt'
                    /\ link \subseteq link'
                    /\ last' # last => \A r \in role : r[3] = "ansvarig" => r \in role'
<1>1. ASSUME TypeOK, Next PROVE Keeps
  <2>1. PICK t \in Team : \/ \E file \in File : Import(t, file)
                          \/ \E e \in Person : AddTeamAdmin(t, e) \/ RemoveTeamAdmin(t, e)
    BY <1>1 DEF Next
  <2>2. ASSUME NEW file \in File, Import(t, file) PROVE Keeps
    BY <2>2 DEF Import, LinksAfter, RolesAfter
  <2>3. ASSUME NEW e \in Person, AddTeamAdmin(t, e) \/ RemoveTeamAdmin(t, e) PROVE Keeps
    BY <2>3 DEF AddTeamAdmin, RemoveTeamAdmin
  <2> QED
    BY <2>1, <2>2, <2>3
<1>2. TypeOK /\ [Next]_vars => [Keeps]_vars
  BY <1>1
<1> QED
  BY <1>2, TypeCorrect, PTL DEF Spec, NobodyLosesAChild

\* One team's export never touches another team's rows, nor the name of
\* anybody who is tied to another team.
THEOREM OneTeamAtATime == Spec => OtherTeamsUntouched
<1> DEFINE Within(t) ==
      /\ \A x \in DOMAIN exempt : x[1] # t => x \in DOMAIN exempt' /\ exempt'[x] = exempt[x]
      /\ \A x \in DOMAIN exempt' \ DOMAIN exempt : x[1] = t
      /\ \A l \in link \union link' : l[2][1] # t => l \in link /\ l \in link'
      /\ \A r \in role \union role' : r[2] # t => r \in role /\ r \in role'
      /\ \A e \in DOMAIN name : e \in DOMAIN name' /\ (name'[e] # name[e] => Ties(e) = {t})
<1>1. ASSUME TypeOK, Next PROVE \E t \in Team : Within(t)
  <2>1. PICK t \in Team : \/ \E file \in File : Import(t, file)
                          \/ \E e \in Person : AddTeamAdmin(t, e) \/ RemoveTeamAdmin(t, e)
    BY <1>1 DEF Next
  <2>2. ASSUME NEW file \in File, Import(t, file) PROVE Within(t)
    <3>1. \A x \in DOMAIN exempt : x[1] # t => x \in DOMAIN exempt' /\ exempt'[x] = exempt[x]
      BY <2>2 DEF Import, ExemptAfter
    <3>2. \A x \in DOMAIN exempt' \ DOMAIN exempt : x[1] = t
      BY <2>2 DEF Import
    <3>3. \A l \in link \union link' : l[2][1] # t => l \in link /\ l \in link'
      BY <2>2, NewLinks DEF Import
    <3>4. \A r \in role \union role' : r[2] # t => r \in role /\ r \in role'
      BY <2>2 DEF Import, RolesAfter
    <3>5. \A e \in DOMAIN name : e \in DOMAIN name' /\ (name'[e] # name[e] => Ties(e) = {t})
      BY <2>2 DEF Import, Renamed
    <3> QED
      BY <3>1, <3>2, <3>3, <3>4, <3>5
  <2>3. ASSUME NEW e \in Person, AddTeamAdmin(t, e) \/ RemoveTeamAdmin(t, e) PROVE Within(t)
    BY <2>3 DEF AddTeamAdmin, RemoveTeamAdmin
  <2> QED
    BY <2>1, <2>2, <2>3
<1>2. TypeOK /\ [Next]_vars => [\E t \in Team : Within(t)]_vars
  BY <1>1
<1> QED
  BY <1>2, TypeCorrect, PTL DEF Spec, OtherTeamsUntouched

\* Importing a team's last export again changes no child, link or role.
THEOREM SecondImportIsIdle == Spec => SameExportAgain
<1> DEFINE Idle == \A t \in Team :
      (last[t] # NoFile /\ Import(t, last[t])) => UNCHANGED <<exempt, link, role>>
<1>1. ASSUME IInv PROVE Idle
  <2> SUFFICES ASSUME NEW t \in Team, last[t] # NoFile, Import(t, last[t])
               PROVE  UNCHANGED <<exempt, link, role>>
    OBVIOUS
  <2> DEFINE file == last[t]
  <2>0. file \in File
    BY <1>1 DEF IInv, TypeOK
  <2>1. link' = link
    <3>1. \A e \in Guardians(file) : \A c \in ChildrenOf(file, e) : <<e, <<t, c>>>> \in link
      BY <1>1 DEF IInv, Settled
    <3>2. LinksAfter(t, file) = link
      BY <3>1 DEF LinksAfter
    <3> QED
      BY <3>2 DEF Import
  <2>2. role' = role
    <3>1. \A e \in Person : <<e, t, "leader">> \in role <=> e \in Leaders(file)
      BY <1>1 DEF IInv, Settled
    <3>2. role \subseteq TeamRole
      BY <1>1 DEF IInv, TypeOK
    <3>3. \A r : r \in role' <=> \/ r \in role /\ (r[2] # t \/ r[3] # "leader")
                                 \/ \E e \in Leaders(file) : r = <<e, t, "leader">>
      BY DEF Import, RolesAfter
    <3>4. \A r \in role : r[2] = t /\ r[3] = "leader" => r = <<r[1], t, "leader">> /\ r[1] \in Person
      BY <3>2
    <3>5. Leaders(file) \subseteq Person
      BY LeadersAreGuardians
    <3>6. \A r : r \in role' <=> r \in role
      BY <3>1, <3>3, <3>4, <3>5
    <3> QED
      BY <3>6
  <2>3. exempt' = exempt
    <3>1. DOMAIN exempt' = DOMAIN exempt
      BY <1>1 DEF Import, IInv, Settled
    <3>2. ASSUME NEW x \in DOMAIN exempt PROVE exempt'[x] = exempt[x]
      <4>1. exempt'[x] = ExemptAfter(x, t, file)
        BY <3>1, <3>2 DEF Import
      <4>2. CASE x[1] # t
        BY <4>1, <4>2 DEF ExemptAfter
      <4>3. CASE x[1] = t
        <5>1. LinksAfter(t, file) = link
          BY <2>1 DEF Import
        <5>2. \A e \in Person : <<e, t, "leader">> \in role <=> e \in Leaders(file)
          BY <1>1 DEF IInv, Settled
        <5>3. exempt[x] <=> \E e \in DOMAIN name : <<e, x>> \in link /\ <<e, t, "leader">> \in role
          BY <1>1, <3>2, <4>3 DEF IInv, LeadersFamiliesExempt
        <5>4. DOMAIN name \subseteq Person /\ \A e : <<e, x>> \in link => e \in DOMAIN name
          BY <1>1 DEF IInv, TypeOK
        <5>5. Leaders(file) \subseteq Person
          BY LeadersAreGuardians
        <5>6. exempt[x] \in BOOLEAN /\ exempt'[x] \in BOOLEAN
          BY <1>1, <3>2, <4>1, <4>3 DEF IInv, TypeOK, ExemptAfter
        <5>7. exempt'[x] <=> \E e \in Leaders(file) : <<e, x>> \in link
          BY <4>1, <4>3, <5>1 DEF ExemptAfter
        <5> QED
          BY <5>2, <5>3, <5>4, <5>5, <5>6, <5>7
      <4> QED
        BY <4>2, <4>3
    <3>3. exempt = [x \in DOMAIN exempt |-> exempt[x]] /\ exempt' = [x \in DOMAIN exempt' |-> exempt'[x]]
      BY <1>1 DEF Import, IInv, TypeOK
    <3> QED
      BY <3>1, <3>2, <3>3
  <2> QED
    BY <2>1, <2>2, <2>3
<1>2. IInv /\ [Next]_vars => [Idle]_vars
  BY <1>1
<1> QED
  BY <1>2, Inductive, PTL DEF Spec, SameExportAgain

=============================================================================
