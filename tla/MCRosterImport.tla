---------------------------- MODULE MCRosterImport ----------------------------
(***************************************************************************)
(* A small instance of RosterImport: two teams with a child of one name on *)
(* each, two people, and exports in which parents gain and lose            *)
(* leadership, change names, and have a sibling on the other team.         *)
(***************************************************************************)
EXTENDS RosterImport, TLC

CONSTANTS u10, u12, pa, pb, elsa, bo, eva, evy

MCTeam == {u10, u12}
MCPerson == {pa, pb}
MCName == {elsa, bo, eva, evy}

Child(x) == [name |-> x, email |-> NoEmail, parents |-> TRUE, children |-> {}]
Parent(e, n, kids) == [name |-> n, email |-> e, parents |-> FALSE, children |-> kids]
Leader(e, n) == Parent(e, n, {})

MCFile == {
  <<Child(elsa), Parent(pa, eva, {elsa, bo}), Leader(pa, eva)>>,
  <<Child(elsa), Child(bo), Parent(pa, evy, {elsa}), Parent(pb, Unnamed, {bo}), Leader(pb, Unnamed)>>,
  <<Parent(pb, evy, {bo}), Parent(pb, eva, {elsa}), Child(bo), Leader(pa, eva)>>,
  <<Child(elsa), Parent(NoEmail, eva, {elsa}), Parent(pb, eva, {elsa, bo}), Leader(pb, eva)>>}

MCStart == {
  [name |-> [e \in {} |-> eva], player |-> {}, link |-> {}, role |-> {}],
  [name |-> (pa :> evy), player |-> {<<u12, bo>>}, link |-> {<<pa, <<u12, bo>>>>},
   role |-> {<<pa, u12, "ansvarig">>}],
  [name |-> (pb :> Unnamed), player |-> {<<u10, bo>>}, link |-> {}, role |-> {}]}

=============================================================================
