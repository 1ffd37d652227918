----------------------------- MODULE MCSwapBook -----------------------------
(***************************************************************************)
(* A small club for SwapBook: parent pa has a child on each of the two     *)
(* teams, and pb has one.                                                  *)
(***************************************************************************)
EXTENDS SwapBook, TLC

CONSTANTS anna, bo, dan, pa, pb, u10, u12, morning, evening

MCPlayer == {anna, bo, dan}
MCPerson == {pa, pb}
MCKidsOf == [p \in MCPerson |-> IF p = pa THEN {anna, dan} ELSE {bo}]
MCPlayerTeam == [x \in MCPlayer |-> IF x = dan THEN u12 ELSE u10]
MCTeam == {u10, u12}
MCShift == {morning, evening}
On(x, team, shift) == [player |-> x, team |-> team, shift |-> shift]

\* Two seats in one team, one in the other.
SmallRosters ==
  {<<On(anna, u10, a), On(bo, u10, b), On(dan, u12, b)>> : <<a, b>> \in {<<morning, evening>>, <<evening, morning>>}}
\* The two shifts are interchangeable.
AnyShift == Permutations(MCShift)
SmallSlot == 1 .. 3

=============================================================================
