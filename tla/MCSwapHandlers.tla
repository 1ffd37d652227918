--------------------------- MODULE MCSwapHandlers ---------------------------
(***************************************************************************)
(* A small club for SwapHandlers: pa has a child on each team; the first   *)
(* schedule has two or three seats, all of one team.                       *)
(***************************************************************************)
EXTENDS SwapHandlers, TLC

CONSTANTS anna, bo, cleo, dan, pa, pb, pb2, pc, u10, u12, morning, evening

MCPlayer == {anna, bo, cleo, dan}
MCPlayerTeam == [x \in MCPlayer |-> IF x = dan THEN u12 ELSE u10]
MCShift == {morning, evening}
MCTeam == {u10, u12}
On(x, team, shift) == [player |-> x, team |-> team, shift |-> shift]

MCPerson == {pa, pb, pc}
MCKidsOf == [p \in MCPerson |->
               CASE p = pa -> {anna, dan} [] p = pb -> {bo} [] OTHER -> {cleo}]

SmallPlayer == {anna, bo, dan}
SmallPlayerTeam == [x \in SmallPlayer |-> IF x = dan THEN u12 ELSE u10]
SmallPerson == {pa, pb}
SmallKidsOf == [p \in SmallPerson |-> IF p = pa THEN {anna, dan} ELSE {bo}]

\* Two seats, which two requests must share.
TwoRosters == {<<On(anna, u10, morning), On(bo, u10, evening)>>}
TwoSlot == 1 .. 2

\* One evening: two slot ids, the second of which may come back for u12.
MixedRosters == {<<On(anna, u10, evening), On(bo, u10, evening)>>}
MixedShift == {evening}
\* The threads are interchangeable, and the invariants name none.
AnyThread == Permutations(Thread)

\* bo's two parents, of whom pb2 has cleo as well: an offer between bo and
\* cleo is one AcceptedMeansTraded leaves out.
PairPerson == {pa, pb, pb2, pc}
PairKidsOf == [p \in PairPerson |->
                 CASE p = pa -> {anna, dan} [] p = pb -> {bo} [] p = pb2 -> {bo, cleo} [] OTHER -> {cleo}]
TradeRosters == {<<On(anna, u10, morning), On(bo, u10, morning), On(cleo, u10, evening)>>}
TradeSlot == 1 .. 3

=============================================================================
