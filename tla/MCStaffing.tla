----------------------------- MODULE MCStaffing -----------------------------
(***************************************************************************)
(* A small team for Staffing: anna and axel are siblings, bo is alone, and *)
(* lo is a leader's child.  Days 5 and 6 are a weekend, 12 is the next     *)
(* Saturday, and day 14 begins another season.                             *)
(***************************************************************************)
EXTENDS Staffing

CONSTANTS anna, axel, bo, lo, cafe

MCPlayer == {anna, axel, bo, lo}
MCFamily == [p \in MCPlayer |-> CASE p \in {anna, axel} -> {"a"} [] p = bo -> {"b"} [] OTHER -> {"l"}]
MCDay == {5, 6, 12, 15}

At(day, time, x) == [day |-> day, time |-> time, place |-> cafe, player |-> x]

\* A Saturday shift of two seats and a later one of two, the next Saturday, an
\* undated shift of two seats, and a shift of the next season.  In one roster
\* anna has two shifts on a day already.
MCSlot == 1 .. 8
MCRosters ==
  {<<At(5, 9, Nobody), At(5, 9, x), At(5, 12, x), At(5, 12, lo), At(12, 9, Nobody),
     At(99, 9, Nobody), At(99, 9, bo), At(15, 9, IF x = anna THEN Nobody ELSE anna)>> :
       x \in {Nobody, anna}}
  \union
  {<<At(5, 9, Nobody), At(5, 9, anna), At(5, 12, axel), At(5, 12, bo), At(12, 9, Nobody),
     At(99, 9, Nobody), At(99, 9, bo), At(15, 9, Nobody)>>}

=============================================================================
