----------------------------- MODULE MCExecutor -----------------------------
(***************************************************************************)
(* Small instances of Executor: one ansvarig reviews slot actions while    *)
(* parents trade; people make each other ansvariga; and a shift is added   *)
(* again and again.  The first two share no rows, so their states are      *)
(* explored side by side instead of multiplied.                            *)
(***************************************************************************)
EXTENDS Executor, Sequences, TLC

CONSTANTS anna, bo, pa, pb, pc, morning, evening

AnyThread == Permutations(Thread)

On(x, shift) == [player |-> x, shift |-> shift]

Update(S, shift, x) == [do |-> "slot.update", slots |-> S, shift |-> shift, player |-> x]
Delete(S) == [do |-> "slot.delete", slots |-> S]
Create(shift) == [do |-> "slots.create", shift |-> shift]
Add(p) == [do |-> "team_admins.add", person |-> p]
Remove(p) == [do |-> "team_admins.remove", person |-> p]

\* One shift of two seats, taken by two families; evening is the same Saturday.
SlotPlayer == {anna, bo}
SlotPerson == {pa}
SlotShift == {morning, evening}
SlotDayOf == [x \in SlotShift |-> "saturday"]
SlotClash == {<<x, x>> : x \in SlotShift}
SlotStart == {[seat |-> <<On(anna, morning), On(bo, morning)>>, swap |-> <<NoRow>>, role |-> {pa}]}
SlotAct == {Update({2}, Keep, anna), Delete({1, 2})}

\* Three parents, the first two of them ansvariga, the third a club admin;
\* one shift may be moved, and one added.
RolePerson == {pa, pb, pc}
RoleStart == {[seat |-> <<On(anna, morning)>>, swap |-> <<>>, role |-> {pa, pb}]}
RoleAct == {Add(pb), Remove(pa), Remove(pb), Update({1}, evening, Keep), Create(morning)}

\* Either side: the rows it starts from, and who tries what.
VARIABLE side
SidesStart == {[start EXCEPT !.seat = @ \o <<Gone>>, !.swap = <<NoRow>>] : start \in RoleStart}
                \union SlotStart
SidesAct == SlotAct \union RoleAct
Tried == IF side = "slots" THEN SlotPerson \X SlotAct ELSE RolePerson \X RoleAct

SidesInit == Init /\ side = IF data \in SlotStart THEN "slots" ELSE "roles"
SidesNext ==
  /\ Next /\ UNCHANGED side
  /\ \A t \in Thread : job'[t].act # None => <<job'[t].who, job'[t].act>> \in Tried
SidesSpec == SidesInit /\ [][SidesNext]_<<vars, side>>

\* One seat, and more like it to be added.
AddStart == {[seat |-> <<On(anna, morning), Gone, Gone>>, swap |-> <<>>, role |-> {pa}]}
AddAct == {Create(morning)}

=============================================================================
