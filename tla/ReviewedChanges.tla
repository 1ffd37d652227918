-------------------------- MODULE ReviewedChanges ---------------------------
(***************************************************************************)
(* What the two-step admin interface promises: besides the parents' own    *)
(* writes, the rows change only by a plan that somebody allowed to has     *)
(* reviewed and that the rows of that very moment still give.              *)
(***************************************************************************)
CONSTANTS
  Person,           \* the people who log in
  Act,              \* the inputs of the admin actions
  Start,            \* the rows the system may start from
  Refused,          \* not a plan: the input is not valid for the rows
  PlanOf(_, _, _),  \* the plan of a person's input for the rows: a record of
                    \* its digest and of the rows as its writes leave them
  ParentWrites(_)   \* what the parents' own handlers may make of the rows

VARIABLES
  data,      \* the committed rows
  reviewed   \* who was shown which plan: <<person, input, digest>>

vars == <<data, reviewed>>

Init == data \in Start /\ reviewed = {}

\* Granska showed somebody a plan.
Review ==
  /\ \E review \in reviewed' : reviewed' = reviewed \union {review}
  /\ UNCHANGED data

\* Genomför.
Apply(who, act) ==
  LET plan == PlanOf(who, act, data) IN
  /\ plan # Refused
  /\ <<who, act, plan.digest>> \in reviewed
  /\ data' = plan.data
  /\ UNCHANGED reviewed

Parents ==
  /\ data' \in ParentWrites(data)
  /\ UNCHANGED reviewed

Next ==
  \/ Review
  \/ \E who \in Person, act \in Act : Apply(who, act)
  \/ Parents

Spec == Init /\ [][Next]_vars

=============================================================================
