------------------------------- MODULE MCAccess -------------------------------
(***************************************************************************)
(* A small instance of both ways in.  Logging in and administering share   *)
(* only who has a session; rights and the limiter share only that a        *)
(* request passes both; and the limiter counts each caller for itself.  So *)
(* three parts are explored side by side instead of multiplied: one logs   *)
(* in and out; in one, rights and keys change around one thread's requests;*)
(* in one, both threads serve one caller whose rights stay as they were.   *)
(***************************************************************************)
EXTENDS AdminDoor, TLC

CONSTANTS pa, u10, u12, t1

VARIABLE part

MCPerson == {pa}
MCTeam == {u10, u12}
MCOnRoster == {<<pa, u10>>}
MCConfig == {{}, {pa}}

SidesInit ==
  /\ DoorInit
  /\ link = [l \in Link |-> NoLink] /\ req = [t \in Thread |-> [at |-> "idle"]]
  /\ \/ part = "login" /\ signed = {} /\ ansvarig = {} /\ clubAdmin = {}
     \/ part \in {"rights", "limiter"} /\ signed = Person

SidesNext ==
  /\ UNCHANGED part
  /\ \/ part = "login" /\ LoginNext /\ UNCHANGED doorVars
     \/ part = "rights" /\ DoorNext /\ \A c \in Thread \ {t1} : call'[c].at = "idle"
     \/ part = "limiter" /\ DoorNext /\ UNCHANGED <<key, ansvarig, clubAdmin>>

\* The fairness is of logging in: runs of the other parts are not fair to
\* anybody who wants to log in, and are checked for safety only.
SidesSpec == SidesInit /\ [][SidesNext]_<<part, accessVars>> /\ LoginFair

=============================================================================
