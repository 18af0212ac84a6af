------------------------------ MODULE Rundown -------------------------------
(***************************************************************************)
(* What everything a driver frees at unload owes to the callbacks that use *)
(* it: it is there before the first user enters, and it goes only when the *)
(* last one has left.  MiniFilter implements it twice, for the list of     *)
(* filter functions and for the process map.                               *)
(***************************************************************************)
CONSTANT Users    \* whoever may use the resource

VARIABLES alive,   \* the resource can be used
          users    \* who is using it

TypeOK == alive \in BOOLEAN /\ users \subseteq Users

Init == ~alive /\ users = {}

Provide == ~alive /\ alive' = TRUE /\ users = {} /\ users' = {}

Enter(u) == alive /\ users' = users \cup {u} /\ UNCHANGED alive

Leave(u) == users' = users \ {u} /\ UNCHANGED alive

Release == alive /\ alive' = FALSE /\ users = {} /\ users' = {}

\* The machine starts over.
Restart == alive' = FALSE /\ users' = {}

Next == Provide \/ Release \/ Restart \/ \E u \in Users : Enter(u) \/ Leave(u)

Spec == Init /\ [][Next]_<<alive, users>>
=============================================================================
