------------------------------ MODULE LiveView ------------------------------
(***************************************************************************)
(* What the live world promises whoever listens to it: a listener sees     *)
(* the world as it was at some moment, whole, and is told again after      *)
(* whatever changes.  Nothing is said of how: of the sets of identifiers   *)
(* a change lists, the timer, or the batches it is made of.                *)
(***************************************************************************)
CONSTANTS Ids, Things

VARIABLES
  world,  \* what each identifier stands for
  view    \* what the listener has seen of it

lvars == <<world, view>>

Init == world \in [Ids -> Things] /\ view = world

Change == world' \in [Ids -> Things] /\ UNCHANGED view

Tell == view' = world /\ UNCHANGED world

Next == Change \/ Tell

Spec == Init /\ [][Next]_lvars /\ WF_lvars(Tell)
=============================================================================
