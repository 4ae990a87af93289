------------------------------ MODULE Replacement ------------------------------
(***************************************************************************)
(* What a table that jobs load shows its readers, whatever is done to it   *)
(* by renaming: a load that completed, and after it only later ones.       *)
(***************************************************************************)
EXTENDS Naturals

VARIABLES
  shown,    \* the load the table's readers are owed
  complete  \* the loads of which every row was written

vars == <<shown, complete>>

Init ==
  /\ shown = 0
  /\ complete = {0}

(* Every row of a new load has been written. *)
Complete ==
  /\ \E n \in complete' :
       /\ complete' = complete \cup {n}
       /\ \A m \in complete : m < n
  /\ UNCHANGED shown

(* A complete load takes the place of the one before. *)
Show ==
  /\ shown' \in complete
  /\ shown < shown'
  /\ UNCHANGED complete

Next == Complete \/ Show

Spec == Init /\ [][Next]_vars
===============================================================================
