--------------------------- MODULE MCLeshanUpdate ---------------------------
(* Targets and fault sets for the runs of LeshanUpdate.                    *)
EXTENDS LeshanUpdate
CONSTANTS A, B
Two   == {A, B}
One   == {A}

EveryFault == Fault
NoFault    == {}
=============================================================================
