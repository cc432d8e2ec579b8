---------------------------- MODULE MCFotaUpdate ----------------------------
(* Fault sets for the runs of FotaUpdate.                                  *)
EXTENDS FotaUpdate

EveryFault    == Operation
IgnoredErrors == {"request", "load", "torn"}   \* what the code does not notice
NoFault       == {}
=============================================================================
