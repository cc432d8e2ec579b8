--------------------------- MODULE MCBlockDownload ---------------------------
(* Fault sets for the runs of BlockDownload.                               *)
EXTENDS BlockDownload

EveryFault == Fault
GivenUp    == {"giveup"}
NoFault    == {}
=============================================================================
