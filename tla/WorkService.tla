----------------------------- MODULE WorkService -----------------------------
(***************************************************************************)
(* What the application work queue promises those who submit to it: a      *)
(* request made before the item's handler is called is answered by that    *)
(* one call, however often it is repeated; one made from then on, by the   *)
(* handler itself too, by another; nothing is called without a request,    *)
(* and one handler runs at a time.                                         *)
(***************************************************************************)
CONSTANTS
  Work,   \* the work items
  None    \* no item

VARIABLES
  waiting,   \* items requested and not yet taken up
  running    \* the item taken up, or None

vars == <<waiting, running>>

Init == waiting = {} /\ running = None

Request(w) == waiting' = waiting \cup {w} /\ UNCHANGED running

TakeUp(w) ==
  /\ running = None /\ w \in waiting
  /\ running' = w /\ waiting' = waiting \ {w}

Finish == running # None /\ running' = None /\ UNCHANGED waiting

Next == (\E w \in Work : Request(w) \/ TakeUp(w)) \/ Finish

Spec == Init /\ [][Next]_vars
=============================================================================
