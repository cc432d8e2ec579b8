------------------------------ MODULE Campaign ------------------------------
(***************************************************************************)
(* What run() of scripts/leshan.py promises of a campaign: two rounds with *)
(* a barrier after each.  Every client is begun once in the first round,   *)
(* and in the second round at most once; no round begins, and the campaign *)
(* is not over, before everything that was begun has come to its end.      *)
(* Only SIGINT leaves clients out of the first round or cancels the second.*)
(***************************************************************************)
EXTENDS Integers, FiniteSets

CONSTANTS
  Client,      \* the targets
  MaxThreads   \* --threads, which bounds the first round only

VARIABLES
  round,    \* "download", "update" or "over"
  pending,  \* clients the round has still to come to
  active,   \* clients begun whose end is not known
  began,    \* clients begun in the first round
  stopped   \* SIGINT has come

vars == <<round, pending, active, began, stopped>>

Init ==
  /\ round = "download" /\ pending = Client
  /\ active = {} /\ began = {} /\ stopped = FALSE

Download(c) ==
  /\ round = "download" /\ c \in pending
  /\ Cardinality(active) < MaxThreads
  /\ pending' = pending \ {c}
  /\ active' = active \cup {c} /\ began' = began \cup {c}
  /\ UNCHANGED <<round, stopped>>

Update(c) ==
  /\ round = "update" /\ c \in pending
  /\ pending' = pending \ {c}
  /\ active' = active \cup {c}
  /\ UNCHANGED <<round, began, stopped>>

(* A client with nothing to update.                                        *)
PassOver(c) ==
  /\ round = "update" /\ c \in pending
  /\ pending' = pending \ {c}
  /\ UNCHANGED <<round, active, began, stopped>>

End(c) ==
  /\ c \in active /\ active' = active \ {c}
  /\ UNCHANGED <<round, pending, began, stopped>>

Stop ==
  /\ stopped' = TRUE
  /\ UNCHANGED <<round, pending, active, began>>

LeaveOut ==
  /\ round = "download" /\ stopped
  /\ pending' = {}
  /\ UNCHANGED <<round, active, began, stopped>>

AllHome == pending = {} /\ active = {}

SecondRound ==
  /\ round = "download" /\ AllHome /\ ~stopped
  /\ round' = "update" /\ pending' = began
  /\ UNCHANGED <<active, began, stopped>>

Finish ==
  /\ \/ round = "update"
     \/ round = "download" /\ stopped
  /\ AllHome
  /\ round' = "over"
  /\ UNCHANGED <<pending, active, began, stopped>>

Next ==
  \/ \E c \in Client : Download(c) \/ Update(c) \/ PassOver(c) \/ End(c)
  \/ Stop \/ LeaveOut \/ SecondRound \/ Finish

Spec == Init /\ [][Next]_vars
=============================================================================
