----------------------------- MODULE DeviceView -----------------------------
(***************************************************************************)
(* What a server can rely on when it updates a device and looks at no more *)
(* than the state of the Firmware object (5/0/3) and its result (5/0/5):   *)
(* how a campaign (module LeshanUpdate) sees a device, and what FotaUpdate *)
(* has to keep.  An update once accepted is only ever left by a restart,   *)
(* and a device that comes back has a result to tell, unless it could not  *)
(* read its own record of the update.                                      *)
(***************************************************************************)
VARIABLES
  status,     \* 5/0/3, or "offline"
  outcome,    \* 5/0/5, "default" while the device is offline
  unsure      \* the device came back without its record of the update

vars == <<status, outcome, unsure>>

Told == {"success", "update_failed"}

Init == status = "offline" /\ outcome = "default" /\ unsure = FALSE

GoOffline == status' = "offline" /\ outcome' = "default" /\ unsure' = FALSE

ComeBack ==
  /\ status = "offline" /\ status' = "idle"
  /\ outcome' \in Told \/ (unsure' /\ outcome' = "default")
  /\ unsure' \in BOOLEAN

(* A device whose network comes and goes tells its result again, in        *)
(* whatever state it is, even in the middle of an update.                  *)
TellAgain ==
  /\ status # "offline" /\ status' = status /\ outcome' \in Told
  /\ UNCHANGED unsure

BeginDownload ==
  /\ status = "idle" /\ status' = "downloading"
  /\ outcome' \in {outcome, "default"}
  /\ UNCHANGED unsure

EndDownload ==
  /\ status = "downloading" /\ status' \in {"downloaded", "idle"}
  /\ UNCHANGED <<outcome, unsure>>

Accept ==
  /\ status = "downloaded" /\ status' = "updating"
  /\ UNCHANGED <<outcome, unsure>>

Refuse ==
  /\ status = "downloaded" /\ status' \in {"downloaded", "idle"}
  /\ outcome' \in {outcome, "update_failed"}
  /\ UNCHANGED unsure

Next ==
  \/ GoOffline \/ ComeBack \/ TellAgain
  \/ BeginDownload \/ EndDownload \/ Accept \/ Refuse

Spec == Init /\ [][Next]_vars
=============================================================================
