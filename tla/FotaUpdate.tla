----------------------------- MODULE FotaUpdate -----------------------------
(***************************************************************************)
(* The life of a firmware update on one device: from the download the      *)
(* server asks for (src/lwm2m.c, firmware callbacks), through the update   *)
(* counter kept in flash (src/settings.c), the reboot, the bootloader's    *)
(* test swap, to lwm2m_image_init, which confirms the new image, erases    *)
(* the old one, commits the counter and decides which result the Firmware  *)
(* object reports.                                                         *)
(*                                                                         *)
(* Two threads interleave: the main thread, which runs lwm2m_start from    *)
(* the application work queue, and the LwM2M engine thread, which runs the *)
(* callbacks.  Every flash operation is a step of its own, because power   *)
(* loss and a Bluetooth disconnection (src/bluetooth.c reboots on it) can  *)
(* fall between any two of them.                                           *)
(*                                                                         *)
(* The block-wise transfer itself is abstracted to three actions here;     *)
(* module BlockDownload has its detail.                                    *)
(***************************************************************************)
EXTENDS Integers

CONSTANTS
  MaxImages,   \* bound: images the server offers, numbered 1..MaxImages
  MaxResets,   \* bound: unplanned resets (power loss, Bluetooth disconnect)
  Fallible,    \* the operations that may return an error
  Flapping     \* TRUE if the interface may come up again after the first time

Operation == {"selftest", "load", "bind", "save", "confirm", "erase",
              "request", "setup",
              "torn"}   \* a load that breaks off between the two counters

ASSUME FotaAssumption ==
  /\ MaxImages \in Nat
  /\ MaxResets \in Nat
  /\ Fallible \subseteq Operation
  /\ Flapping \in BOOLEAN

Image == 0..MaxImages        \* 0 is the image programmed at the factory
Blank == -1                  \* an erased bank
Junk  == -2                  \* a partial or refused image, a half-erased bank
None  == -3                  \* no update was ever accepted
NoUpdate == -1               \* the value of counter.update the code tests for
Content == Image \cup {Blank, Junk}

VARIABLES
  (* flash, survives a reset *)
  slot0,       \* content of bank 0, which the bootloader runs
  slot1,       \* content of bank 1, which downloads are written to
  trailer,     \* "factory", "trial" (swapped in, not confirmed), "ok"
  upgrade,     \* TRUE if bank 1 is marked for a test swap
  stored,      \* the settings record fota/counter
  (* RAM, lost by a reset *)
  main,        \* where the main thread is, "off" while the device is down
  engine,      \* where the engine thread is, "down" until the client starts
  fw,          \* state of the Firmware object, resource 5/0/3
  uc,          \* the cached update counter
  counter,     \* lwm2m_image_init's own copy of it
  result,      \* resource 5/0/5
  armed,       \* TRUE if reboot_work is pending
  (* bookkeeping of the model *)
  offered,     \* images downloaded so far
  resets,      \* unplanned resets so far
  target,      \* history: content of bank 1 when the last update was accepted
  misread,     \* history: how this boot read the record, see LoadCounter
  forgotten    \* history: a pending reboot_work was lost, see Setup

flash == <<slot0, slot1, trailer, upgrade, stored>>
ram   == <<main, engine, fw, uc, counter, result, armed>>
ghost == <<misread, forgotten>>
vars  == <<flash, ram, offered, resets, target, ghost>>

Counter == [current : Nat, update : Nat]

TypeOK ==
  /\ slot0 \in Content /\ slot1 \in Content
  /\ trailer \in {"factory", "trial", "ok"}
  /\ upgrade \in BOOLEAN
  /\ stored \in Counter /\ uc \in Counter /\ counter \in Counter
  /\ main \in {"off", "start", "confirm", "erase", "commit", "report",
               "setup", "sleep", "serving", "failed", "stopped"}
  /\ engine \in {"down", "ready", "request", "arm"}
  /\ fw \in {"idle", "downloading", "downloaded", "updating"}
  /\ result \in {"default", "success", "update_failed"}
  /\ armed \in BOOLEAN
  /\ offered \in 0..MaxImages
  /\ resets \in 0..MaxResets
  /\ target \in Content \cup {None}
  /\ misread \in {"no", "zero", "torn"}
  /\ forgotten \in BOOLEAN

ZeroCounter_NoUpdate == [current |-> 0, update |-> -1]

(* uc is a zeroed static, and set() zeroes it again after a short read.    *)
ZeroCounter == [current |-> 0, update |-> 0]

Init ==
  /\ slot0 = 0 /\ slot1 = Blank /\ trailer = "factory" /\ upgrade = FALSE
  /\ stored = ZeroCounter
  /\ main = "off" /\ engine = "down" /\ fw = "idle"
  /\ uc = ZeroCounter /\ counter = ZeroCounter
  /\ result = "default" /\ armed = FALSE
  /\ offered = 0 /\ resets = 0 /\ target = None
  /\ misread = "no" /\ forgotten = FALSE

-----------------------------------------------------------------------------
(* The bootloader and the start of the application.                        *)

(* A requested image is swapped in for a trial if it verifies.             *)
TestSwap ==
  /\ upgrade /\ slot1 \in Image
  /\ slot0' = slot1 /\ slot1' = slot0 /\ trailer' = "trial"

(* An image still on trial was not confirmed by its first run: swap back.  *)
Revert ==
  /\ ~upgrade /\ trailer = "trial"
  /\ slot0' = slot1 /\ slot1' = slot0 /\ trailer' = "ok"

NoSwap ==
  /\ IF upgrade THEN slot1 \notin Image ELSE trailer # "trial"
  /\ UNCHANGED <<slot0, slot1, trailer>>

(* set() loads the record.  A short read leaves the counter at zero.  A    *)
(* read error is negative, not less than an unsigned sizeof(uc): whatever  *)
(* was read before it stays, which may be COUNTER_CURRENT alone.           *)
LoadCounter ==
  \/ uc' = stored /\ misread' = "no"
  \/ "load" \in Fallible /\ uc' = ZeroCounter /\ misread' = "zero"
  \/ /\ "torn" \in Fallible
     /\ uc' = [stored EXCEPT !.update = 0] /\ misread' = "torn"

(* main() returns early if the self test fails.                            *)
SelfTest ==
  main' = "start" \/ ("selftest" \in Fallible /\ main' = "stopped")

(* The bootloader picks an image and jumps to it if there is one; main()   *)
(* then loads the settings before lwm2m_init.                              *)
Boot ==
  /\ main = "off"
  /\ TestSwap \/ Revert \/ NoSwap
  /\ slot0' \in Image
  /\ upgrade' = FALSE
  /\ LoadCounter
  /\ SelfTest
  /\ UNCHANGED <<stored, engine, fw, counter, result, armed, offered, resets,
                 target, forgotten>>

LoseRam ==
  /\ main' = "off" /\ engine' = "down" /\ fw' = "idle"
  /\ uc' = ZeroCounter /\ counter' = ZeroCounter
  /\ result' = "default" /\ armed' = FALSE
  /\ misread' = "no" /\ forgotten' = FALSE

(* Power loss, or disconnected(): sys_reboot at once, whatever runs.       *)
Reset ==
  /\ main # "off" /\ resets < MaxResets
  /\ resets' = resets + 1
  /\ LoseRam
  /\ UNCHANGED <<flash, offered, target>>

(* reboot(): the work handler of reboot_work.  It drops the Bluetooth      *)
(* connection first, and disconnected() reboots as well: the same restart. *)
Reboot ==
  /\ armed
  /\ LoseRam
  /\ UNCHANGED <<flash, offered, resets, target>>

-----------------------------------------------------------------------------
(* The main thread: lwm2m_start, called for NET_EVENT_IF_UP.               *)

MainOnly == UNCHANGED <<engine, fw, offered, resets, target, misread>>

AfterRead_AlwaysCommit == IF trailer = "ok" THEN "commit" ELSE "confirm"

AfterRead_EraseOnly == IF trailer = "ok" THEN "report" ELSE "erase"

(* Only an image that is not confirmed yet goes through confirmation.      *)
AfterRead == IF trailer = "ok" THEN "report" ELSE "confirm"

(* device_get_binding, fota_update_counter_read, boot_is_img_confirmed.    *)
ReadCounter ==
  /\ main = "start"
  /\ \/ counter' = uc /\ main' = AfterRead
     \/ "bind" \in Fallible /\ main' = "failed" /\ UNCHANGED counter
  /\ UNCHANGED <<flash, uc, result, armed, forgotten>>
  /\ MainOnly

ConfirmError_GoesOn == main' = "erase" /\ UNCHANGED trailer

(* An error of boot_write_img_confirmed leaves the image on trial.         *)
ConfirmError == main' = "failed" /\ UNCHANGED trailer

ConfirmImage ==
  /\ main = "confirm"
  /\ \/ trailer' = "ok" /\ main' = "erase"
     \/ "confirm" \in Fallible /\ ConfirmError
  /\ UNCHANGED <<slot0, slot1, upgrade, stored, uc, counter, result, armed,
                 forgotten>>
  /\ MainOnly

(* boot_erase_img_bank(FLASH_BANK1_ID), or boot_invalidate_slot1 if the    *)
(* bank is erased progressively.  An error may leave it half erased.       *)
EraseBank1 ==
  /\ main = "erase"
  /\ \/ /\ slot1' \in {Blank, Junk}
        /\ main' = IF counter.update # NoUpdate THEN "commit" ELSE "report"
     \/ /\ "erase" \in Fallible
        /\ slot1' \in {slot1, Junk}
        /\ main' = "failed"
  /\ UNCHANGED <<slot0, trailer, upgrade, stored, uc, counter, result, armed,
                 forgotten>>
  /\ MainOnly

(* fota_update_counter_update(COUNTER_CURRENT, counter.update): the cache  *)
(* changes first, then the record is saved, then the counter is read back. *)
CommitCounter ==
  /\ main = "commit"
  /\ uc' = [uc EXCEPT !.current = counter.update]
  /\ \/ stored' = uc' /\ counter' = uc' /\ main' = "report"
     \/ "save" \in Fallible /\ main' = "failed" /\ UNCHANGED <<stored, counter>>
  /\ UNCHANGED <<slot0, slot1, trailer, upgrade, result, armed, forgotten>>
  /\ MainOnly

Reported_FailureOnly ==
  IF counter.update > counter.current THEN "update_failed" ELSE result

(* Which result lwm2m_image_init writes to 5/0/5.                          *)
Reported ==
  IF counter.update # NoUpdate /\ counter.current = counter.update
  THEN "success"
  ELSE IF counter.update > counter.current THEN "update_failed" ELSE result

ReportResult ==
  /\ main = "report"
  /\ result' = Reported
  /\ main' = "setup"
  /\ UNCHANGED <<flash, uc, counter, armed, forgotten>>
  /\ MainOnly

(* lwm2m_setup: credentials, resources and callbacks.  k_delayed_work_init *)
(* on a reboot_work that is already pending may lose it.                   *)
Setup ==
  /\ main = "setup"
  /\ \/ main' = "sleep" /\ UNCHANGED <<armed, forgotten>>
     \/ main' = "sleep" /\ armed /\ armed' = FALSE /\ forgotten' = TRUE
     \/ "setup" \in Fallible /\ main' = "failed" /\ UNCHANGED <<armed, forgotten>>
  /\ UNCHANGED <<flash, uc, counter, result>>
  /\ MainOnly

(* The end of lwm2m_start, two seconds later: lwm2m_rd_client_start.       *)
StartClient ==
  /\ main = "sleep"
  /\ main' = "serving"
  /\ engine' = IF engine = "down" THEN "ready" ELSE engine
  /\ UNCHANGED <<flash, fw, uc, counter, result, armed, offered, resets,
                 target, ghost>>

(* event_iface_up stays subscribed: each further event runs lwm2m_start.   *)
InterfaceUpAgain ==
  /\ Flapping
  /\ main \in {"serving", "failed"}
  /\ main' = "start"
  /\ UNCHANGED <<flash, uc, counter, result, armed, forgotten>>
  /\ MainOnly

-----------------------------------------------------------------------------
(* The engine thread: the callbacks of the Firmware and Device objects.    *)

EngineOnly == UNCHANGED <<slot0, trailer, main, counter, resets, misread>>

StartDownload_WhileUpdating ==
  /\ engine = "ready" /\ fw \in {"idle", "updating"}
  /\ fw' = "downloading"
  /\ slot1' = Junk /\ UNCHANGED upgrade
  /\ result' \in {result, "default"}
  /\ UNCHANGED <<stored, engine, uc, armed, offered, target, forgotten>>
  /\ EngineOnly

(* The first block of a transfer erases bank 1 and starts to fill it.  The *)
(* engine may clear the result of the update before.                       *)
StartDownload ==
  /\ engine = "ready" /\ fw = "idle"
  /\ fw' = "downloading"
  /\ slot1' = Junk /\ upgrade' = FALSE
  /\ result' \in {result, "default"}
  /\ UNCHANGED <<stored, engine, uc, armed, offered, target, forgotten>>
  /\ EngineOnly

(* The last block: a complete image, or one the bootloader will refuse.    *)
FinishDownload ==
  /\ engine = "ready" /\ fw = "downloading" /\ offered < MaxImages
  /\ fw' = "downloaded"
  /\ offered' = offered + 1
  /\ slot1' \in {offered', Junk}
  /\ UNCHANGED <<upgrade, stored, engine, uc, armed, target, result,
                 forgotten>>
  /\ EngineOnly

(* The transfer fails or stops; the server may start another.              *)
AbandonDownload ==
  /\ engine = "ready" /\ fw = "downloading"
  /\ fw' = "idle"
  /\ UNCHANGED <<slot1, upgrade, stored, engine, uc, armed, offered,
                 target, result, forgotten>>
  /\ EngineOnly

Bump_FromUpdate == [uc EXCEPT !.update = uc.update + 1]

(* COUNTER_UPDATE becomes current + 1, however often the update is tried.  *)
Bump == [uc EXCEPT !.update = uc.current + 1]

(* firmware_update_cb up to the save.  An error is returned to the engine, *)
(* which may report it and drop the image or let the server try again; the *)
(* cache keeps the bumped value.                                           *)
BumpCounter ==
  /\ engine = "ready" /\ fw = "downloaded"
  /\ uc' = Bump
  /\ \/ /\ stored' = uc'
        /\ engine' = "request" /\ fw' = "updating"
        /\ target' = slot1
        /\ UNCHANGED result
     \/ /\ "save" \in Fallible
        /\ fw' \in {"downloaded", "idle"}
        /\ result' \in {result, "update_failed"}
        /\ UNCHANGED <<stored, engine, target>>
  /\ UNCHANGED <<slot1, upgrade, armed, offered, forgotten>>
  /\ EngineOnly

(* boot_request_upgrade(false), whose return value is not looked at.       *)
RequestUpgrade ==
  /\ engine = "request"
  /\ \/ upgrade' = TRUE
     \/ "request" \in Fallible /\ UNCHANGED upgrade
  /\ engine' = "arm"
  /\ UNCHANGED <<slot1, stored, fw, uc, armed, offered, target, result,
                 forgotten>>
  /\ EngineOnly

ArmReboot_Forgotten ==
  /\ engine = "arm"
  /\ engine' = "ready"
  /\ UNCHANGED <<slot1, upgrade, stored, fw, uc, armed, offered,
                 target, result, forgotten>>
  /\ EngineOnly

(* k_delayed_work_submit(&reboot_work), the end of firmware_update_cb.     *)
ArmReboot ==
  /\ engine = "arm"
  /\ armed' = TRUE /\ forgotten' = FALSE
  /\ engine' = "ready"
  /\ UNCHANGED <<slot1, upgrade, stored, fw, uc, offered, target, result>>
  /\ EngineOnly

(* device_reboot_cb: the server executes 3/0/4.                            *)
DeviceReboot ==
  /\ engine = "ready"
  /\ armed' = TRUE /\ forgotten' = FALSE
  /\ UNCHANGED <<slot1, upgrade, stored, engine, fw, uc, offered,
                 target, result>>
  /\ EngineOnly

-----------------------------------------------------------------------------

MainStep ==
  ReadCounter \/ ConfirmImage \/ EraseBank1 \/ CommitCounter \/ ReportResult
    \/ Setup \/ StartClient

UpdateStep == RequestUpgrade \/ ArmReboot

ServerStep ==
  StartDownload \/ FinishDownload \/ AbandonDownload \/ BumpCounter
    \/ DeviceReboot

Next ==
  \/ Boot \/ Reboot \/ MainStep \/ UpdateStep
  \/ ServerStep \/ Reset \/ InterfaceUpAgain

Spec == Init /\ [][Next]_vars

(* Threads that can run do run and timers expire; the server, the network  *)
(* and the power owe nothing.                                              *)
LiveSpec ==
  /\ Spec
  /\ WF_vars(Boot) /\ WF_vars(Reboot)
  /\ WF_vars(MainStep) /\ WF_vars(UpdateStep)

-----------------------------------------------------------------------------
(* Properties.                                                             *)

(* At every instant a reset is survived: bank 0 holds an image that boots, *)
(* and as long as it is only on trial bank 1 still holds the image to fall *)
(* back to.  It rests on the order confirm, then erase, and on the early   *)
(* return when confirming fails (lwm2m_image_init).                        *)
AlwaysBootable ==
  /\ slot0 \in Image
  /\ trailer = "trial" => slot1 \in Image
  /\ upgrade => trailer = "ok"

(* Nothing of a running update reaches an image on trial: no callback can  *)
(* touch bank 1 or the counter before the image is confirmed, although it  *)
(* is the main thread that confirms and the engine thread that calls.      *)
ServesOnlyConfirmed == engine # "down" => trailer = "ok"

(* The update counter is ahead of the current one by one or not at all,    *)
(* whatever saves fail, updates are retried and resets fall in between.  A *)
(* record that is torn when it is read (settings.c:47) may put the cache   *)
(* and lwm2m_image_init's copy out of step, but never gets back to flash.  *)
CountersInStep ==
  LET InStep(c) == c.update - c.current \in {0, 1} IN
  /\ InStep(stored)
  /\ \A c \in {uc, counter} : InStep(c) \/ (misread = "torn" /\ c.update = 0)

(* The bootloader only ever tries the image of the last update that was    *)
(* accepted: nothing reaches bank 1 between the acceptance and the swap,   *)
(* neither a later transfer nor the erasing of the image before.           *)
OnlyAcceptedIsTried ==
  /\ upgrade => slot1 = target
  /\ trailer = "trial" => slot0 = target

(* A device that said it is updating is on its way to the reboot.  What it *)
(* takes to stop it is lwm2m_setup, run again because the interface came   *)
(* up once more, while reboot_work is pending (lwm2m.c:428); and then      *)
(* executing 3/0/4 still helps.                                            *)
UpdateIsPursued ==
  fw = "updating" =>
    engine \in {"request", "arm"} \/ armed \/ (Flapping /\ forgotten)

(* While no update is under way, a success in 5/0/5 is never a lie about   *)
(* the last accepted update: its image runs and is confirmed.  A device    *)
(* that never accepted one reports a success as well; and what a device    *)
(* says is worth nothing until its next restart if it could not read its   *)
(* counter in this one.                                                    *)
SuccessIsInstalled ==
  result = "success" /\ fw # "updating" /\ misread = "no" =>
    target = None \/ (slot0 = target /\ trailer = "ok")

(* The device implements the fail-safe swap: with an image on trial, bank  *)
(* 0 holds the image under test and bank 1 the good one; otherwise bank 0  *)
(* holds the good one.                                                     *)
Failsafe == INSTANCE FailsafeSwap WITH
  Factory <- 0, NoTrial <- None,
  good  <- IF trailer = "trial" THEN slot1 ELSE slot0,
  trial <- IF trailer = "trial" THEN slot0 ELSE None

(* No interleaving of threads, failed flash operation or reset makes the   *)
(* device lose its good image or keep one that was not confirmed.          *)
ImplementsFailsafe == Failsafe!Spec

(* What the server sees of the device: nothing before the client starts.   *)
View == INSTANCE DeviceView WITH
  status  <- IF engine = "down" THEN "offline" ELSE fw,
  outcome <- IF engine = "down" THEN "default" ELSE result,
  unsure  <- engine # "down" /\ misread = "torn"

(* The server can rely on what it sees, although two threads write 5/0/5:  *)
(* a device never forgets an update it accepted without a restart, and     *)
(* never comes back without a result, save when its record was torn.       *)
ImplementsView == View!Spec

(* An accepted update leads to a reported result, although the request to  *)
(* the bootloader may fail unseen, unless its reboot is forgotten or the   *)
(* record is torn when the device comes back.                              *)
UpdateResolves ==
  fw = "updating" ~>
    \/ fw # "updating" /\ result \in {"success", "update_failed"}
    \/ forgotten
    \/ misread = "torn"

(* "Failed update" (lwm2m.c:611): a failure in 5/0/5 means that the image  *)
(* of the last accepted update does not run.                               *)
FailureIsNotInstalled ==
  result = "update_failed" /\ fw # "updating" => slot0 # target
=============================================================================
