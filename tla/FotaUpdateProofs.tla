-------------------------- MODULE FotaUpdateProofs --------------------------
(* Theorems about FotaUpdate, for any number of images and of resets and   *)
(* any set of operations that fail.                                        *)
EXTENDS FotaUpdate, TLAPS

Actions ==
  \/ Boot \/ Reboot \/ Reset \/ InterfaceUpAgain
  \/ ReadCounter \/ ConfirmImage \/ EraseBank1 \/ CommitCounter
  \/ ReportResult \/ Setup \/ StartClient
  \/ RequestUpgrade \/ ArmReboot
  \/ StartDownload \/ FinishDownload \/ AbandonDownload \/ BumpCounter
  \/ DeviceReboot

(* The disjuncts of Next, groups unfolded: the case split of every proof.  *)
LEMMA NextIsActions == Next <=> Actions
  BY DEF Next, Actions, MainStep, UpdateStep, ServerStep

-----------------------------------------------------------------------------
LEMMA InitTypeOK == Init => TypeOK
<1>. USE FotaAssumption DEF FotaAssumption
<1>. SUFFICES ASSUME Init PROVE TypeOK
  OBVIOUS
<1>1. upgrade \in BOOLEAN /\ armed \in BOOLEAN /\ forgotten \in BOOLEAN
  BY DEF Init
<1>2. {slot0, slot1} \subseteq Content /\ target = None
  BY DEF Init, Content, Image
<1>. QED
  BY <1>1, <1>2 DEF Init, TypeOK, Counter, ZeroCounter

LEMMA StepTypeOK == TypeOK /\ [Next]_vars => TypeOK'
<1>. USE FotaAssumption DEF FotaAssumption
<1>. SUFFICES ASSUME TypeOK, [Next]_vars PROVE TypeOK'
  OBVIOUS
<1>. USE DEF TypeOK, Counter
<1>1. CASE Boot
  <2>1. upgrade' \in BOOLEAN /\ armed' \in BOOLEAN /\ forgotten' \in BOOLEAN
    BY <1>1 DEF Boot
  <2>2. {slot0', slot1'} \subseteq Content
    BY <1>1 DEF Boot, TestSwap, Revert, NoSwap
  <2>3. trailer' \in {"factory", "trial", "ok"}
    BY <1>1 DEF Boot, TestSwap, Revert, NoSwap
  <2>4. uc' \in Counter /\ misread' \in {"no", "zero", "torn"}
    BY <1>1 DEF Boot, LoadCounter, ZeroCounter
  <2>. QED
    BY <1>1, <2>1, <2>2, <2>3, <2>4 DEF Boot, SelfTest
<1>2. CASE Reboot
  BY <1>2 DEF Reboot, LoseRam, flash, ZeroCounter
<1>3. CASE Reset
  <2>1. armed' \in BOOLEAN /\ forgotten' \in BOOLEAN
    BY <1>3 DEF Reset, LoseRam
  <2>. QED
    BY <1>3, <2>1 DEF Reset, LoseRam, flash, ZeroCounter
<1>4. CASE InterfaceUpAgain
  BY <1>4 DEF InterfaceUpAgain, MainOnly, flash
<1>5. CASE ReadCounter
  BY <1>5 DEF ReadCounter, AfterRead, MainOnly, flash
<1>6. CASE ConfirmImage
  BY <1>6 DEF ConfirmImage, ConfirmError, MainOnly
<1>7. CASE EraseBank1
  BY <1>7 DEF EraseBank1, MainOnly, Content, Blank, Junk
<1>8. CASE CommitCounter
  BY <1>8 DEF CommitCounter, MainOnly
<1>9. CASE ReportResult
  BY <1>9 DEF ReportResult, Reported, MainOnly, flash
<1>10. CASE Setup
  <2>1. armed' \in BOOLEAN /\ forgotten' \in BOOLEAN
    BY <1>10 DEF Setup
  <2>2. main' \in {"sleep", "failed"}
    BY <1>10 DEF Setup
  <2>3. UNCHANGED <<flash, uc, counter, result, engine, fw, offered, resets,
                    target, misread>>
    BY <1>10 DEF Setup, MainOnly
  <2>. QED
    BY <2>1, <2>2, <2>3 DEF flash
<1>11. CASE RequestUpgrade
  <2>1. /\ upgrade' \in BOOLEAN /\ armed' \in BOOLEAN
        /\ forgotten' \in BOOLEAN
    BY <1>11 DEF RequestUpgrade
  <2>. QED
    BY <1>11, <2>1 DEF RequestUpgrade, EngineOnly
<1>12. CASE ArmReboot
  <2>1. armed' \in BOOLEAN /\ forgotten' \in BOOLEAN
    BY <1>12 DEF ArmReboot
  <2>. QED
    BY <1>12, <2>1 DEF ArmReboot, EngineOnly
<1>13. CASE StartDownload
  <2>1. upgrade' \in BOOLEAN /\ slot1' \in Content
    BY <1>13 DEF StartDownload, Content
  <2>. QED
    BY <1>13, <2>1 DEF StartDownload, EngineOnly
<1>14. CASE FinishDownload
  <2>1. offered' \in 0..MaxImages
    BY <1>14 DEF FinishDownload
  <2>2. slot1' \in Content
    BY <1>14, <2>1 DEF FinishDownload, Content, Image
  <2>. QED
    BY <1>14, <2>1, <2>2 DEF FinishDownload, EngineOnly
<1>15. CASE AbandonDownload
  BY <1>15 DEF AbandonDownload, EngineOnly
<1>16. CASE BumpCounter
  BY <1>16 DEF BumpCounter, Bump, EngineOnly
<1>17. CASE DeviceReboot
  <2>1. armed' \in BOOLEAN /\ forgotten' \in BOOLEAN
    BY <1>17 DEF DeviceReboot
  <2>. QED
    BY <1>17, <2>1 DEF DeviceReboot, EngineOnly
<1>18. CASE StartClient
  BY <1>18 DEF StartClient, flash, ghost
<1>19. CASE UNCHANGED vars
  BY <1>19 DEF vars, flash, ram, ghost
<1>. QED
  BY <1>1, <1>2, <1>3, <1>4, <1>5, <1>6, <1>7, <1>8, <1>9, <1>10, <1>11,
     <1>12, <1>13, <1>14, <1>15, <1>16, <1>17, <1>18, <1>19, NextIsActions
     DEF Actions

(* Type correctness: no step, whatever fails, takes a variable out of its  *)
(* type.                                                                   *)
THEOREM TypeCorrect == Spec => []TypeOK
  BY InitTypeOK, StepTypeOK, PTL DEF Spec

-----------------------------------------------------------------------------
(* Which image boots, and whether it is confirmed.  AlwaysBootable is not  *)
(* inductive: it must also say that the main thread is past the            *)
(* confirmation whenever it erases, and that nothing runs without power.   *)
PastConfirm == {"erase", "commit", "report", "setup", "sleep", "serving"}

BankInv ==
  /\ AlwaysBootable
  /\ ServesOnlyConfirmed
  /\ main \in PastConfirm => trailer = "ok"
  /\ main = "off" => engine = "down"

LEMMA BankInvInit == Init => BankInv
<1>1. 0 \in Image
  BY FotaAssumption DEF FotaAssumption, Image
<1>. QED
  BY <1>1 DEF Init, BankInv, AlwaysBootable, ServesOnlyConfirmed, PastConfirm

LEMMA BankInvStep == BankInv /\ [Next]_vars => BankInv'
<1>. SUFFICES ASSUME BankInv, [Next]_vars PROVE BankInv'
  OBVIOUS
<1>. USE DEF BankInv, AlwaysBootable, ServesOnlyConfirmed, PastConfirm
<1>1. CASE Boot
  BY <1>1 DEF Boot, SelfTest, TestSwap, Revert, NoSwap
<1>2. CASE Reboot
  BY <1>2 DEF Reboot, LoseRam, flash
<1>3. CASE Reset
  BY <1>3 DEF Reset, LoseRam, flash
<1>4. CASE InterfaceUpAgain
  BY <1>4 DEF InterfaceUpAgain, MainOnly, flash
<1>5. CASE ReadCounter
  BY <1>5 DEF ReadCounter, AfterRead, MainOnly, flash
<1>6. CASE ConfirmImage
  BY <1>6 DEF ConfirmImage, ConfirmError, MainOnly
<1>7. CASE EraseBank1
  BY <1>7 DEF EraseBank1, MainOnly
<1>8. CASE CommitCounter
  BY <1>8 DEF CommitCounter, MainOnly
<1>9. CASE ReportResult
  BY <1>9 DEF ReportResult, MainOnly, flash
<1>10. CASE Setup
  BY <1>10 DEF Setup, MainOnly, flash
<1>11. CASE RequestUpgrade
  BY <1>11 DEF RequestUpgrade, EngineOnly
<1>12. CASE ArmReboot
  BY <1>12 DEF ArmReboot, EngineOnly
<1>13. CASE StartDownload
  BY <1>13 DEF StartDownload, EngineOnly
<1>14. CASE FinishDownload
  BY <1>14 DEF FinishDownload, EngineOnly
<1>15. CASE AbandonDownload
  BY <1>15 DEF AbandonDownload, EngineOnly
<1>16. CASE BumpCounter
  BY <1>16 DEF BumpCounter, EngineOnly
<1>17. CASE DeviceReboot
  BY <1>17 DEF DeviceReboot, EngineOnly
<1>18. CASE StartClient
  BY <1>18 DEF StartClient, flash, ghost
<1>19. CASE UNCHANGED vars
  BY <1>19 DEF vars, flash, ram, ghost
<1>. QED
  BY <1>1, <1>2, <1>3, <1>4, <1>5, <1>6, <1>7, <1>8, <1>9, <1>10, <1>11,
     <1>12, <1>13, <1>14, <1>15, <1>16, <1>17, <1>18, <1>19, NextIsActions
     DEF Actions

LEMMA BankInvHolds == Spec => []BankInv
  BY BankInvInit, BankInvStep, PTL DEF Spec

(* Every reset is survived, whatever operations fail and however often the *)
(* interface comes up again (lwm2m_image_init, firmware_block_received_cb).*)
THEOREM BootableAlways == Spec => []AlwaysBootable
<1>1. BankInv => AlwaysBootable
  BY DEF BankInv
<1>. QED
  BY <1>1, BankInvHolds, PTL

(* The engine thread runs no callback over an image that is on trial.      *)
THEOREM ServesConfirmed == Spec => []ServesOnlyConfirmed
<1>1. BankInv => ServesOnlyConfirmed
  BY DEF BankInv
<1>. QED
  BY <1>1, BankInvHolds, PTL

-----------------------------------------------------------------------------
(* The update counter.  lwm2m_image_init works on a copy of the cache; the *)
(* invariant says that the copy is not stale when it is written back,      *)
(* because no callback runs before the image is confirmed.                 *)
Confirming == {"confirm", "erase", "commit"}

InStep(c) == c.update = c.current \/ c.update = c.current + 1

OrTorn(c) == InStep(c) \/ (misread = "torn" /\ c.update = 0)

CounterInv ==
  /\ TypeOK /\ BankInv
  /\ InStep(stored) /\ OrTorn(uc) /\ OrTorn(counter)
  /\ main \in Confirming => engine = "down" /\ counter = uc
  /\ main = "off" => misread = "no"

LEMMA InStepIsCountersInStep ==
  ASSUME TypeOK PROVE InStep(stored) /\ OrTorn(uc) /\ OrTorn(counter)
                        => CountersInStep
<1>1. ASSUME NEW c \in Counter
      PROVE  InStep(c) => c.update - c.current \in {0, 1}
  BY <1>1 DEF InStep, Counter
<1>. QED
  BY <1>1 DEF CountersInStep, OrTorn, TypeOK

LEMMA CounterInvInit == Init => CounterInv
<1>1. Init => TypeOK
  BY InitTypeOK
<1>. QED
  BY <1>1, BankInvInit
     DEF Init, CounterInv, InStep, OrTorn, ZeroCounter, Confirming

LEMMA CounterInvStep == CounterInv /\ [Next]_vars => CounterInv'
<1>. SUFFICES ASSUME CounterInv, [Next]_vars PROVE CounterInv'
  OBVIOUS
<1>a. TypeOK' /\ BankInv'
  BY StepTypeOK, BankInvStep DEF CounterInv
<1>b. /\ stored \in Counter /\ uc \in Counter /\ counter \in Counter
      /\ engine # "down" => trailer = "ok"
      /\ main = "off" => engine = "down"
  BY DEF CounterInv, TypeOK, BankInv, ServesOnlyConfirmed
<1>. SUFFICES /\ InStep(stored)' /\ OrTorn(uc)' /\ OrTorn(counter)'
              /\ main' \in Confirming => engine' = "down" /\ counter' = uc'
              /\ main' = "off" => misread' = "no"
  BY <1>a DEF CounterInv
<1>c. /\ InStep(stored) /\ OrTorn(uc) /\ OrTorn(counter)
      /\ main \in Confirming => engine = "down" /\ counter = uc
      /\ main = "off" => misread = "no"
  BY DEF CounterInv
<1>. USE <1>b, <1>c DEF InStep, OrTorn, Confirming
<1>1. CASE Boot
  <2>1. /\ UNCHANGED <<stored, counter, engine>>
        /\ main' \in {"start", "stopped"} /\ LoadCounter
        /\ InStep(counter)
    BY <1>1 DEF Boot, SelfTest
  <2>2. OrTorn(uc)'
    BY <2>1 DEF LoadCounter, ZeroCounter, Counter
  <2>. QED
    BY <2>1, <2>2
<1>2. CASE Reboot
  BY <1>2 DEF Reboot, LoseRam, flash, ZeroCounter
<1>3. CASE Reset
  BY <1>3 DEF Reset, LoseRam, flash, ZeroCounter
<1>4. CASE InterfaceUpAgain
  BY <1>4 DEF InterfaceUpAgain, MainOnly, flash
<1>5. CASE ReadCounter
  BY <1>5 DEF ReadCounter, AfterRead, MainOnly, flash
<1>6. CASE ConfirmImage
  BY <1>6 DEF ConfirmImage, ConfirmError, MainOnly
<1>7. CASE EraseBank1
  BY <1>7 DEF EraseBank1, MainOnly
<1>8. CASE CommitCounter
  BY <1>8 DEF CommitCounter, MainOnly, Counter
<1>9. CASE ReportResult
  BY <1>9 DEF ReportResult, MainOnly, flash
<1>10. CASE Setup
  BY <1>10 DEF Setup, MainOnly, flash
<1>11. CASE RequestUpgrade
  BY <1>11 DEF RequestUpgrade, EngineOnly
<1>12. CASE ArmReboot
  BY <1>12 DEF ArmReboot, EngineOnly
<1>13. CASE StartDownload
  BY <1>13 DEF StartDownload, EngineOnly
<1>14. CASE FinishDownload
  BY <1>14 DEF FinishDownload, EngineOnly
<1>15. CASE AbandonDownload
  BY <1>15 DEF AbandonDownload, EngineOnly
<1>16. CASE BumpCounter
  BY <1>16 DEF BumpCounter, EngineOnly, Bump, Counter
<1>17. CASE DeviceReboot
  BY <1>17 DEF DeviceReboot, EngineOnly
<1>18. CASE StartClient
  BY <1>18 DEF StartClient, flash, ghost
<1>19. CASE UNCHANGED vars
  BY <1>19 DEF vars, flash, ram, ghost
<1>. QED
  BY <1>1, <1>2, <1>3, <1>4, <1>5, <1>6, <1>7, <1>8, <1>9, <1>10, <1>11,
     <1>12, <1>13, <1>14, <1>15, <1>16, <1>17, <1>18, <1>19, NextIsActions
     DEF Actions

LEMMA CounterInvHolds == Spec => []CounterInv
  BY CounterInvInit, CounterInvStep, PTL DEF Spec

(* The counters are never more than one apart: each retry of an update     *)
(* aims at the same value (firmware_update_cb, lwm2m_image_init).  A torn  *)
(* record stays in RAM: the counter is committed or bumped before it is    *)
(* saved, and is in step again.                                            *)
THEOREM CountersStayInStep == Spec => []CountersInStep
<1>1. CounterInv => CountersInStep
  BY InStepIsCountersInStep DEF CounterInv
<1>. QED
  BY <1>1, CounterInvHolds, PTL

-----------------------------------------------------------------------------
(* The reported result.  The image of the last accepted update is          *)
(* Installed once it runs and is confirmed; a counter is Settled unless    *)
(* its two halves agree although the image is not installed.  The          *)
(* invariant follows the counter through flash, cache and copy.            *)
Installed == target = None \/ (slot0 = target /\ trailer = "ok")

Settled(c) == c.current = c.update => Installed

CopyInUse == {"confirm", "erase", "commit", "report"}

ResultInv ==
  /\ CounterInv
  /\ misread = "no" =>
       /\ fw # "updating" /\ result = "success" => Installed
       /\ fw # "updating" /\ main # "off" => Settled(uc)
       /\ fw # "updating" /\ main \in CopyInUse => Settled(counter)
  /\ Settled(stored)
  /\ main \in {"erase", "commit"} => Installed
  /\ trailer = "trial" => slot0 = target
  /\ trailer = "factory" => target = None
  /\ upgrade \/ fw = "updating" => slot1 = target
  /\ upgrade \/ fw = "updating" \/ trailer = "trial" =>
       stored.current # stored.update
  /\ engine \in {"request", "arm"} => fw = "updating"
  /\ engine = "down" => fw = "idle"
  /\ main # "off" /\ fw # "updating" => ~upgrade
  /\ main = "off" => result = "default"
  /\ main = "confirm" => trailer # "ok"

LEMMA ResultInvInit == Init => ResultInv
  BY CounterInvInit
     DEF Init, ResultInv, Installed, Settled, CopyInUse, ZeroCounter

LEMMA ResultInvStep == ResultInv /\ [Next]_vars => ResultInv'
<1>. SUFFICES ASSUME ResultInv, [Next]_vars PROVE ResultInv'
  OBVIOUS
<1>a. CounterInv'
  BY CounterInvStep DEF ResultInv
<1>b. /\ stored \in Counter /\ uc \in Counter /\ counter \in Counter
      /\ engine # "down" => trailer = "ok"
      /\ main = "off" => engine = "down"
      /\ main \in {"erase", "commit"} => trailer = "ok"
      /\ upgrade => trailer = "ok"
      /\ trailer \in {"factory", "trial", "ok"}
      /\ main \in {"confirm", "erase", "commit"} => engine = "down"
  BY DEF ResultInv, CounterInv, TypeOK, BankInv, ServesOnlyConfirmed,
         PastConfirm, AlwaysBootable, Confirming
<1>. USE <1>a, <1>b DEF ResultInv, Installed, Settled, CopyInUse
<1>1. CASE Boot
  BY <1>1 DEF Boot, SelfTest, TestSwap, Revert, NoSwap, LoadCounter
<1>2. CASE Reboot
  BY <1>2 DEF Reboot, LoseRam, flash
<1>3. CASE Reset
  BY <1>3 DEF Reset, LoseRam, flash
<1>4. CASE InterfaceUpAgain
  BY <1>4 DEF InterfaceUpAgain, MainOnly, flash
<1>5. CASE ReadCounter
  BY <1>5 DEF ReadCounter, AfterRead, MainOnly, flash
<1>6. CASE ConfirmImage
  BY <1>6 DEF ConfirmImage, ConfirmError, MainOnly
<1>7. CASE EraseBank1
  BY <1>7 DEF EraseBank1, MainOnly
<1>8. CASE CommitCounter
  BY <1>8 DEF CommitCounter, MainOnly, Counter
<1>9. CASE ReportResult
  BY <1>9 DEF ReportResult, Reported, MainOnly, flash
<1>10. CASE Setup
  BY <1>10 DEF Setup, MainOnly, flash
<1>11. CASE RequestUpgrade
  BY <1>11 DEF RequestUpgrade, EngineOnly
<1>12. CASE ArmReboot
  BY <1>12 DEF ArmReboot, EngineOnly
<1>13. CASE StartDownload
  BY <1>13 DEF StartDownload, EngineOnly
<1>14. CASE FinishDownload
  BY <1>14 DEF FinishDownload, EngineOnly
<1>15. CASE AbandonDownload
  BY <1>15 DEF AbandonDownload, EngineOnly
<1>16. CASE BumpCounter
  BY <1>16 DEF BumpCounter, EngineOnly, Bump, Counter
<1>17. CASE DeviceReboot
  BY <1>17 DEF DeviceReboot, EngineOnly
<1>18. CASE StartClient
  BY <1>18 DEF StartClient, flash, ghost
<1>19. CASE UNCHANGED vars
  BY <1>19 DEF vars, flash, ram, ghost
<1>. QED
  BY <1>1, <1>2, <1>3, <1>4, <1>5, <1>6, <1>7, <1>8, <1>9, <1>10, <1>11,
     <1>12, <1>13, <1>14, <1>15, <1>16, <1>17, <1>18, <1>19, NextIsActions
     DEF Actions

(* In a boot that could read the settings record, a success in 5/0/5 is    *)
(* never a lie about the last accepted update, whatever failed, in this    *)
(* boot or before, and wherever the power went (firmware_update_cb,        *)
(* lwm2m_image_init).                                                      *)
THEOREM SuccessNeverLies == Spec => []SuccessIsInstalled
<1>1. ResultInv => SuccessIsInstalled
  BY DEF ResultInv, SuccessIsInstalled, Installed
<1>. QED
  BY ResultInvInit, ResultInvStep, <1>1, PTL DEF Spec

-----------------------------------------------------------------------------
(* Every step of the device is a step of FailsafeSwap or leaves its state  *)
(* unchanged: the bootloader tries a requested image or goes back, and     *)
(* confirming is the only step that keeps one.                             *)
LEMMA StepIsFailsafe ==
  BankInv /\ [Next]_vars => [Failsafe!Next]_(Failsafe!vars)
<1>. SUFFICES ASSUME BankInv, [Next]_vars
              PROVE [Failsafe!Next]_(Failsafe!vars)
  OBVIOUS
<1>0. /\ slot0 \in Image /\ slot0 # None
      /\ trailer = "trial" => slot1 \in Image
      /\ upgrade => trailer = "ok"
      /\ engine # "down" => trailer = "ok"
      /\ main = "erase" => trailer = "ok"
      /\ \A i \in Image : i # None
  BY FotaAssumption
     DEF FotaAssumption, BankInv, AlwaysBootable, ServesOnlyConfirmed,
         PastConfirm, Image, None
<1>. USE <1>0 DEF Failsafe!vars
<1>1. CASE Boot
  <2>1. CASE TestSwap
    <3>1. Failsafe!Try(slot1)
      BY <2>1 DEF TestSwap, Failsafe!Try
    <3>. QED
      BY <2>1, <3>1 DEF TestSwap, Failsafe!Next
  <2>2. CASE Revert
    BY <2>2 DEF Revert, Failsafe!Next, Failsafe!GoBack
  <2>3. CASE NoSwap
    BY <2>3 DEF NoSwap
  <2>. QED
    BY <1>1, <2>1, <2>2, <2>3 DEF Boot
<1>2. CASE Reboot
  BY <1>2 DEF Reboot, LoseRam, flash
<1>3. CASE Reset
  BY <1>3 DEF Reset, LoseRam, flash
<1>4. CASE InterfaceUpAgain
  BY <1>4 DEF InterfaceUpAgain, MainOnly, flash
<1>5. CASE ReadCounter
  BY <1>5 DEF ReadCounter, AfterRead, MainOnly, flash
<1>6. CASE ConfirmImage
  <2>1. CASE trailer = "trial"
    BY <1>6, <2>1
       DEF ConfirmImage, ConfirmError, Failsafe!Next, Failsafe!Keep
  <2>2. CASE trailer # "trial"
    BY <1>6, <2>2 DEF ConfirmImage, ConfirmError
  <2>. QED
    BY <2>1, <2>2
<1>7. CASE EraseBank1
  BY <1>7 DEF EraseBank1, MainOnly
<1>8. CASE CommitCounter
  BY <1>8 DEF CommitCounter, MainOnly
<1>9. CASE ReportResult
  BY <1>9 DEF ReportResult, Reported, MainOnly, flash
<1>10. CASE Setup
  BY <1>10 DEF Setup, MainOnly, flash
<1>11. CASE RequestUpgrade
  BY <1>11 DEF RequestUpgrade, EngineOnly
<1>12. CASE ArmReboot
  BY <1>12 DEF ArmReboot, EngineOnly
<1>13. CASE StartDownload
  BY <1>13 DEF StartDownload, EngineOnly
<1>14. CASE FinishDownload
  BY <1>14 DEF FinishDownload, EngineOnly
<1>15. CASE AbandonDownload
  BY <1>15 DEF AbandonDownload, EngineOnly
<1>16. CASE BumpCounter
  BY <1>16 DEF BumpCounter, EngineOnly
<1>17. CASE DeviceReboot
  BY <1>17 DEF DeviceReboot, EngineOnly
<1>18. CASE StartClient
  BY <1>18 DEF StartClient, flash, ghost
<1>19. CASE UNCHANGED vars
  BY <1>19 DEF vars, flash, ram, ghost
<1>. QED
  BY <1>1, <1>2, <1>3, <1>4, <1>5, <1>6, <1>7, <1>8, <1>9, <1>10, <1>11,
     <1>12, <1>13, <1>14, <1>15, <1>16, <1>17, <1>18, <1>19, NextIsActions
     DEF Actions

(* The device implements the fail-safe swap.                               *)
THEOREM DeviceIsFailsafe == Spec => ImplementsFailsafe
<1>1. Init => Failsafe!Init
  BY DEF Init, Failsafe!Init
<1>. QED
  BY <1>1, BankInvHolds, StepIsFailsafe, PTL
     DEF Spec, ImplementsFailsafe, Failsafe!Spec

-----------------------------------------------------------------------------
(* What a server sees.  A device that is about to start its client has a   *)
(* result to tell, because its counters are in step; as long as the client *)
(* does not run, no callback can take it away.                             *)
ViewInv ==
  /\ CounterInv
  /\ engine = "down" => fw = "idle"
  /\ engine = "down" /\ main \in {"setup", "sleep"} =>
       result \in View!Told \/ misread = "torn"

LEMMA ReportedIsTold ==
  ASSUME CounterInv
  PROVE  Reported \in View!Told \/ (misread = "torn" /\ Reported = result)
<1>1. counter \in Counter /\ OrTorn(counter)
  BY DEF CounterInv, TypeOK
<1>. QED
  BY <1>1 DEF Reported, InStep, OrTorn, Counter, NoUpdate, View!Told

LEMMA ViewInvStep == ViewInv /\ [Next]_vars => ViewInv'
<1>. SUFFICES ASSUME ViewInv, [Next]_vars PROVE ViewInv'
  OBVIOUS
<1>0. CounterInv'
  BY CounterInvStep DEF ViewInv
<1>. SUFFICES /\ engine' = "down" => fw' = "idle"
              /\ engine' = "down" /\ main' \in {"setup", "sleep"} =>
                   result' \in View!Told \/ misread' = "torn"
  BY <1>0 DEF ViewInv
<1>. USE DEF ViewInv
<1>1. CASE Boot
  BY <1>1 DEF Boot, SelfTest
<1>2. CASE Reboot \/ Reset
  BY <1>2 DEF Reboot, Reset, LoseRam
<1>3. CASE ReadCounter \/ ConfirmImage \/ EraseBank1 \/ CommitCounter
  BY <1>3 DEF ReadCounter, AfterRead, ConfirmImage, ConfirmError, EraseBank1,
              CommitCounter, MainOnly
<1>4. CASE ReportResult
  BY <1>4, ReportedIsTold DEF ReportResult, MainOnly
<1>5. CASE Setup \/ StartClient \/ InterfaceUpAgain
  BY <1>5 DEF Setup, StartClient, InterfaceUpAgain, MainOnly, ghost
<1>6. CASE \/ RequestUpgrade \/ ArmReboot \/ StartDownload \/ FinishDownload
           \/ AbandonDownload \/ BumpCounter \/ DeviceReboot
  BY <1>6 DEF RequestUpgrade, ArmReboot, StartDownload, FinishDownload,
              AbandonDownload, BumpCounter, DeviceReboot
<1>7. CASE UNCHANGED vars
  BY <1>7 DEF vars, ram, ghost
<1>. QED
  BY <1>1, <1>2, <1>3, <1>4, <1>5, <1>6, <1>7, NextIsActions DEF Actions

LEMMA StepIsInView ==
  ViewInv /\ [Next]_vars => [View!Next]_(View!vars)
<1>. SUFFICES ASSUME ViewInv, [Next]_vars PROVE [View!Next]_(View!vars)
  OBVIOUS
<1>0. /\ main = "off" => engine = "down"
      /\ engine \in {"down", "ready", "request", "arm"}
      /\ fw \in {"idle", "downloading", "downloaded", "updating"}
      /\ result \in {"default", "success", "update_failed"}
  BY DEF ViewInv, CounterInv, BankInv, TypeOK
<1>. USE <1>0 DEF View!vars, ViewInv
<1>1. CASE Boot
  BY <1>1 DEF Boot
<1>2. CASE Reboot \/ Reset
  BY <1>2 DEF Reboot, Reset, LoseRam, View!Next, View!GoOffline
<1>3. CASE \/ ReadCounter \/ ConfirmImage \/ EraseBank1 \/ CommitCounter
           \/ Setup \/ InterfaceUpAgain
  BY <1>3 DEF ReadCounter, ConfirmImage, EraseBank1, CommitCounter, Setup,
              InterfaceUpAgain, MainOnly
<1>4. CASE ReportResult
  BY <1>4, ReportedIsTold
     DEF ReportResult, MainOnly, View!Next, View!TellAgain
<1>5. CASE StartClient
  BY <1>5 DEF StartClient, View!Next, View!ComeBack, View!Told, ghost
<1>6. CASE RequestUpgrade \/ ArmReboot \/ DeviceReboot
  BY <1>6 DEF RequestUpgrade, ArmReboot, DeviceReboot, EngineOnly
<1>7. CASE StartDownload
  BY <1>7 DEF StartDownload, EngineOnly, View!Next, View!BeginDownload
<1>8. CASE FinishDownload \/ AbandonDownload
  BY <1>8 DEF FinishDownload, AbandonDownload, EngineOnly, View!Next,
              View!EndDownload
<1>9. CASE BumpCounter
  BY <1>9 DEF BumpCounter, EngineOnly, View!Next, View!Accept, View!Refuse
<1>10. CASE UNCHANGED vars
  BY <1>10 DEF vars, ram, ghost
<1>. QED
  BY <1>1, <1>2, <1>3, <1>4, <1>5, <1>6, <1>7, <1>8, <1>9, <1>10,
     NextIsActions DEF Actions

(* What the server sees of a device is what DeviceView lets it rely on:    *)
(* each return with a result, and no update forgotten without a restart    *)
(* (lwm2m_image_init and firmware_update_cb write 5/0/5 from two threads). *)
THEOREM ServerCanRely == Spec => ImplementsView
<1>1. Init => View!Init
  BY DEF Init, View!Init
<1>2. Init => ViewInv
  BY CounterInvInit DEF Init, ViewInv
<1>. QED
  BY <1>1, <1>2, ViewInvStep, StepIsInView, PTL
     DEF Spec, ImplementsView, View!Spec

-----------------------------------------------------------------------------
(* What the bootloader is asked to try.  Bank 1 is the engine thread's     *)
(* while the client runs and the main thread's before; an update under way *)
(* keeps the engine from starting a transfer, and its request does not     *)
(* outlive the boot that answers it.                                       *)
TriedInv ==
  /\ CounterInv
  /\ OnlyAcceptedIsTried
  /\ fw = "updating" => slot1 = target
  /\ engine \in {"request", "arm"} => fw = "updating"
  /\ engine = "down" => fw = "idle"
  /\ main # "off" /\ upgrade => fw = "updating"

LEMMA TriedInit == Init => TriedInv
  BY CounterInvInit DEF Init, TriedInv, OnlyAcceptedIsTried

LEMMA TriedStep == TriedInv /\ [Next]_vars => TriedInv'
<1>. SUFFICES ASSUME TriedInv, [Next]_vars PROVE TriedInv'
  OBVIOUS
<1>a. CounterInv'
  BY CounterInvStep DEF TriedInv
<1>b. /\ engine # "down" => trailer = "ok"
      /\ main = "off" => engine = "down"
      /\ upgrade => trailer = "ok"
      /\ main \in {"confirm", "erase", "commit"} => engine = "down"
      /\ main = "erase" => trailer = "ok"
  BY DEF TriedInv, CounterInv, BankInv, ServesOnlyConfirmed,
         PastConfirm, AlwaysBootable, Confirming
<1>. USE <1>a, <1>b DEF TriedInv, OnlyAcceptedIsTried
<1>1. CASE Boot
  BY <1>1 DEF Boot, SelfTest, TestSwap, Revert, NoSwap
<1>2. CASE Reboot
  BY <1>2 DEF Reboot, LoseRam, flash
<1>3. CASE Reset
  BY <1>3 DEF Reset, LoseRam, flash
<1>4. CASE InterfaceUpAgain
  BY <1>4 DEF InterfaceUpAgain, MainOnly, flash
<1>5. CASE ReadCounter
  BY <1>5 DEF ReadCounter, AfterRead, MainOnly, flash
<1>6. CASE ConfirmImage
  BY <1>6 DEF ConfirmImage, ConfirmError, MainOnly
<1>7. CASE EraseBank1
  BY <1>7 DEF EraseBank1, MainOnly
<1>8. CASE CommitCounter
  BY <1>8 DEF CommitCounter, MainOnly
<1>9. CASE ReportResult
  BY <1>9 DEF ReportResult, MainOnly, flash
<1>10. CASE Setup
  BY <1>10 DEF Setup, MainOnly, flash
<1>11. CASE RequestUpgrade
  BY <1>11 DEF RequestUpgrade, EngineOnly
<1>12. CASE ArmReboot
  BY <1>12 DEF ArmReboot, EngineOnly
<1>13. CASE StartDownload
  BY <1>13 DEF StartDownload, EngineOnly
<1>14. CASE FinishDownload
  BY <1>14 DEF FinishDownload, EngineOnly
<1>15. CASE AbandonDownload
  BY <1>15 DEF AbandonDownload, EngineOnly
<1>16. CASE BumpCounter
  BY <1>16 DEF BumpCounter, EngineOnly
<1>17. CASE DeviceReboot
  BY <1>17 DEF DeviceReboot, EngineOnly
<1>18. CASE StartClient
  BY <1>18 DEF StartClient, flash, ghost
<1>19. CASE UNCHANGED vars
  BY <1>19 DEF vars, flash, ram, ghost
<1>. QED
  BY <1>1, <1>2, <1>3, <1>4, <1>5, <1>6, <1>7, <1>8, <1>9, <1>10, <1>11,
     <1>12, <1>13, <1>14, <1>15, <1>16, <1>17, <1>18, <1>19, NextIsActions
     DEF Actions

(* Only the image of the last accepted update is ever swapped in, whatever *)
(* fails and however threads interleave (firmware_update_cb,               *)
(* firmware_block_received_cb, lwm2m_image_init).                          *)
THEOREM TriesOnlyAccepted == Spec => []OnlyAcceptedIsTried
<1>1. TriedInv => OnlyAcceptedIsTried
  BY DEF TriedInv
<1>. QED
  BY <1>1, TriedInit, TriedStep, PTL DEF Spec

-----------------------------------------------------------------------------
(* The reboot an accepted update needs.  Only lwm2m_setup can take it      *)
(* away, and in the first run of lwm2m_start since the boot there is none  *)
(* to take: the engine does not run before.                                *)
PursuitInv ==
  /\ UpdateIsPursued
  /\ engine = "down" => fw = "idle" /\ ~armed
  /\ ~Flapping =>
       ~forgotten /\ (engine # "down" => main = "serving")

LEMMA PursuitInit == Init => PursuitInv
  BY DEF Init, PursuitInv, UpdateIsPursued

LEMMA PursuitStep == PursuitInv /\ [Next]_vars => PursuitInv'
<1>. SUFFICES ASSUME PursuitInv, [Next]_vars PROVE PursuitInv'
  OBVIOUS
<1>. USE DEF PursuitInv, UpdateIsPursued
<1>1. CASE Boot
  BY <1>1 DEF Boot, SelfTest, TestSwap, Revert, NoSwap
<1>2. CASE Reboot
  BY <1>2 DEF Reboot, LoseRam, flash
<1>3. CASE Reset
  BY <1>3 DEF Reset, LoseRam, flash
<1>4. CASE InterfaceUpAgain
  BY <1>4 DEF InterfaceUpAgain, MainOnly, flash
<1>5. CASE ReadCounter
  BY <1>5 DEF ReadCounter, AfterRead, MainOnly, flash
<1>6. CASE ConfirmImage
  BY <1>6 DEF ConfirmImage, ConfirmError, MainOnly
<1>7. CASE EraseBank1
  BY <1>7 DEF EraseBank1, MainOnly
<1>8. CASE CommitCounter
  BY <1>8 DEF CommitCounter, MainOnly
<1>9. CASE ReportResult
  BY <1>9 DEF ReportResult, MainOnly, flash
<1>10. CASE Setup
  BY <1>10 DEF Setup, MainOnly, flash
<1>11. CASE RequestUpgrade
  BY <1>11 DEF RequestUpgrade, EngineOnly
<1>12. CASE ArmReboot
  BY <1>12 DEF ArmReboot, EngineOnly
<1>13. CASE StartDownload
  BY <1>13 DEF StartDownload, EngineOnly
<1>14. CASE FinishDownload
  BY <1>14 DEF FinishDownload, EngineOnly
<1>15. CASE AbandonDownload
  BY <1>15 DEF AbandonDownload, EngineOnly
<1>16. CASE BumpCounter
  BY <1>16 DEF BumpCounter, EngineOnly
<1>17. CASE DeviceReboot
  BY <1>17 DEF DeviceReboot, EngineOnly
<1>18. CASE StartClient
  BY <1>18 DEF StartClient, flash, ghost
<1>19. CASE UNCHANGED vars
  BY <1>19 DEF vars, flash, ram, ghost
<1>. QED
  BY <1>1, <1>2, <1>3, <1>4, <1>5, <1>6, <1>7, <1>8, <1>9, <1>10, <1>11,
     <1>12, <1>13, <1>14, <1>15, <1>16, <1>17, <1>18, <1>19, NextIsActions
     DEF Actions

(* A device that reports state updating is about to reboot, whatever       *)
(* operations fail and however often the interface comes up: all that can  *)
(* hold it up is that k_delayed_work_init meets the pending reboot_work    *)
(* (lwm2m.c:428), which does not happen with an interface that comes up    *)
(* once.                                                                   *)
THEOREM UpdatesArePursued == Spec => []UpdateIsPursued
<1>1. PursuitInv => UpdateIsPursued
  BY DEF PursuitInv
<1>. QED
  BY PursuitInit, PursuitStep, <1>1, PTL DEF Spec
=============================================================================
