---------------------------- MODULE FailsafeSwap ----------------------------
(***************************************************************************)
(* What a device that updates itself promises about the image it runs,     *)
(* said without banks, trailers, counters or threads: there is always one  *)
(* good image, a new image is only ever tried next to it, and a trial ends *)
(* by keeping the new image or by going back to the very same good one.    *)
(***************************************************************************)
CONSTANTS
  Image,     \* the images that may be installed
  Factory,   \* the one the device left the factory with
  NoTrial    \* stands for "no image is on trial"

VARIABLES
  good,      \* the last image that was confirmed
  trial      \* the image on trial, or NoTrial

vars == <<good, trial>>

Init == good = Factory /\ trial = NoTrial

Try(i) ==
  /\ trial = NoTrial /\ i # NoTrial
  /\ trial' = i
  /\ good' = good

Keep ==
  /\ trial # NoTrial
  /\ good' = trial
  /\ trial' = NoTrial

GoBack ==
  /\ trial # NoTrial
  /\ trial' = NoTrial
  /\ good' = good

Next == (\E i \in Image : Try(i)) \/ Keep \/ GoBack

Spec == Init /\ [][Next]_vars
=============================================================================
