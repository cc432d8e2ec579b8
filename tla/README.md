# Formal models of dm-lwm2m

dm-lwm2m is a Zephyr application: a LwM2M client that a Leshan server can
update over the air, with MCUboot and two flash banks underneath, and a few
Python scripts that drive such a server. This directory holds TLA+ models of
the parts whose order of steps matters, TLC configurations that check them on
small instances, and TLAPS proofs of what matters most for every instance.
Paths in this file are relative to the repository.

    tlc -config update_safety.cfg MCFotaUpdate.tla     (one run)
    tlapm FotaUpdateProofs.tla                         (one set of proofs)

In one paragraph: twelve runs check 43 properties of six components, under the
faults each run names; four of them show that a comment of the code or a message
of a script says more than the program does. Seven modules of proofs establish
every safety property that holds, and all four refinements, under every fault,
for every geometry of the flash and every number of targets, results, scripts,
tokens and images. Where the code lets a property down, the property itself names
the event that does it. Liveness is checked by TLC under the fairness of the
code's own threads.

## 1. The system

Threads on the device: *main* (`main()`, then for ever `app_wq_run`), the
*LwM2M engine* thread (all resource callbacks and registration events), the
*network management* thread (`event_iface_up`), the *system work queue*
(`reboot`) and the *Bluetooth* thread (`disconnected`).

| Part | Code | State | Operations | Interacts with |
|---|---|---|---|---|
| Update life cycle | `src/lwm2m.c` 120-169, 530-731 | banks, image trailer, upgrade request (flash); `5/0/3`, `5/0/5` (RAM) | `firmware_update_cb`, `device_reboot_cb`, `reboot`, `lwm2m_image_init`, `lwm2m_start` | counter record, bootloader, block reception |
| Block reception | `src/lwm2m.c` 171-279 | static offsets, `dfu_ctx`, bank 1 | `firmware_block_received_cb` | engine (blocks), flash_img |
| Counter record | `src/settings.c` | `uc` in RAM, `fota/counter` in flash | read, update, load | update life cycle |
| Work queue | `src/app_work_queue.[ch]` | list of items, PENDING bits | submit, run | `lwm2m_start`, test report |
| Test report | `src/lwm2m.c` 433-504, 619-652 | `tc_logging`, `tc_count`, `tc_results` | event handler, report handler | engine, work queue |
| Light control | `src/light_control.c`, `scripts/toggle-lights.py` | `led_current`, the GPIO, `3311/0/5850` | `on_off_cb`, read-then-write by the script | engine, server |
| Credentials | `src/lib/lwm2m_credentials.c`, `src/lwm2m.c` 281-313, 355-372, `scripts/gen_cred_partition.py` | a flash partition | read, `generate_hex`, write by the script | `lwm2m_setup` |
| Product id, Bluetooth | `src/lib/product_id.c`, `src/bluetooth.c` | serial number, address | hash, reboot on disconnection | everything (reboot) |
| Self test, temperature | `src/main.c` | last value | init order, read | engine |
| Campaign script | `scripts/leshan.py` | update list, thread counter, abort flags | run, download, update, SIGINT | server, devices |
| Reset scripts | `scripts/reset_targets.py`, `scripts/wait_for_targets.py` | loop counters | poll, reset | server |

What is hard here, and what makes each part correct:

* **Update life cycle.** Power loss, or a lost Bluetooth link, between any two
  flash operations; operations that fail; a main thread that runs
  `lwm2m_start` again when the interface comes back while callbacks run.
  Correct: the device always boots a good image; the two counters stay in
  step; a reported success is true; every accepted update gets a result.
* **Block reception.** Statics that outlive a transfer; flash that must be
  erased just in time; a last-block flag that comes too early. Correct: no
  cell programmed unerased; an accepted image is the one that was sent.
* **Work queue.** Submissions at the moment the PENDING bit is cleared.
  Correct: no item linked twice, none forgotten.
* **Light, credentials, sensor.** A write takes effect in two steps, of which
  the second can fail; the flash is read into static buffers again whenever the
  interface comes up; several scripts read, negate and write one light.
  Correct: an acknowledged write is what the lamp shows; a device registers as
  it was provisioned and with nothing else; a toggle is lost only to a change of the
  light in between.
* **Campaign script.** Threads that end in any order, a hand-made counter as
  the only join, SIGINT at any moment, lost answers. Correct: the counter is
  exact, the script ends, its exit code tells the truth.

`PROJECT.json` lists the hazards line by line with the properties that would
notice them going wrong.

## 2. Modules

| Module | Models | Kind |
|---|---|---|
| `FailsafeSwap` | what an updatable device promises about its image | abstract specification |
| `DeviceView` | what a server can rely on of a device it updates: `5/0/3` and `5/0/5` | abstract specification |
| `FotaUpdate` | the update life cycle with the counter record | detailed, implements `FailsafeSwap` and `DeviceView` |
| `BlockDownload` | block reception | detailed |
| `WorkService` | what the work queue promises those who submit to it | abstract specification |
| `AppWorkQueue` | the work queue | detailed, implements `WorkService` |
| `TestReport` | registration events and the test report, over `AppWorkQueue` | composition |
| `Campaign` | a campaign of two rounds with a barrier after each | abstract specification |
| `LeshanUpdate` | the campaign script, over devices that do what `DeviceView` lets them do | detailed, implements `Campaign` |
| `Identity` | `generate_hex`, the serial number, the Bluetooth address | pure operators |
| `DeviceObjects` | start-up as `main()` does it, name and key, temperature, light, the scripts that toggle it; over `Identity` | composition |
| `MC...` | fault sets and model values for the runs | |
| `...Proofs` | theorems about the module of that name | |

In every module the operators named `X_Something` next to an `X` are variants
of `X` with a plausible bug; the specification never uses them. They are what
shows that a property can fail: replacing `X` by its variant makes TLC find the
property violated.

### FotaUpdate

State: the two banks (`slot0`, `slot1`) by content, MCUboot's `trailer`
(`factory`: programmed by cable, no flag set; `trial`; `ok`), the `upgrade`
request, the settings record `stored`; in RAM the place of the main thread
(`main`) and of the engine thread (`engine`), the Firmware object (`fw`,
`result`), the cache `uc` of `settings.c`, the copy `counter` that
`lwm2m_image_init` works on, and whether `reboot_work` is pending (`armed`).
`target` is a history variable: the content of bank 1 when the last update was
accepted. Two more tell what happened to this boot: `misread`, how it read the
record (whole, not at all, or `torn`), and `forgotten`, whether a pending
`reboot_work` was lost.

| Action | Code |
|---|---|
| `Boot` (`TestSwap`, `Revert`, `NoSwap`, `LoadCounter`, `SelfTest`) | MCUboot (external), `set()`, the early returns of `main()` |
| `ReadCounter`, `ConfirmImage`, `EraseBank1`, `CommitCounter`, `ReportResult` | `lwm2m_image_init`, one action for each operation on flash |
| `Setup`, `StartClient` | `lwm2m_setup`, the end of `lwm2m_start` |
| `InterfaceUpAgain` | `event_iface_up` for a later NET_EVENT_IF_UP |
| `StartDownload`, `FinishDownload`, `AbandonDownload` | the transfer, in three steps |
| `BumpCounter`, `RequestUpgrade`, `ArmReboot` | `firmware_update_cb`, step by step |
| `DeviceReboot`, `Reboot` | `device_reboot_cb`, `reboot` |
| `Reset` | power loss, `disconnected()` |

MCUboot and the image are seen from the application: a requested image that
verifies is swapped in for a trial, an image still on trial at the next boot is
swapped back. A failed operation takes the code's own error path; `Fallible`
says which may fail. Erasing or saving that fails may leave the bank half
erased. A read of the settings record that breaks off between its two words leaves
the first one in the cache, because `set()` compares the negative length as
unsigned (`src/settings.c:47`): the fault `torn`. Initializing `reboot_work`
while it is pending may lose it. `reboot()` drops the Bluetooth connection before
it restarts, and `disconnected()` restarts as well: both are `Reboot`. An image
on trial whose self test fails, or that cannot be confirmed, is swapped back at
the next boot: that the old image is still there then is what `AlwaysBootable`
and `ImplementsFailsafe` are about. `OnlyAcceptedIsTried` is about the other
image: an upgrade request, which outlives a reset, always stands for the last
image that was accepted. `UpdateIsPursued` is the safety half of
`UpdateResolves`: a device that says it is updating is requesting the upgrade or
has `reboot_work` pending. The only thing that can end this without a restart is
`lwm2m_setup`, run again because the interface came up once more, when it
initializes the pending `reboot_work` (`src/lwm2m.c:428`). `forgotten` is set by
that step and no other, and reset when `reboot_work` is submitted again.

### DeviceView

Three variables: the state of the Firmware object or `offline`, the result, and
`unsure`, whether the device came back without its record of the update.
`FotaUpdate` implements it with `status <- IF engine = "down" THEN "offline"
ELSE fw` and `unsure` for a torn record (`ImplementsView`): an accepted update
is only ever left by a restart, and a device that comes back has a result to
tell unless it is unsure. That is what the device actions of `LeshanUpdate`
assume: `Restart` for `GoOffline` followed by `ComeBack` (without a result only
under the fault `forgets`), `TellAgain` for a device whose interface comes and
goes, and the transfer. So the script is checked against devices that are
allowed everything `FotaUpdate` may do, an update that fails in the middle of
the telling included. `DeviceView` says nothing of whether the result is true:
that is `SuccessIsInstalled` and `FailureIsNotInstalled`.

### BlockDownload

One action `ReceiveBlock` for a call of `firmware_block_received_cb` that goes
well, `BlockFails` for one in which a flash operation fails, with every amount
of work it may have done before, `DeclineBlock` and `EmptyBlock` for the early
returns. The parts of the callback are operators: `Prepared` (first block),
`EraseEnd` and `ErasedTo` (progressive erasing), `Programmed` (the buffered
writer of flash_img, external, with NOR semantics), `LengthMatches` (the test
of the last block), `CleanUp` (the cleanup label). A cell remembers which byte
of which transfer it holds. `Begin`, `GiveUp` and `Reset` are the engine, the
server and the power. `ended` is a history variable: the last transfer that
ended in the callback, accepted or not, or by a restart, all of which put the
statics back. It makes two properties possible that say exactly how far the two
violated ones go wrong: `NothingOlder` (all that may be left under a transfer is
of transfers given up since) for `StartsErased`, and `ErasesOneSectorMore` (only
the one sector behind the bank, only by progressive erasing, only when the
writer has come to the last sector) for `ErasesOnlyBank`. A transfer ends
`accepted`, `refused` (the writer or the length test says no) or `failed` (a flash
operation does), so that `CompleteIsAccepted` can speak of complete images under
every fault: after a transfer that was given up the next one is refused, after
any other it is accepted.

### AppWorkQueue

`Submit` and `AppendWork` are the two halves of `k_work_submit_to_queue`: test
and set the PENDING bit, then append. `GetWork`, `TestAndClear`, `CallHandler`
and `HandlerReturns` are the loop of `app_wq_run`. `owed` is a history
variable: items submitted since their handler last started. `app_wq_submit`
is all that the application uses; `app_wq_submit_delayed` has no caller.

### WorkService

Two variables, the items `waiting` and the one `running`. `AppWorkQueue`
implements it with the items whose PENDING bit is set, wherever they are, and
the item that was taken up from the reset of its bit to the return of its
handler (`ImplementsService`). What `NoLostSubmission` does not say and this
does: no handler is called without a submission, and what was submitted before
its bit is reset, however often, is answered by one call.

### TestReport

The work queue is an instance of `AppWorkQueue` with the two items and three
threads of the application; `BeginHandler` ties the start of a handler to
`Queue!CallHandler` and the end of each handler to `Queue!HandlerReturns`. Of
`lwm2m_start` the module has what the test depends on, one action for each
assignment (`ReinitWork`, `ResetCount`, `StartLogging`, `StartClient`), of
`lwm2m_reg_update_result` one action for each result it prints, the end of the
report and the reset of `tc_logging`. On the engine's side `UpdateEvent` is the
early return of `handle_test_result`, `StoreResult` its store with the
increment, `SubmitReport` its last test; `RegistrationFailure` and
`EndFailedTest` are the two halves of the case for a failed registration.
`tc_count` is a plain variable that two threads use without a lock, so the
engine's code may go on with the value it has read or read it again; both
are allowed. `lwm2m_init` is the two initial states: an interface that is up,
and one the device waits for.

A test begun anew while `tc_work` is queued overwrites the link in the item, and
the item may then be queued a second time. The list of `k_queue` survives
neither: its tail is no longer reached from its head. `broken` says that this has
happened, and from then on an append may lose what is appended and what was there
(`LosesLink`).

History of the present test: `taken`, its outcomes; `failed`, whether a failed
registration ended it; `said`, whether the handler reported it; and `clean`. A
test is clean if, when `lwm2m_start` sets `tc_logging`, no event of the client of
the test before is being handled, no report is pending and nothing was counted:
the first test always is, and so is a later one that the events of the one
before do not run into. `ReportIsTrue`, `NoReportAfterFailure` and
`ResultsAreReported` speak of every clean test; `OneReportPerTest` and
`ReportIsComing` of every test. The last is the safety half of
`ResultsAreReported`: while `tc_count` says that all results are stored, a thread
or the queue has the report in hand, unless `lwm2m_start` took it away.

### LeshanUpdate

`main` is where `run()` is; `Admit` counts a client, `StartDownload` lists it
and starts its thread, `JoinDownloads`, `Trigger`, `JoinUpdates` and `Summary`
follow the code. `RequestDownload`, `FinishDownload`, `ExecuteUpdate`,
`FinishUpdate` and `StopThread` are the two thread functions. A thread that gets
an error, or an answer it can make nothing of, asks again after a while and has
no timeout; from `NoMoreAnswers` on it gets nothing else, and only `StopThread`
ends it. `Admit` tests the bound and counts in one step: only the main thread
increments, so nothing can come between that makes the test untrue. `Die` is an
exception, `Signal` the SIGINT handler, which Python runs in the main thread
between two steps. Python 3 is assumed: comparing `None` with 0 raises. Devices
are external, seen through `5/0/3` and `5/0/5`; a URL written to an idle device
resets `5/0/5`, as the LwM2M engine does. `image` is a history variable: whether
a device has held a whole image, and whether that was one of `before` or, after
it was `told` the URL, the one of this campaign (`held`). A device that restarts
in the middle of an update may come back without a result (the fault `forgets`,
`unsure` of `DeviceView`). A request of the main thread that raises ends the
script with a traceback and is left out; so is the choice of targets, which is
the constant `Client`.

### Campaign

The abstract campaign knows which clients the round has still to come to
(`pending`), which were begun and have not ended (`active`) and which were begun
in the first round (`began`). `LeshanUpdate` implements it
(`ImplementsCampaign`) with the clients that still owe the counter a decrement
as the active ones: a thread that died without one keeps its round open. So the
hand-made counter really is a barrier, and nobody is begun twice in a round or
updated who was not begun in the first.

### Identity

`generate_hex` makes bytes of pairs of characters in eight bits, as the code
does: every letter is a digit (`g` is 16), a character that is neither letter
nor digit is an error, a last odd character is dropped, a token of another
length is an error. `Buffer` prints the hardware id, eight digits for a word,
`hash32` is the hash over it in 32 bits, `OwnAddress` the static random address
made of the four bytes of the number. The module has no state.

### DeviceObjects

| Action | Code |
|---|---|
| `SelfTest` (`init_light_control`) | `main()` with `init_temp_device` and `init_light_control`: a device that fails never gets to `lwm2m_init` |
| `Setup` (`Read`, `EndpointName`, `Psk`) | `lwm2m_setup` up to the Security object, with the two reads that may fail |
| `StartClient`, `InterfaceUpAgain` | the end of `lwm2m_start`; `event_iface_up`, again |
| `Reset` | a reset, and `disconnected()` of `bluetooth.c` |
| `ReadTemperature` | `temp_read_cb` with a sensor that may fail, for the one instance there is |
| `OnOff` | the engine stores the value, then `on_off_cb`, whose length test a Boolean passes |
| `Get`, `Put` | `toggle()` of `toggle-lights.py`, its two requests |
| `OtherWrite` | any other user, and a request of a script that has given up waiting (external) |

The partition is erased or written by `gen_cred_partition.py`; a name and a
token that are read partly are `Garbled`. A `gpio_pin_write` that returns an
error is taken to have left the pin alone. History: `acked` is what the last
write asked for if it was acknowledged, `seen` the lamp as a script saw it, until
the lamp changes, and `misread` which read failed when name and key were
chosen.

## 3. Runs

| Run | Question | Result |
|---|---|---|
| `update_safety` | Is the device fail-safe, is a success true, and can a server rely on what it sees, whatever fails? | `TypeOK`, `AlwaysBootable`, `ServesOnlyConfirmed`, `CountersInStep`, `OnlyAcceptedIsTried`, `SuccessIsInstalled`, `UpdateIsPursued`, `ImplementsFailsafe`, `ImplementsView` hold |
| `update_results` | Does an accepted update come to a result? | `UpdateResolves` holds |
| `update_failure_lies` | Does a reported failure mean the image does not run? | violated |
| `block_progressive` | Is progressive erasing in time, and how far does it go? | `TypeOK`, `NoOverwrite`, `AcceptedIsWhole`, `ErasesOneSectorMore` hold |
| `block_whole_bank` | Is a complete image accepted, and is nothing left of what ended before? | `CompleteIsAccepted`, `NothingOlder` hold |
| `block_starts_stale` | Is the bank erased when a transfer starts? | violated |
| `block_erases_beyond` | Is only bank 1 erased? | violated |
| `queue_service` | Is every submission called, each item queued once, and nothing else called? | `TypeOK`, `LinkedOnce`, `NoLostSubmission`, `SubmittedIsCalled`, `ImplementsService` hold |
| `test_report` | Is the report of the registration test true, single and certain? | `TypeOK`, `ReportIsTrue`, `NoReportAfterFailure`, `OneReportPerTest`, `ReportIsComing`, `ResultsAreReported` hold |
| `leshan_campaign` | Does the script keep its books, and does it end, whatever fails? | `TypeOK`, `CountIsThreads`, `DownloadsBounded`, `UpdatesAfterDownloads`, `ExitZeroMeansHeld`, `ImplementsCampaign`, `AbortEnds`, `CampaignEnds` hold |
| `leshan_exit_zero` | Does exit code 0 mean the targets were updated? | violated |
| `device_objects` | Is what a device publishes and shows what it was given and told? | `TypeOK`, `AcknowledgedIsShown`, `RegistersAsProvisioned`, `ToggleInverts` hold |

### What the violated properties show

* `FailureIsNotInstalled` ("Failed update", `src/lwm2m.c:611`). The image is
  confirmed at line 558, COUNTER_CURRENT is saved at 587. After a reset in
  between, the image counts as confirmed, lines 557-602 are skipped and the
  counters still differ: the device reports RESULT_UPDATE_FAILED for the image
  it runs, at this and at every later boot, until another update succeeds.
* `StartsErased` ("Erase bank 1 before starting the write process",
  `src/lwm2m.c:199`). `bytes_downloaded` is static and nobody clears it when a
  transfer is given up. The next transfer goes on where the old one stopped; in
  the end its length does not match and it is refused. Only the one after it
  starts clean (`CompleteIsAccepted`). If, however, its last-block flag also
  comes too early, a mixture of two images may be accepted; `AcceptedIsWhole`
  leaves that case out. `NothingOlder` says that it never gets worse: what ended
  in any other way leaves nothing.
* `ErasesOnlyBank` ("Erase the sector that's going to be written to next",
  `src/lwm2m.c:236`). The loop erases a whole sector ahead of `bytes_written`
  and knows no end: while the last sector of the bank is being filled, the
  first sector behind the bank is erased too, and never more than that
  (`ErasesOneSectorMore`).
* `ExitZeroMeansUpdated` ('update FAILED', `scripts/leshan.py:236`). `update()`
  notes a failure in a local variable `result` (158, 165); the summary reads
  `ua.result`, which the download set to True.

More observations, made while modelling, that have no run of their own:

* A device fresh from the factory reports RESULT_SUCCESS, because its counters
  are 0 and 0 and the value -1 that line 605 tests for is never stored: this is
  the disjunct `target = None` of `SuccessIsInstalled`.
* `leshan.py` accepts a device it finds in state 2 before it sent its URL, and
  then installs an image of an earlier campaign: hence the two cases of
  `ExitZeroMeansHeld`, told by `requested`.
* A device that is no longer registered, or answers everything with an error, keeps
  its thread of `leshan.py` polling for ever (lines 137-140 and 160-162, "TODO
  check timeout"), and the script waits for it: hence `silent` in the premise of
  `CampaignEnds`. SIGINT still ends the script.
* A settings record that cannot be read at a boot makes the device report a
  success for no reason, and a torn one may leave it without any result: hence
  `misread`. Both are gone after the next boot that can read the record.
* If the interface comes up again in the second between an accepted update and
  the reboot, the reboot may be lost. The device then says it is updating until
  the server executes 3/0/4 or the power fails: hence `forgotten`.
* A thread of `leshan.py` that dies of an exception (the fault `throw`) skips
  `thread_count.dec()`, and lines 203 and 219 wait for the counter without
  looking at `aborted`: SIGINT no longer ends the script. With the fault
  `late`, SIGINT between line 193 and line 198 does not reach the action about
  to be listed, whose thread then runs as long as its device does. The run lets
  both happen; `AbortEnds` and `CampaignEnds` name them as the only exceptions.
* `gen_cred_partition.py` makes the token optional (line 43). The partition
  then holds an empty string, which is read without an error, so that
  `generate_hex` returns `-EINVAL` and the client never starts, although
  `src/lwm2m.c:361` has "No token, use the default key instead". Every token of
  another length, save one odd character more, has the same effect.
* `generate_hex` takes the letters `g` to `z` as digits and drops a last odd
  character: `0g` makes the same byte as `10`, so two tokens can make one key.
* A flash read that fails when the interface comes up again gives a registered
  device another name or the default key: hence `misread`.
* After a failed GPIO write the resource has the new value and the lamp the old
  one. A script that toggles then asks for the state the lamp already has; its
  write is acknowledged and changes nothing: hence `seen` is `None` then.
* An answer without a value, or an error, makes `get()` of `toggle-lights.py`
  return `None`, and `not None` switches the light on. Two scripts that both
  read the light before either writes lose a toggle: the second finds it
  changed. `--loops N` toggles N+1 times (`loop_counter >= 0`, line 112).
* A failed `fota_settings_init` prints a failed self test and then a passed one,
  and the device goes on (`src/main.c:123`).
* `lwm2m_start` initializes `tc_work` each time it runs; if the item is on the
  queue then, its PENDING bit is lost and `app_wq_run` drops it, so that the
  report of the test before is never printed; and since the link in the item
  is overwritten too, items queued behind it, and later ones, may be lost: hence
  `broken`.
* If the test is begun anew between the last result and the report, the
  handler may report a test of which it has no results, as passed: hence
  `clean` in `ReportIsTrue`.
* If the registration fails after the last result but before the handler has
  printed, the test ends with two final reports; hence `Len(taken) < N` in the
  history variable `failed`.

### Bounds, and why they are enough

* `FotaUpdate`: `MaxImages = 3`, `MaxResets = 3`. A counter that went wrong
  in one update shows in the next, and a third one can be interrupted twice;
  nothing in the code counts further. Both runs let the interface flap as often
  as it likes. `MaxImages = 1` for `update_failure_lies`,
  whose counterexample needs one update and one reset.
* `BlockDownload`: a bank of 12 cells, two sectors of 6, a write buffer of 3, a
  block of 2. Blocks and buffers are not aligned to each other, a buffer ends
  inside a sector and at its end, an image may end anywhere and be one cell too
  large for the bank. Three transfers: one that leaves something, one that meets
  it, one that follows. The proofs hold for every geometry with
  `2 * Buf + Block <= Sector + 2`. Each property is checked for the way of
  erasing in which it is in danger; the theorems hold for both.
* `AppWorkQueue`: the two items and three threads of the application.
* `TestReport`: two results instead of five and three times that the interface
  comes up: a test before, a test begun anew in the middle of it and another
  start on the queue behind it. Later tests that are clean, that fail and that meet
  a broken list all occur. The proofs hold for every number of both.
* `LeshanUpdate`: two targets with `--threads 1`, so that one waits for the
  other and one thread's end lets another start; all six faults. A violation
  needs only one target. The proofs hold for every number of both.
* `DeviceObjects`: keys of two bytes, where a digit can be at the wrong end of a
  byte and a byte at the wrong end of the key; a token of hexadecimal digits,
  one with letters beyond `f` that runs over the byte, one too short, an empty
  one and one with a character that is no digit at all; one id, two readings,
  two scripts; an inverted pin; all faults. `Word = 65536` instead of 2^32, so
  that the hash of eight digits wraps; `HashAssumption` of `MCDeviceObjects`
  compares `hash32` with the polynomial in 37 it stands for. The proofs hold for
  every key size, set of tokens and scripts.

`CHECK_DEADLOCK FALSE` is set where the system really may stop: `BlockDownload`
after `MaxTransfers`, `LeshanUpdate` after the script's exit, `TestReport` when
the setup failed and the interface does not come up again, and in
`update_safety` a device whose self test failed (`main()` returns) and that
nobody resets.

### Fairness, and why the code justifies it

* `FotaUpdate!LiveSpec`: the bootloader boots, the main thread and a callback
  that has begun go on, `reboot_work` expires. Zephyr's scheduler and timers
  give that. Nothing is asked of the server, the network or the power, save
  that the network interface comes up once after a boot. `update_results`
  allows the failures that the code does not notice, of `boot_request_upgrade`
  and of reading the record: after any other the device stays silent until
  somebody resets it, which is what the code does. The interface flaps there as
  well; `UpdateResolves` names the two ends without a result, a `reboot_work` that
  was lost (`src/lwm2m.c:428`) and a torn record (`src/settings.c:47`).
* `AppWorkQueue!LiveSpec`: `app_wq_run` and a submission that has begun go on,
  handlers return. They do: both handlers are straight-line code.
* `TestReport!LiveSpec`: the same for the three threads; no event has to come.
* `DeviceObjects` states no fairness: nothing in it must happen. A script that
  fails gives up, and a device that is not asked does nothing.
* `LeshanUpdate!ScriptSpec`: the main thread and each living thread go on, so
  every HTTP request returns, or its thread dies (the fault `throw` stands for a
  request that hangs, too). Devices owe nothing, not even a usable answer: a thread
  may at any time be past its last one (the fault `silence`), and the fairness
  asks nothing of it then but to look at its abort flag. `CampaignEnds` names what
  it needs of devices and answers in its premise.

## 4. Proofs

All theorems hold for all values of the constants that satisfy the named
assumption of the module (`FotaAssumption`, `BlockAssumption`,
`WorkAssumption`, `TestReportAssumption`, `LeshanAssumption`,
`IdentityAssumption`, `ObjectsAssumption`); TLC evaluates each of them in a run.
What is external is assumed to behave as its actions say, and nothing else is.

| Theorem | States | Argument |
|---|---|---|
| `FotaUpdateProofs!TypeCorrect` | `Spec => []TypeOK` | inductive as it stands |
| `BootableAlways`, `ServesConfirmed` | `AlwaysBootable`, `ServesOnlyConfirmed` | `BankInv` |
| `CountersStayInStep` | `CountersInStep` | `CounterInv` |
| `SuccessNeverLies` | `SuccessIsInstalled` | `ResultInv` |
| `DeviceIsFailsafe` | `Spec => ImplementsFailsafe` | step simulation under `BankInv` |
| `ServerCanRely` | `Spec => ImplementsView` | step simulation under `ViewInv` |
| `TriesOnlyAccepted` | `OnlyAcceptedIsTried` | `TriedInv` |
| `UpdatesArePursued` | `UpdateIsPursued` | `PursuitInv` |
| `BlockDownloadProofs!TypeCorrect` | `Spec => []TypeOK` | with the invariant below |
| `NeverOverwrites` | `Spec => []NoOverwrite` | `AheadInv` |
| `AcceptedAlwaysWhole`, `CompleteAlwaysAccepted` | `AcceptedIsWhole`, `CompleteIsAccepted` | `WholeInv` |
| `NeverOlder` | `NothingOlder` | `OlderInv` |
| `ErasesAtMostOneMore` | `Spec => ErasesOneSectorMore` | `BeyondInv` |
| `AppWorkQueueProofs!TypeCorrect`, `AlwaysLinkedOnce`, `SubmissionsAreKept` | `TypeOK`, `LinkedOnce`, `NoLostSubmission` | `PendingInv`, on where an item is |
| `QueueIsService` | `Spec => ImplementsService` | step simulation under `PendingInv` |
| `TestReportProofs!TypeCorrect` | `Spec => []TypeOK`, which bounds `tc_count` and every index into `tc_results` | inductive with `engine = "store" => tc_count < N` |
| `ReportsAreSingle` | `OneReportPerTest` | `OnceInv` |
| `ReportsAreTrue`, `FailedTestsStaySilent` | `ReportIsTrue`, `NoReportAfterFailure` | `CleanInv` |
| `ReportsAreComing` | `ReportIsComing` | `OnceInv` with `ComingInv` |
| `LeshanUpdateProofs!CounterIsExact`, `TypeCorrect`, `DownloadsStayBounded`, `UpdatesWait` | `CountIsThreads`, `TypeOK`, `DownloadsBounded`, `UpdatesAfterDownloads` | `BookInv` |
| `ExitCodeTellsImages` | `ExitZeroMeansHeld` | `ImageInv` with `ExitInv` |
| `RoundsKeptApart` | `Spec => ImplementsCampaign` | step simulation under `BookInv` |
| `IdentityProofs!AddressTellsNumber` | the serial number can be computed from the Bluetooth address | arithmetic on the four bytes |
| `TokensMakeTheirKeys` | different tokens of hexadecimal digits make different keys | byte by byte |
| `DeviceObjectsProofs!TypeCorrect` | `Spec => []TypeOK`: no failed read is ever published | with the lemma `KeyIsWhole` |
| `ProvisionedAlways` | `RegistersAsProvisioned` | `ProvisionedInv`, with the lemma on a digit pair |
| `AcknowledgedAlwaysShown` | `AcknowledgedIsShown` | `LightInv` |
| `TogglesInvert` | `Spec => ToggleInverts` | `ToggleInv` |

Why the invariants are needed:

* `BankInv`. That a confirmed image runs when bank 1 is erased cannot be
  seen from the banks: it follows from where the main thread is, past the
  confirmation, and from the engine not running before.
* `CounterInv`. `lwm2m_image_init` writes back a copy of the counter it took
  several steps before. The copy is not stale because no callback runs until
  the image is confirmed, so `counter = uc` while `main` is confirming. A torn
  record leaves cache and copy with an `update` of 0 and whatever `current` it
  has; what is saved of them has both halves equal, or the one made of the other.
* `ResultInv`. It follows the claim "the counters agree, so the image of the
  last update is installed" through flash, cache and copy, and ties the image
  on trial to `target`. Of cache and copy it says so in a boot that read its record;
  of the flash always, so that a misread record does not outlive its boot.
* `AheadInv`. What lies from the writer's position to the end of the erased
  area is erased, and the erased area is always a sector ahead of the writer;
  for whole-bank erasing the whole rest of the bank is.
* `WholeInv`. `bytes_downloaded` counts the cells of the present transfer, or is
  ahead of it after an abandoned one, and then the length of the transfer can no
  longer match: a complete image is refused. It is zero after a transfer that
  was accepted, refused, failed or reset. As long as it counts right, flash and
  buffer hold the cells in their order, and they stay because nothing below the
  writer is erased again. That the last, padded buffer fits needs the writer to
  be at a multiple of the buffer, as the bank is.
* `OlderInv`. A block that is not the first of its transfer may be taken for one:
  what counts is whether `bytes_downloaded` is zero when it comes. While it is
  not, everything below the erased frontier, and the buffer of the writer, is
  younger than the last transfer that ended, since the statics are put back
  whenever one ends.
* `BeyondInv`. The writer stays within the bank, since flash_img refuses the
  rest, and the erased frontier within one sector more. That erasing touches
  the sector behind the bank only from its last one is a matter of divisibility:
  it goes to the first sector boundary that is a whole sector ahead of the
  writer, and the end of the bank is a boundary.
* `TriedInv`. An update under way keeps the engine from starting a transfer, and
  bank 1 is only erased by the main thread before the engine runs; no request
  is pending after a boot, which has answered it.
* `PursuitInv`. While the engine is down nothing is under way and no reboot is
  pending, so that the first run of `lwm2m_setup` has nothing to lose; a later one
  takes an interface that comes up again.
* `ViewInv`. The main thread sets the result before the client starts, while
  the engine is down: it is told as soon as the engine is up, so it must already
  be there, and it is there because the counters are in step, unless the record
  was torn.
* `OnceInv`. Each test begun is good for one report, which is first missing
  (`tc_count < N`), then due at the end of `handle_test_result`, then the PENDING
  bit of `tc_work`, a call of its handler and a print. The sum of these places
  and the reports printed never exceeds the tests begun: a reset of `tc_count`
  opens a place and is paid for by the test that begins.
* `CleanInv`. A clean test is under way as the code means it: the outcomes taken
  are those stored, plus one while the engine is about to store it, and a report
  is on its way only when all of them are there. It holds when `tc_logging` is set
  and every event keeps it; when the interface comes up again it holds until
  `lwm2m_start` is past its setup, and another test has begun.
* `ComingInv`. As long as the list is whole, a set PENDING bit of `tc_work` means
  that the item is on the list, about to be appended, or taken: `k_work_init` may
  lose the item, but then resets its bit. And with all results stored the bit is set
  from the end of `handle_test_result` to the call, or `lwm2m_start` is just between
  the reset of the bit and the reset of `tc_count`; that a store cannot come late
  from a test before is what `OnceInv` is needed for.
* `PendingInv`. The PENDING bit is set exactly while the item is on its way from
  a submission to the runner, so the runner never finds it reset.
* `BookInv`. That the counter is the number of threads needs to know that no
  client is counted twice: a client is still to come, about to be listed, or
  listed, and only a listed one has a thread. That downloads and updates never
  overlap needs the counter to be exact when the main thread stops waiting.
* `ImageInv`, `ExitInv`. A device that holds an image after it was told the URL
  holds the one of this campaign, one that was not told holds an older one, and
  a result of True is only left by a device that held an image. A client is left
  out of the list only if the script was aborted.
* `ProvisionedInv`. Name and key are right one step before the client starts.
* `LightInv`. An acknowledged write may be one that `on_off_cb` skipped, so the
  property needs `led_current = lamp` after every start, failed or not.
* `ToggleInv`. What a script is about to put is the opposite of what it saw, and
  what it saw is what the lamp still shows. A write in between that leaves the
  lamp alone does no harm; that the script's own write then is not skipped needs
  `LightInv`, by which `led_current` is the lamp.

Checked by TLC only: liveness (`UpdateResolves`, `SubmittedIsCalled`,
`ResultsAreReported`, `AbortEnds`, `CampaignEnds`), which is out of the reach of
TLAPS; and what `hash32` computes, which takes an induction over data.

## 5. Not modelled

* `reset_targets.py` and `wait_for_targets.py`: loops of one thread that poll
  and keep nothing but a loop counter. What they do to a device is
  `DeviceReboot` of `FotaUpdate` and `Restart` of `LeshanUpdate`.
* The other resource values `lwm2m_setup` publishes (server address,
  manufacturer, model, versions), which are constants of the build or of the
  image; the version string and the logging of it; the percentage of a download,
  which is only logged.
* The name made of a modem's IMEI; the LED of a Bluetooth connection; how often
  `toggle-lights.py` repeats and which clients it chooses.
* The `-EINVAL` of `on_off_cb` for a length other than one byte: the resource is a
  Boolean, which the engine stores in one byte whatever is written. The
  `obj_inst_id != 0` branch of `temp_read_cb`: `main()` creates instance 0 and no
  other.
* What `bt_network_disable`, which `reboot()` calls, does to the radio: it drops the
  connection, and `disconnected()` restarts the device as `reboot()` does.
* The build configuration: what it switches is a constant where a module needs
  it (`CONFIG_FOTA_ERASE_PROGRESSIVELY`, `CONFIG_FOTA_LED_GPIO_INVERTED`, the
  way `set_own_bt_addr` marks the address).
* The LwM2M engine, CoAP, MCUboot, flash_img, the settings backend and Zephyr's
  kernel are not part of the repository; they are modelled as far as the code
  relies on them.

## 6. Plan

Done: 1 `FotaUpdate` with `FailsafeSwap` and `DeviceView`, 2 `BlockDownload`,
3 `AppWorkQueue`, 4 `LeshanUpdate`, 5 `TestReport` over `AppWorkQueue`,
6 `Identity`, 7 `DeviceObjects` over `Identity`, and the proofs above.

`FotaUpdate` and `BlockDownload` meet in properties and not in a common
specification. `StartDownload` of `FotaUpdate` makes bank 1 unbootable:
`NothingOlder` says that `BlockDownload` leaves nothing of an image that was
accepted. `FinishDownload` puts a whole image there: `AcceptedIsWhole` says when
`BlockDownload` does.

To come: `LeshanUpdate` over `DeviceView` as one composed specification.
