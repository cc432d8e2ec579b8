---------------------------- MODULE LeshanUpdate ----------------------------
(***************************************************************************)
(* A firmware campaign as scripts/leshan.py runs it against a Leshan       *)
(* server: the main thread starts at most max_threads download threads,    *)
(* waits until all of them have ended, starts an update thread for every   *)
(* image that was downloaded, waits again and exits with a summary.  A     *)
(* shared counter of threads is all the main thread waits on.  SIGINT may  *)
(* come between any two steps of the main thread.                          *)
(*                                                                         *)
(* The devices are external.  They are modelled by what the script reads   *)
(* of them, resources 5/0/3 and 5/0/5; module FotaUpdate has their inside. *)
(***************************************************************************)
EXTENDS Integers, FiniteSets

CONSTANTS
  Client,       \* the targets of the server's list that pass the filters
  MaxThreads,   \* --threads
  Faults        \* what may go wrong, see Fault

Fault == {"throw",    \* a request raises, answers without a value or hangs
          "lost",     \* a request is carried out but its answer is an error
          "silence",  \* a thread gets no usable answer any more
          "forgets",  \* a device comes back from an update without a result
          "signal",   \* SIGINT, not between admitting and listing a client
          "late"}     \* SIGINT in between

ASSUME LeshanAssumption ==
  /\ IsFiniteSet(Client)
  /\ MaxThreads \in Nat \ {0}
  /\ Faults \subseteq Fault

VARIABLES
  main,       \* where run() is
  todo,       \* the clients its loop has still to come to
  admitted,   \* the client counted but not in update_list yet, as a set
  listed,     \* the clients in update_list
  count,      \* thread_count.value
  aborted,    \* the global flag
  exit,       \* the exit code, NoExit while the script runs
  thread,     \* the latest thread of each client
  result,     \* ua.result of each client
  requested,  \* ua.requested of each client
  abort,      \* ua.abort_thread of each client
  silent,     \* clients whose thread gets nothing but errors any more
  status,     \* 5/0/3 of each device
  outcome,    \* 5/0/5 of each device
  image,      \* history: the last image each device was given, see Image
  updated     \* history: devices that restarted from an update with success

script == <<main, todo, admitted, listed, count, aborted, exit>>
action == <<result, requested, abort>>
device == <<status, outcome, image, updated>>
vars   == <<script, thread, action, silent, device>>

NoExit == -1
Status == {"idle", "downloading", "downloaded", "updating"}
Outcome == {"none", "success", "failed"}

(* None, one from before the campaign, or the campaign's: told, or there.  *)
Image == {"none", "before", "told", "held"}

Running == {"download", "update", "wait"}

TypeOK ==
  /\ main \in {"admit", "join", "trigger", "joinUpdates", "summary", "done"}
  /\ todo \subseteq Client /\ listed \subseteq Client
  /\ admitted \in SUBSET Client /\ Cardinality(admitted) <= 1
  /\ count \in 0 .. Cardinality(Client)
  /\ aborted \in BOOLEAN
  /\ exit \in {NoExit, 0, 1}
  /\ thread \in [Client -> Running \cup {"none", "ended", "dead"}]
  /\ result \in [Client -> BOOLEAN]
  /\ requested \in [Client -> BOOLEAN]
  /\ abort \in [Client -> BOOLEAN]
  /\ status \in [Client -> Status]
  /\ silent \subseteq Client
  /\ outcome \in [Client -> Outcome]
  /\ image \in [Client -> Image]
  /\ updated \subseteq Client

(* The devices may be anywhere in an update when the script starts.        *)
Init ==
  /\ main = "admit" /\ todo = Client /\ admitted = {} /\ listed = {}
  /\ count = 0 /\ aborted = FALSE /\ exit = NoExit
  /\ thread = [c \in Client |-> "none"]
  /\ result = [c \in Client |-> FALSE]
  /\ requested = [c \in Client |-> FALSE]
  /\ abort = [c \in Client |-> FALSE]
  /\ status \in [Client -> Status]
  /\ outcome \in [Client -> Outcome]
  /\ silent = {}
  /\ image = [c \in Client |->
                IF status[c] = "downloaded" THEN "before" ELSE "none"]
  /\ updated = {}

-----------------------------------------------------------------------------
(* run(), the main thread.                                                 *)

MayAdmit_OneMore == count <= MaxThreads

MayAdmit == count < MaxThreads

(* The client is counted ...  Only the main thread increments, so nothing  *)
(* can come between its test of the bound and the increment.               *)
Admit(c) ==
  /\ main = "admit" /\ admitted = {} /\ c \in todo
  /\ ~aborted /\ MayAdmit
  /\ todo' = todo \ {c} /\ admitted' = {c}
  /\ count' = count + 1
  /\ UNCHANGED <<main, listed, aborted, exit, thread, action, silent,
                 device>>

(* ... then listed, and its download thread started.                       *)
StartDownload(c) ==
  /\ c \in admitted
  /\ admitted' = {} /\ listed' = listed \cup {c}
  /\ thread' = [thread EXCEPT ![c] = "download"]
  /\ UNCHANGED <<main, todo, count, aborted, exit, action, silent, device>>

(* The loop is over, or SIGINT came and it runs through without effect.    *)
EndAdmission ==
  /\ main = "admit" /\ admitted = {}
  /\ todo = {} \/ aborted
  /\ main' = "join"
  /\ UNCHANGED <<todo, admitted, listed, count, aborted, exit, thread, action,
                 silent, device>>

AllEnded_OneLeft == count <= 1

(* What the main thread waits for, aborted or not.                         *)
AllEnded == count = 0

JoinDownloads ==
  /\ main = "join" /\ AllEnded
  /\ main' = IF aborted THEN "summary" ELSE "trigger"
  /\ todo' = IF aborted THEN {} ELSE listed
  /\ UNCHANGED <<admitted, listed, count, aborted, exit, thread, action,
                 silent, device>>

(* Execution is triggered where the download went well; max_threads does   *)
(* not apply.                                                              *)
Trigger(c) ==
  /\ main = "trigger" /\ c \in todo
  /\ todo' = todo \ {c}
  /\ IF ~abort[c] /\ result[c]
     THEN /\ count' = count + 1
          /\ thread' = [thread EXCEPT ![c] = "update"]
     ELSE UNCHANGED <<count, thread>>
  /\ UNCHANGED <<main, admitted, listed, aborted, exit, action, silent,
                 device>>

EndTriggering ==
  /\ main = "trigger" /\ todo = {}
  /\ main' = "joinUpdates"
  /\ UNCHANGED <<todo, admitted, listed, count, aborted, exit, thread, action,
                 silent, device>>

JoinUpdates_NoWait ==
  /\ main = "joinUpdates"
  /\ main' = "summary"
  /\ UNCHANGED <<todo, admitted, listed, count, aborted, exit, thread, action,
                 silent, device>>

JoinUpdates ==
  /\ main = "joinUpdates" /\ AllEnded
  /\ main' = "summary"
  /\ UNCHANGED <<todo, admitted, listed, count, aborted, exit, thread, action,
                 silent, device>>

(* An aborted client counts neither way.                                   *)
ExitCode == IF \E c \in listed : ~abort[c] /\ ~result[c] THEN 1 ELSE 0

Summary ==
  /\ main = "summary"
  /\ exit' = ExitCode /\ main' = "done"
  /\ UNCHANGED <<todo, admitted, listed, count, aborted, thread, action,
                 silent, device>>

AbortListed == [c \in Client |-> abort[c] \/ c \in listed]

(* signal_handler, which Python runs in the main thread.                   *)
Signal ==
  /\ ~aborted /\ main # "done"
  /\ IF admitted = {} THEN "signal" \in Faults ELSE "late" \in Faults
  /\ aborted' = TRUE
  /\ abort' = AbortListed
  /\ UNCHANGED <<main, todo, admitted, listed, count, exit, thread, result,
                 requested, silent, device>>

-----------------------------------------------------------------------------
(* The threads.                                                            *)

(* What a thread leaves alone; once it is over it no longer asks.          *)
ThreadOnly ==
  /\ UNCHANGED <<main, todo, admitted, listed, aborted, exit, abort>>
  /\ silent' = {c \in silent : thread'[c] \in {"download", "wait"}}

(* A thread that waits for its device asks again after every answer it can *)
(* make nothing of, an error among them, and has no timeout.               *)
NoMoreAnswers(c) ==
  /\ "silence" \in Faults
  /\ thread[c] \in {"download", "wait"} /\ c \notin silent
  /\ silent' = silent \cup {c}
  /\ UNCHANGED <<script, thread, action, device>>

EndThread_NoDec(c) ==
  UNCHANGED count /\ thread' = [thread EXCEPT ![c] = "ended"]

EndThread_Twice(c) ==
  count' = count - 2 /\ thread' = [thread EXCEPT ![c] = "ended"]

(* The end of a thread: thread_count.dec().                                *)
EndThread(c) == count' = count - 1 /\ thread' = [thread EXCEPT ![c] = "ended"]

StopThread_DownloadOnly(c) ==
  /\ thread[c] = "download" /\ abort[c]
  /\ EndThread(c)
  /\ ThreadOnly /\ UNCHANGED <<result, requested, device>>

(* The loop condition is looked at before each request.                    *)
StopThread(c) ==
  /\ thread[c] \in {"download", "wait"} /\ abort[c]
  /\ EndThread(c)
  /\ ThreadOnly /\ UNCHANGED <<result, requested, device>>

(* A device that is told a URL downloads from it.                          *)
TellUrl(c) ==
  /\ status' = [status EXCEPT ![c] = "downloading"]
  /\ outcome' = [outcome EXCEPT ![c] = "none"]
  /\ image' = [image EXCEPT ![c] = "told"]

(* download(): the device is idle, so it is told the URL.                  *)
RequestDownload(c) ==
  /\ thread[c] = "download" /\ c \notin silent /\ ~abort[c] /\ ~requested[c]
  /\ status[c] = "idle"
  /\ \/ /\ requested' = [requested EXCEPT ![c] = TRUE]
        /\ TellUrl(c)
        /\ UNCHANGED <<count, thread, result>>
     \/ /\ result' = [result EXCEPT ![c] = FALSE]
        /\ EndThread(c)
        /\ UNCHANGED requested
        /\ \/ UNCHANGED <<status, outcome, image>>
           \/ "lost" \in Faults /\ TellUrl(c)
  /\ ThreadOnly /\ UNCHANGED updated

DownloadResult_NotIdle(c) == status[c] # "idle"

DownloadResult(c) == status[c] = "downloaded"

(* download(): the image is there, the device is busy with an update, or   *)
(* it is idle although it was told the URL.  Any other answer, an error    *)
(* among them, is waited out.                                              *)
FinishDownload(c) ==
  /\ thread[c] = "download" /\ c \notin silent /\ ~abort[c]
  /\ \/ status[c] \in {"downloaded", "updating"}
     \/ status[c] = "idle" /\ requested[c]
  /\ result' = [result EXCEPT ![c] = DownloadResult(c)]
  /\ EndThread(c)
  /\ ThreadOnly /\ UNCHANGED <<requested, device>>

-----------------------------------------------------------------------------
(* update(): a device accepts the execution if it holds an image.          *)
(* A request that fails is noted in a local variable, not in ua.result.    *)
ExecuteUpdate(c) ==
  /\ thread[c] = "update"
  /\ \/ /\ status[c] = "downloaded"
        /\ status' = [status EXCEPT ![c] = "updating"]
        /\ \/ thread' = [thread EXCEPT ![c] = "wait"] /\ UNCHANGED count
           \/ "lost" \in Faults /\ EndThread(c)
     \/ EndThread(c) /\ UNCHANGED status
  /\ ThreadOnly
  /\ UNCHANGED <<result, requested, outcome, image, updated>>

FinishUpdate_OnSuccess(c) ==
  /\ thread[c] = "wait" /\ c \notin silent /\ ~abort[c]
  /\ outcome[c] = "success"
  /\ EndThread(c)
  /\ ThreadOnly /\ UNCHANGED <<result, requested, device>>

(* update(): the outcome is read until there is one, errors are waited     *)
(* out; a failed update too is only noted in a local variable.             *)
FinishUpdate(c) ==
  /\ thread[c] = "wait" /\ c \notin silent /\ ~abort[c]
  /\ outcome[c] \in {"success", "failed"}
  /\ EndThread(c)
  /\ ThreadOnly /\ UNCHANGED <<result, requested, device>>

(* A request raises, or the answer has no value to compare: the thread     *)
(* dies without dec().  A request that never returns looks the same.       *)
Die(c) ==
  /\ "throw" \in Faults
  /\ thread[c] \in Running
  /\ thread' = [thread EXCEPT ![c] = "dead"]
  /\ ThreadOnly /\ UNCHANGED <<count, result, requested, device>>

-----------------------------------------------------------------------------
(* The devices, as far as the script can see them (module DeviceView; a    *)
(* request to a device that is offline is one that is answered with an     *)
(* error).  After the script's exit nobody looks at them.                  *)

DeviceOnly == main # "done" /\ UNCHANGED <<script, thread, action, silent>>

Completed(c) == IF image[c] \in {"told", "held"} THEN "held" ELSE "before"

DownloadEnds(c) ==
  /\ status[c] = "downloading"
  /\ \/ /\ status' = [status EXCEPT ![c] = "downloaded"]
        /\ image' = [image EXCEPT ![c] = Completed(c)]
        /\ UNCHANGED outcome
     \/ /\ status' = [status EXCEPT ![c] = "idle"]
        /\ outcome' = [outcome EXCEPT ![c] = "failed"]
        /\ UNCHANGED image
  /\ UNCHANGED updated /\ DeviceOnly

(* A device that restarts in the middle of an update reports its outcome,  *)
(* unless it cannot read what it noted of the update; one that restarts    *)
(* otherwise may report an earlier one again.                              *)
Restart(c) ==
  /\ status[c] # "idle"
  /\ status' = [status EXCEPT ![c] = "idle"]
  /\ \E o \in Outcome :
       /\ status[c] = "updating" /\ o = "none" => "forgets" \in Faults
       /\ outcome' = [outcome EXCEPT ![c] = o]
       /\ updated' = IF status[c] = "updating" /\ o = "success"
                     THEN updated \cup {c} ELSE updated
  /\ UNCHANGED image /\ DeviceOnly

(* lwm2m_start runs again and reports what it makes of the counters then:  *)
(* in the middle of an update, a failure.                                  *)
TellAgain(c) ==
  /\ \E o \in Outcome \ {"none"} :
       outcome' = [outcome EXCEPT ![c] = o]
  /\ UNCHANGED <<status, image, updated>> /\ DeviceOnly

-----------------------------------------------------------------------------
MainStep ==
  \/ \E c \in Client : Admit(c) \/ StartDownload(c) \/ Trigger(c)
  \/ EndAdmission \/ JoinDownloads \/ EndTriggering \/ JoinUpdates \/ Summary

ThreadStep(c) ==
  \/ StopThread(c) \/ RequestDownload(c) \/ FinishDownload(c)
  \/ ExecuteUpdate(c) \/ FinishUpdate(c)

DeviceStep(c) == DownloadEnds(c) \/ Restart(c) \/ TellAgain(c)

Next ==
  \/ MainStep \/ Signal
  \/ \E c \in Client : ThreadStep(c) \/ NoMoreAnswers(c) \/ Die(c)
                        \/ DeviceStep(c)

Spec == Init /\ [][Next]_vars

(* The main thread and the threads that are alive go on: every request     *)
(* returns, and a thread that will get a usable answer gets it some time.  *)
(* Nothing is asked of the devices, nor that usable answers come.          *)
ScriptSpec ==
  Spec /\ WF_vars(MainStep) /\ \A c \in Client : WF_vars(ThreadStep(c))

-----------------------------------------------------------------------------
(* Properties.                                                             *)

(* The counter the main thread waits on is exact, whatever order threads   *)
(* end in: it counts those that run or died and the one about to start.    *)
CountIsThreads ==
  count = Cardinality({c \in Client : thread[c] \in Running \cup {"dead"}})
            + Cardinality(admitted)

(* No more downloads at a time than asked for.                             *)
DownloadsBounded ==
  Cardinality({c \in Client : thread[c] = "download"}) <= MaxThreads

(* No device is told to update while the thread of another still waits for *)
(* its download.                                                           *)
UpdatesAfterDownloads ==
  (\E c \in Client : thread[c] \in {"update", "wait"}) =>
    \A c \in Client : thread[c] # "download"

(* Exit code 0 of a campaign nobody aborted: every target has held a whole *)
(* image, and one that was told the URL (download, line 133) the image of  *)
(* this campaign, not one that an earlier campaign left on the device.     *)
ExitZeroMeansHeld ==
  exit = 0 /\ ~aborted =>
    \A c \in Client : image[c] = IF requested[c] THEN "held" ELSE "before"

(* The campaign keeps its two rounds apart and leaves nobody out, whatever *)
(* threads do to the counter: run() implements Campaign.  A client counts  *)
(* as active from its counting on, and for ever if its thread dies.        *)
Round ==
  IF main \in {"admit", "join"} THEN "download"
  ELSE IF main \in {"trigger", "joinUpdates"} THEN "update" ELSE "over"

Unfinished == {c \in Client : thread[c] \in Running \cup {"dead"}} \cup admitted

Rounds == INSTANCE Campaign WITH
  round   <- Round,
  pending <- IF main \in {"admit", "trigger"} THEN todo ELSE {},
  active  <- Unfinished,
  began   <- listed \cup admitted,
  stopped <- aborted

ImplementsCampaign == Rounds!Spec

(* 'Script aborting ...' (leshan.py:49): after SIGINT the script ends,     *)
(* whatever the devices do, unless a thread has died or SIGINT fell        *)
(* between the counting of an action and its listing.                      *)
AbortEnds ==
  aborted ~> main = "done" \/ (\E c \in Client : thread[c] = "dead")
                           \/ (\E c \in listed : ~abort[c])

(* A campaign ends by itself, whatever PUTs and POSTs come to and whenever *)
(* SIGINT comes.  The exceptions are a device that downloads for ever, an  *)
(* executed update that never comes to a result, a thread that dies and    *)
(* one that gets nothing but errors: the script has no timeout ("TODO      *)
(* check timeout", leshan.py:139).                                         *)
CampaignEnds ==
  (\A c \in Client : /\ []<>(status[c] # "downloading")
                     /\ []<>(thread[c] = "wait" => outcome[c] # "none")
                     /\ [](thread[c] # "dead" /\ c \notin silent))
  => <>(main = "done")

(* 'update FAILED' and exit code 1 (leshan.py:236): exit code 0 means that *)
(* each target runs the update, unless it was aborted.                     *)
ExitZeroMeansUpdated == exit = 0 => \A c \in listed : abort[c] \/ c \in updated
=============================================================================
