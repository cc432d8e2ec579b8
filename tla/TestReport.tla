----------------------------- MODULE TestReport -----------------------------
(***************************************************************************)
(* The registration test of src/lwm2m.c.  Once lwm2m_start has started the *)
(* client, the LwM2M engine thread reports the outcome of the registration *)
(* and of every update of it (rd_client_event); handle_test_result keeps   *)
(* the first NUM_TEST_RESULTS outcomes of updates and then submits tc_work *)
(* to the work queue, whose handler, lwm2m_reg_update_result, prints them  *)
(* and ends the test.  The main thread runs both lwm2m_start and the       *)
(* handler; nothing is locked, and lwm2m_start runs again whenever the     *)
(* network interface comes up.                                             *)
(*                                                                         *)
(* A test begins when lwm2m_start gets past its setup.                     *)
(***************************************************************************)
EXTENDS Integers, Sequences

CONSTANTS
  N,        \* NUM_TEST_RESULTS
  MaxUps    \* bound: how often the interface comes up

ASSUME TestReportAssumption == N \in Nat \ {0} /\ MaxUps \in Nat

VARIABLES
  queue, pending, adding, pc, work, owed,   \* the work queue
  broken,         \* its list has lost an item
  step,           \* where the handler is that the main thread runs
  i, final_result,                  \* locals of lwm2m_reg_update_result
  tc_logging, tc_count, tc_results, \* as in the code
  client,         \* the engine's client: down, registering or registered
  engine,         \* where the engine thread is in rd_client_event
  result, seen,   \* the outcome it handles, and the tc_count it has read
  subscribed, ups,   \* to NET_EVENT_IF_UP; how often it came
  tests, reports, \* history: tests begun, and reports the handler printed
  taken, failed, said, clean  \* history of the present test: the outcomes
     \* there were; whether it ended by a failed registration, was reported,
     \* and began with nothing of the test before under way

queueVars   == <<queue, pending, adding, pc, work, owed>>
mainVars    == <<step, i, final_result>>
testVars    == <<tc_logging, tc_count, tc_results>>
engineVars  == <<client, engine, result, seen>>
netVars     == <<subscribed, ups>>
historyVars == <<tests, taken, failed, reports, said, clean>>
vars == <<queueVars, broken, mainVars, testVars, engineVars, netVars, historyVars>>

Queue == INSTANCE AppWorkQueue
           WITH Work <- {"net_event_work", "tc_work"},
                Thread <- {"main", "net", "engine"},
                Main <- "main", None <- "none"

Outcome == {"PASS", "FAIL"}

TypeOK ==
  /\ Queue!TypeOK
  /\ step \in {"none", "setup", "reinit", "reset", "log", "connect",
               "print", "end"}
  /\ step # "none" => pc = "handler"
  /\ i \in 0..N /\ final_result \in Outcome
  /\ tc_logging \in BOOLEAN
  /\ tc_count \in 0..N
  /\ tc_results \in [0 .. N-1 -> Outcome]
  /\ client \in {"down", "registering", "registered"}
  /\ engine \in {"idle", "store", "compare", "end_report"}
  /\ result \in Outcome
  /\ seen \in 0 .. N-1
  /\ engine = "store" => tc_count < N
  /\ subscribed \in BOOLEAN /\ ups \in 0..MaxUps
  /\ tests \in Nat /\ taken \in Seq(Outcome)
  /\ failed \in BOOLEAN /\ reports \in Nat
  /\ broken \in BOOLEAN /\ said \in BOOLEAN /\ clean \in BOOLEAN

(* lwm2m_init with a network interface: if it is up, the main thread       *)
(* submits net_event_work itself, before app_wq_run, and never subscribes. *)
(* Without one, the main thread ends and nothing else ever happens.        *)
Init ==
  /\ subscribed \in BOOLEAN
  /\ queue = IF subscribed THEN << >> ELSE << "net_event_work" >>
  /\ owed = IF subscribed THEN {} ELSE {"net_event_work"}
  /\ pending = [w \in {"net_event_work", "tc_work"} |-> w \in owed]
  /\ adding = [t \in {"main", "net", "engine"} |-> "none"]
  /\ pc = "get" /\ work = "none"
  /\ step = "none" /\ i = 0 /\ final_result = "PASS"
  /\ tc_logging = FALSE /\ tc_count = 0
  /\ tc_results = [k \in 0 .. N-1 |-> "PASS"]
  /\ client = "down" /\ engine = "idle" /\ result = "PASS" /\ seen = 0
  /\ ups = 0
  /\ tests = 0 /\ taken = << >> /\ failed = FALSE /\ reports = 0
  /\ broken = FALSE /\ said = FALSE /\ clean = FALSE

-----------------------------------------------------------------------------
(* The network management thread.                                          *)

InterfaceUp ==   \* event_iface_up
  /\ subscribed /\ ups < MaxUps
  /\ ups' = ups + 1
  /\ Queue!Submit("net", "net_event_work")
  /\ UNCHANGED <<broken, mainVars, testVars, engineVars, subscribed,
                 historyVars>>

Links(t) ==
  /\ Queue!AppendWork(t)
  /\ UNCHANGED <<broken, mainVars, testVars, engineVars, netVars, historyVars>>

(* The list of k_queue does not survive an item that is appended while it  *)
(* is in the list, nor one whose link was overwritten there (ReinitWork):  *)
(* its tail is then no longer reached from its head, and what is appended  *)
(* may be lost, and what was linked before.                                *)
LosesLink(t) ==
  /\ adding[t] # "none"
  /\ broken \/ Queue!Queued(adding[t])
  /\ broken' = TRUE
  /\ adding' = [adding EXCEPT ![t] = "none"]
  /\ \E k \in 0..Len(queue) : queue' = SubSeq(queue, 1, k)
  /\ UNCHANGED <<pending, pc, work, owed, mainVars, testVars, engineVars,
                 netVars, historyVars>>

-----------------------------------------------------------------------------
(* The main thread: app_wq_run, lwm2m_start and lwm2m_reg_update_result.   *)

TakesItem ==
  /\ Queue!GetWork \/ Queue!TestAndClear
  /\ UNCHANGED <<broken, mainVars, testVars, engineVars, netVars, historyVars>>

BeginHandler ==
  /\ Queue!CallHandler
  /\ step' = IF work = "tc_work" THEN "print" ELSE "setup"
  /\ i' = 0 /\ final_result' = "PASS"
  /\ UNCHANGED <<broken, testVars, engineVars, netVars, historyVars>>

(* lwm2m_image_init or lwm2m_setup fails: lwm2m_start returns, and what it *)
(* would have set stays as it is.                                          *)
SetupFails ==
  /\ step = "setup" /\ step' = "none"
  /\ Queue!HandlerReturns
  /\ UNCHANGED <<broken, i, final_result, testVars, engineVars, netVars,
                 historyVars>>

SetupSucceeds ==
  /\ step = "setup" /\ step' = "reinit"
  /\ tests' = tests + 1 /\ taken' = << >> /\ failed' = FALSE
  /\ said' = FALSE /\ clean' = FALSE
  /\ UNCHANGED <<queueVars, broken, i, final_result, testVars, engineVars,
                 netVars, reports>>

(* k_work_init overwrites the whole item, its PENDING bit and its link:    *)
(* what is queued behind it may be lost.                                   *)
ReinitWork ==
  /\ step = "reinit" /\ step' = "reset"
  /\ pending' = [pending EXCEPT !["tc_work"] = FALSE]
  /\ \/ queue' = queue
     \/ \E k \in 1..Len(queue) :
          queue[k] = "tc_work" /\ queue' = SubSeq(queue, 1, k)
  /\ broken' = (broken \/ queue' # queue)
  /\ UNCHANGED <<adding, pc, work, owed, i, final_result, testVars,
                 engineVars, netVars, historyVars>>

ResetCount ==
  /\ step = "reset" /\ step' = "log"
  /\ tc_count' = 0
  /\ UNCHANGED <<queueVars, broken, i, final_result, tc_logging, tc_results,
                 engineVars, netVars, historyVars>>

StartLogging ==
  /\ step = "log" /\ step' = "connect"
  /\ tc_logging' = TRUE
  /\ clean' = (/\ engine = "idle" /\ ~pending["tc_work"] /\ tc_count = 0
               /\ taken = << >> /\ ~failed)
  /\ UNCHANGED <<queueVars, broken, i, final_result, tc_count, tc_results,
                 engineVars, netVars, tests, taken, failed, reports, said>>

(* lwm2m_rd_client_start, after the delay.                                 *)
StartClient ==
  /\ step = "connect" /\ step' = "none"
  /\ client' = "registering"
  /\ Queue!HandlerReturns
  /\ UNCHANGED <<broken, i, final_result, testVars, engine, result, seen,
                 netVars, historyVars>>

PrintResult_LastWins ==
  /\ step = "print" /\ i < tc_count
  /\ i' = i + 1 /\ final_result' = tc_results[i]
  /\ UNCHANGED <<queueVars, broken, step, testVars, engineVars, netVars,
                 historyVars>>

PrintResult ==
  /\ step = "print" /\ i < tc_count
  /\ i' = i + 1
  /\ final_result' = IF tc_results[i] = "FAIL" THEN "FAIL" ELSE final_result
  /\ UNCHANGED <<queueVars, broken, step, testVars, engineVars, netVars,
                 historyVars>>

EndReport ==
  /\ step = "print" /\ i >= tc_count
  /\ step' = "end"
  /\ reports' = reports + 1 /\ said' = TRUE
  /\ UNCHANGED <<queueVars, broken, i, final_result, testVars, engineVars,
                 netVars, tests, taken, failed, clean>>

StopLogging ==
  /\ step = "end" /\ step' = "none"
  /\ tc_logging' = FALSE
  /\ Queue!HandlerReturns
  /\ UNCHANGED <<broken, i, final_result, tc_count, tc_results, engineVars,
                 netVars, historyVars>>

MainStep ==
  \/ TakesItem \/ BeginHandler
  \/ SetupFails \/ SetupSucceeds \/ ReinitWork \/ ResetCount \/ StartLogging
  \/ StartClient
  \/ PrintResult \/ EndReport \/ StopLogging

-----------------------------------------------------------------------------
(* The engine thread: the client's events, and rd_client_event.  A client  *)
(* whose update failed registers again, and one that cannot register tries *)
(* again; the events that rd_client_event ignores are left out.            *)

EngineIdle == engine = "idle" /\ adding["engine"] = "none"

RegistrationComplete ==
  /\ EngineIdle /\ client = "registering"
  /\ client' = "registered"
  /\ UNCHANGED <<queueVars, broken, mainVars, testVars, engine, result, seen,
                 netVars, historyVars>>

RegistrationFailure ==
  /\ EngineIdle /\ client = "registering"
  /\ engine' = IF tc_logging THEN "end_report" ELSE "idle"
  /\ UNCHANGED <<queueVars, broken, mainVars, testVars, client, result, seen,
                 netVars, historyVars>>

EndFailedTest_GoesOn ==
  /\ engine = "end_report" /\ engine' = "idle"
  /\ failed' = (failed \/ Len(taken) < N)
  /\ UNCHANGED <<queueVars, broken, mainVars, testVars, client, result, seen,
                 netVars, tests, taken, reports, said, clean>>

(* The test ends here, with a report that says FAIL.                       *)
EndFailedTest ==
  /\ engine = "end_report" /\ engine' = "idle"
  /\ tc_logging' = FALSE
  /\ failed' = (failed \/ Len(taken) < N)
  /\ UNCHANGED <<queueVars, broken, mainVars, tc_count, tc_results, client,
                 result, seen, netVars, tests, taken, reports, said, clean>>

Handles_OffByOne == tc_logging /\ tc_count <= N

Handles == tc_logging /\ tc_count < N

(* The first half of handle_test_result: its early return.                 *)
UpdateEvent(r) ==
  /\ EngineIdle /\ client = "registered"
  /\ client' = IF r = "PASS" THEN "registered" ELSE "registering"
  /\ taken' = IF tc_logging /\ Len(taken) < N THEN Append(taken, r) ELSE taken
  /\ \/ Handles /\ engine' = "store" /\ result' = r /\ seen' = tc_count
     \/ ~Handles /\ UNCHANGED <<engine, result, seen>>
  /\ UNCHANGED <<queueVars, broken, mainVars, testVars, netVars, tests, failed,
                 reports, said, clean>>

(* tc_count is neither atomic nor volatile: its increment is of the value  *)
(* the first half read, or of the present one.                             *)
StoreResult ==
  /\ engine = "store" /\ engine' = "compare"
  /\ seen' \in {seen, tc_count}
  /\ tc_results' = [tc_results EXCEPT ![seen'] = result]
  /\ tc_count' = seen' + 1
  /\ UNCHANGED <<queueVars, broken, mainVars, tc_logging, client, result,
                 netVars, historyVars>>

SubmitReport_Early ==
  /\ engine = "compare" /\ engine' = "idle"
  /\ IF tc_count >= N - 1 THEN Queue!Submit("engine", "tc_work")
                          ELSE UNCHANGED queueVars
  /\ UNCHANGED <<broken, mainVars, testVars, client, result, seen, netVars,
                 historyVars>>

SubmitReport_Late ==
  /\ engine = "compare" /\ engine' = "idle"
  /\ IF tc_count > N THEN Queue!Submit("engine", "tc_work")
                     ELSE UNCHANGED queueVars
  /\ UNCHANGED <<broken, mainVars, testVars, client, result, seen, netVars,
                 historyVars>>

(* The last test is of the value stored, or of the present one.            *)
SubmitReport ==
  /\ engine = "compare" /\ engine' = "idle"
  /\ \E count \in {seen + 1, tc_count} :
       \/ count = N /\ Queue!Submit("engine", "tc_work")
       \/ count # N /\ UNCHANGED queueVars
  /\ UNCHANGED <<broken, mainVars, testVars, client, result, seen, netVars,
                 historyVars>>

HandlesEvent == EndFailedTest \/ StoreResult \/ SubmitReport

Next ==
  \/ InterfaceUp
  \/ \E t \in {"net", "engine"} : Links(t) \/ LosesLink(t)
  \/ MainStep
  \/ RegistrationComplete \/ RegistrationFailure
  \/ \E r \in Outcome : UpdateEvent(r)
  \/ HandlesEvent

Spec == Init /\ [][Next]_vars

(* A thread that is in the middle of its code goes on; no event has to     *)
(* come.                                                                   *)
LiveSpec ==
  /\ Spec
  /\ WF_vars(MainStep) /\ WF_vars(HandlesEvent)
  /\ \A t \in {"net", "engine"} : WF_vars(Links(t) \/ LosesLink(t))

-----------------------------------------------------------------------------
(* Properties.                                                             *)

(* A test is clean if lwm2m_start, which sets tc_work, tc_count and        *)
(* tc_logging one after the other and locks nothing, met no event of the   *)
(* client of the test before while it did so.                              *)

(* The report of a clean test is of all the outcomes the client had, in    *)
(* their order, and says FAIL exactly if one of them is.                   *)
ReportIsTrue ==
  step = "end" /\ clean =>
    /\ i = N /\ Len(taken) = N
    /\ \A k \in 1..N : tc_results[k-1] = taken[k]
    /\ final_result = "FAIL" <=> \E k \in 1..N : taken[k] = "FAIL"

(* A clean test that ended because the registration failed is not reported *)
(* a second time when the client registers after all.                      *)
NoReportAfterFailure == clean /\ failed => ~said

(* However the interface flaps, and whatever value of tc_count the engine  *)
(* thread goes on with, lwm2m_reg_update_result reports at most once for   *)
(* each time the test was begun.                                           *)
OneReportPerTest == reports <= tests

(* Once all results of a test are stored, its report is on its way: the    *)
(* engine thread or the work queue has it in hand.  In any test, clean or  *)
(* not; what takes it away is lwm2m_start, when it initializes the pending *)
(* tc_work for the next test (682), and a list that has lost an item.      *)
ReportIsComing ==
  tc_logging /\ tc_count = N /\ ~broken =>
    \/ engine = "compare"
    \/ Queue!Queued("tc_work") /\ pending["tc_work"]
    \/ Queue!Adding("tc_work") \/ Queue!Taken("tc_work")
    \/ step \in {"print", "end"}   \* it is being printed
    \/ step = "reset"              \* tc_work has just been initialized

(* When the last outcome of a clean test has come, its report is printed,  *)
(* unless the next test begins before or the list has lost an item.        *)
ResultsAreReported ==
  \A k \in 1 .. MaxUps + 1 :
    (clean /\ Len(taken) = N /\ tests = k)
      ~> (said \/ tests > k \/ broken)
=============================================================================
