-------------------------- MODULE TestReportProofs --------------------------
(* Theorems about TestReport, for any number of results and interface ups. *)
EXTENDS TestReport, TLAPS

LEMMA TypeInit == Init => TypeOK
<1>. SUFFICES ASSUME Init PROVE TypeOK
  OBVIOUS
<1>. USE TestReportAssumption DEF TestReportAssumption
<1>1. /\ queue \in Seq({"net_event_work", "tc_work"})
      /\ owed \subseteq {"net_event_work", "tc_work"}
  <2>1. CASE subscribed
    BY <2>1 DEF Init
  <2>2. CASE ~subscribed
    <3>1. queue = << "net_event_work" >> /\ owed = {"net_event_work"}
      BY <2>2 DEF Init
    <3>. QED
      BY <3>1
  <2>. QED
    BY <2>1, <2>2
<1>2. /\ pending \in [{"net_event_work", "tc_work"} -> BOOLEAN]
      /\ adding \in [{"main", "net", "engine"} ->
                       {"net_event_work", "tc_work"} \cup {"none"}]
  BY DEF Init
<1>3. Queue!TypeOK
  BY <1>1, <1>2 DEF Init, Queue!TypeOK
<1>4. tc_results \in [0 .. N-1 -> Outcome] /\ taken \in Seq(Outcome)
  BY DEF Init, Outcome
<1>5. /\ i \in 0..N /\ tc_count \in 0..N /\ seen \in 0 .. N-1
      /\ ups \in 0..MaxUps /\ tests \in Nat /\ reports \in Nat
  BY DEF Init
<1>6. engine = "idle" /\ step = "none" /\ subscribed \in BOOLEAN
  BY DEF Init
<1>. QED
  BY <1>3, <1>4, <1>5, <1>6 DEF Init, TypeOK, Outcome

(* What the steps of the queue do to its variables.                        *)
LEMMA QueueTypes ==
  ASSUME Queue!TypeOK,
         \/ \E t \in {"main", "net", "engine"} :
              \/ Queue!AppendWork(t)
              \/ \E w \in {"net_event_work", "tc_work"} : Queue!Submit(t, w)
         \/ Queue!GetWork \/ Queue!TestAndClear \/ Queue!CallHandler
         \/ Queue!HandlerReturns
  PROVE  Queue!TypeOK'
<1>1. CASE \E t \in {"main", "net", "engine"} : Queue!AppendWork(t)
  BY <1>1 DEF Queue!TypeOK, Queue!AppendWork
<1>2. CASE \E t \in {"main", "net", "engine"} :
             \E w \in {"net_event_work", "tc_work"} : Queue!Submit(t, w)
  BY <1>2 DEF Queue!TypeOK, Queue!Submit
<1>3. CASE Queue!GetWork
  BY <1>3 DEF Queue!TypeOK, Queue!GetWork
<1>4. CASE Queue!TestAndClear
  BY <1>4 DEF Queue!TypeOK, Queue!TestAndClear
<1>5. CASE Queue!CallHandler
  BY <1>5 DEF Queue!TypeOK, Queue!CallHandler
<1>6. CASE Queue!HandlerReturns
  BY <1>6 DEF Queue!TypeOK, Queue!HandlerReturns
<1>. QED
  BY <1>1, <1>2, <1>3, <1>4, <1>5, <1>6

(* A list that loses its end is still a list.                              *)
LEMMA PrefixType ==
  ASSUME NEW k \in Nat, k <= Len(queue), TypeOK
  PROVE  SubSeq(queue, 1, k) \in Seq({"net_event_work", "tc_work"})
<1>. DEFINE Items == {"net_event_work", "tc_work"}
<1>1. queue \in Seq(Items)
  BY DEF TypeOK, Queue!TypeOK
<1>. HIDE DEF Items
<1>2. SubSeq(queue, 1, k) \in Seq(Items)
  BY <1>1
<1>. QED
  BY <1>2 DEF Items

(* Only BeginHandler and the ends of the handlers move pc to and from      *)
(* "handler"; other threads leave it alone.                                *)
LEMMA TypeStep == TypeOK /\ [Next]_vars => TypeOK'
<1>. SUFFICES ASSUME TypeOK, [Next]_vars PROVE TypeOK'
  OBVIOUS
<1>. USE TestReportAssumption DEF TestReportAssumption
<1>1. CASE InterfaceUp
  <2>1. Queue!TypeOK' /\ pc' = pc
    BY <1>1, QueueTypes DEF InterfaceUp, TypeOK, Queue!Submit
  <2>. QED
    BY <1>1, <2>1 DEF InterfaceUp, TypeOK, mainVars, testVars, engineVars,
       historyVars
<1>2. CASE \E t \in {"net", "engine"} : Links(t)
  <2>1. Queue!TypeOK' /\ pc' = pc
    BY <1>2, QueueTypes DEF Links, TypeOK, Queue!AppendWork
  <2>. QED
    BY <1>2, <2>1 DEF Links, TypeOK, mainVars, testVars, engineVars, netVars,
       historyVars
<1>3. CASE TakesItem
  <2>1. Queue!TypeOK' /\ step = "none"
    BY <1>3, QueueTypes
       DEF TakesItem, TypeOK, Queue!GetWork, Queue!TestAndClear
  <2>. QED
    BY <1>3, <2>1 DEF TakesItem, TypeOK, mainVars, testVars, engineVars,
       netVars, historyVars
<1>4. CASE BeginHandler
  <2>1. Queue!TypeOK' /\ pc' = "handler"
    BY <1>4, QueueTypes DEF BeginHandler, TypeOK, Queue!CallHandler
  <2>. QED
    BY <1>4, <2>1 DEF BeginHandler, TypeOK, Outcome, testVars, engineVars,
       netVars, historyVars
<1>5. CASE SetupFails \/ StartClient \/ StopLogging
  <2>1. Queue!TypeOK'
    BY <1>5, QueueTypes DEF SetupFails, StartClient, StopLogging, TypeOK
  <2>2. /\ step' = "none" /\ tc_logging' \in BOOLEAN
        /\ client' \in {"down", "registering", "registered"}
        /\ UNCHANGED <<broken, i, final_result, tc_count, tc_results, engine,
                       result, seen, netVars, historyVars>>
    BY <1>5 DEF SetupFails, StartClient, StopLogging, TypeOK, testVars,
       engineVars
  <2>. QED
    BY <2>1, <2>2 DEF TypeOK, netVars, historyVars
<1>6. CASE ReinitWork
  <2>1. queue' \in Seq({"net_event_work", "tc_work"})
    <3>1. CASE queue' = queue
      BY <3>1 DEF TypeOK, Queue!TypeOK
    <3>2. ASSUME NEW k \in 1..Len(queue), queue' = SubSeq(queue, 1, k)
          PROVE  queue' \in Seq({"net_event_work", "tc_work"})
      BY <3>2, PrefixType
    <3>. QED
      BY <1>6, <3>1, <3>2 DEF ReinitWork
  <2>2. Queue!TypeOK' /\ pc' = pc
    BY <1>6, <2>1 DEF ReinitWork, TypeOK, Queue!TypeOK
  <2>3. broken' \in BOOLEAN
    BY <1>6 DEF ReinitWork, TypeOK
  <2>4. /\ step = "reinit" /\ step' = "reset"
        /\ UNCHANGED <<i, final_result, testVars, engineVars, netVars,
                       historyVars>>
    BY <1>6 DEF ReinitWork
  <2>. QED
    BY <2>2, <2>3, <2>4 DEF TypeOK, testVars, engineVars, netVars, historyVars
<1>13. CASE \E t \in {"net", "engine"} : LosesLink(t)
  <2>1. PICK t \in {"net", "engine"} : LosesLink(t)
    BY <1>13
  <2>2. PICK k \in 0..Len(queue) : queue' = SubSeq(queue, 1, k)
    BY <2>1 DEF LosesLink
  <2>3. queue' \in Seq({"net_event_work", "tc_work"})
    BY <2>2, PrefixType DEF TypeOK, Queue!TypeOK
  <2>4. Queue!TypeOK' /\ pc' = pc
    BY <2>1, <2>3 DEF LosesLink, TypeOK, Queue!TypeOK
  <2>. QED
    BY <2>1, <2>4 DEF LosesLink, TypeOK, mainVars, testVars, engineVars,
       netVars, historyVars
<1>7. CASE SetupSucceeds \/ ResetCount \/ StartLogging \/ PrintResult
           \/ EndReport
  <2>1. Queue!TypeOK' /\ pc' = pc
    BY <1>7 DEF SetupSucceeds, ResetCount, StartLogging, PrintResult,
       EndReport, TypeOK, queueVars, Queue!TypeOK
  <2>2. i' \in 0..N /\ final_result' \in Outcome
    BY <1>7 DEF SetupSucceeds, ResetCount, StartLogging, PrintResult,
       EndReport, TypeOK, Outcome
  <2>3. /\ tc_count' \in 0..N
        /\ engine' = engine /\ (engine = "store" => tc_count' < N)
        /\ tc_logging' \in BOOLEAN /\ tc_results' = tc_results
    BY <1>7 DEF SetupSucceeds, ResetCount, StartLogging, PrintResult,
       EndReport, TypeOK, testVars, engineVars
  <2>4. /\ tests' \in Nat /\ taken' \in Seq(Outcome)
        /\ failed' \in BOOLEAN /\ reports' \in Nat
        /\ said' \in BOOLEAN /\ clean' \in BOOLEAN
    BY <1>7 DEF SetupSucceeds, ResetCount, StartLogging, PrintResult,
       EndReport, TypeOK, historyVars
  <2>5. /\ step # "none"
        /\ step' \in {"reinit", "log", "connect", "print", "end"}
        /\ UNCHANGED <<engineVars, netVars, broken>>
    BY <1>7 DEF SetupSucceeds, ResetCount, StartLogging, PrintResult,
       EndReport
  <2>. QED
    BY <2>1, <2>2, <2>3, <2>4, <2>5 DEF TypeOK, engineVars, netVars
<1>8. CASE SubmitReport
  <2>1. Queue!TypeOK' /\ pc' = pc
    BY <1>8, QueueTypes
       DEF SubmitReport, TypeOK, queueVars, Queue!Submit, Queue!TypeOK
  <2>. QED
    BY <1>8, <2>1 DEF SubmitReport, TypeOK, mainVars, testVars, netVars,
       historyVars
<1>9. CASE StoreResult
  <2>1. Queue!TypeOK' /\ pc' = pc
    BY <1>9 DEF StoreResult, TypeOK, queueVars, Queue!TypeOK
  <2>2. tc_count < N /\ seen' \in 0 .. N-1 /\ tc_count' \in 0..N
    BY <1>9 DEF StoreResult, TypeOK
  <2>3. tc_results' \in [0 .. N-1 -> Outcome] /\ engine' = "compare"
    BY <1>9, <2>2 DEF StoreResult, TypeOK
  <2>4. UNCHANGED <<broken, mainVars, tc_logging, client, result, netVars,
                    historyVars>>
    BY <1>9 DEF StoreResult
  <2>. QED
    BY <2>1, <2>2, <2>3, <2>4 DEF TypeOK, mainVars, netVars, historyVars
<1>10. CASE EndFailedTest \/ RegistrationComplete \/ RegistrationFailure
  <2>1. Queue!TypeOK' /\ pc' = pc
    BY <1>10 DEF EndFailedTest, RegistrationComplete, RegistrationFailure,
       TypeOK, queueVars, Queue!TypeOK
  <2>2. CASE EndFailedTest
    BY <2>1, <2>2 DEF EndFailedTest, TypeOK, mainVars, netVars
  <2>3. CASE RegistrationComplete
    BY <2>1, <2>3 DEF RegistrationComplete, TypeOK, mainVars, testVars,
       netVars, historyVars
  <2>4. CASE RegistrationFailure
    BY <2>1, <2>4 DEF RegistrationFailure, TypeOK, mainVars, testVars,
       netVars, historyVars
  <2>. QED
    BY <1>10, <2>2, <2>3, <2>4
<1>11. CASE \E r \in Outcome : UpdateEvent(r)
  <2>1. PICK r \in Outcome : UpdateEvent(r)
    BY <1>11
  <2>2. Queue!TypeOK' /\ pc' = pc
    BY <2>1 DEF UpdateEvent, TypeOK, queueVars, Queue!TypeOK
  <2>3. taken' \in Seq(Outcome)
    BY <2>1 DEF UpdateEvent, TypeOK
  <2>4. /\ engine' \in {"idle", "store", "compare", "end_report"}
        /\ result' \in Outcome /\ seen' \in 0 .. N-1
        /\ engine' = "store" => tc_count < N
    BY <2>1 DEF UpdateEvent, TypeOK, Handles
  <2>. QED
    BY <2>1, <2>2, <2>3, <2>4 DEF UpdateEvent, TypeOK, mainVars, testVars,
       netVars
<1>12. CASE UNCHANGED vars
  BY <1>12 DEF vars, queueVars, mainVars, testVars, engineVars, netVars,
     historyVars, TypeOK, Queue!TypeOK
<1>. QED
  BY <1>1, <1>2, <1>3, <1>4, <1>5, <1>6, <1>7, <1>8, <1>9, <1>10, <1>11,
     <1>12, <1>13 DEF Next, MainStep, HandlesEvent

(* tc_count never leaves 0..NUM_TEST_RESULTS and every index into          *)
(* tc_results is inside it, although lwm2m_start may reset the counter     *)
(* between any two accesses of handle_test_result.                         *)
THEOREM TypeCorrect == Spec => []TypeOK
  BY TypeInit, TypeStep, PTL DEF Spec

-----------------------------------------------------------------------------
(* One report for each test.  Each test that was begun is good for one     *)
(* report, which is still to be earned while results are missing, is then  *)
(* due at the end of handle_test_result, waits as the PENDING bit of       *)
(* tc_work, is called, and is printed.                                     *)
One(b) == IF b THEN 1 ELSE 0

Missing == One(tc_count < N)
Due     == One(engine = "compare" /\ seen + 1 = N)
Waits   == One(pending["tc_work"])
Called  == One(work = "tc_work" /\ pc = "call")
Prints  == One(step = "print")

Begun == IF step \in {"reinit", "reset"} THEN tests - 1 ELSE tests

Fresh == tests = 0 \/ (tests = 1 /\ step \in {"reinit", "reset"})

Quiet ==
  /\ engine = "idle" /\ client = "down" /\ reports = 0
  /\ ~pending["tc_work"] /\ ~(work = "tc_work" /\ pc = "call")
  /\ tests = 0 => step \in {"none", "setup"}

OnceInv ==
  /\ TypeOK
  /\ engine = "compare" => tc_count \in {seen + 1, 0}
  /\ Fresh => Quiet
  /\ ~Fresh => reports + Missing + Due + Waits + Called + Prints <= Begun

LEMMA OnceInit == Init => OnceInv
<1>. SUFFICES ASSUME Init PROVE OnceInv
  OBVIOUS
<1>1. "tc_work" \notin owed
  BY DEF Init
<1>2. ~pending["tc_work"]
  BY <1>1 DEF Init
<1>. QED
  BY <1>2, TypeInit DEF Init, OnceInv, Fresh, Quiet

(* The steps that concern neither the test nor the item tc_work.           *)
LEMMA OtherStep ==
  ASSUME \/ InterfaceUp
         \/ \E t \in {"net", "engine"} : Links(t) \/ LosesLink(t),
         TypeOK
  PROVE  /\ UNCHANGED <<mainVars, testVars, engineVars, historyVars, pc, work>>
         /\ pending'["tc_work"] = pending["tc_work"]
<1>1. CASE InterfaceUp
  BY <1>1 DEF InterfaceUp, Queue!Submit, TypeOK, Queue!TypeOK
<1>2. CASE \E t \in {"net", "engine"} : Links(t) \/ LosesLink(t)
  BY <1>2 DEF Links, LosesLink, Queue!AppendWork
<1>. QED
  BY <1>1, <1>2

(* An item that is taken from the list is called if its bit is set.        *)
LEMMA TakingStep ==
  ASSUME TakesItem, TypeOK
  PROVE  /\ UNCHANGED <<mainVars, testVars, engineVars, historyVars>>
         /\ step = "none" /\ ~(work = "tc_work" /\ pc = "call")
         /\ \/ /\ ~(work' = "tc_work" /\ pc' = "call")
               /\ pending'["tc_work"] => pending["tc_work"]
            \/ /\ pending["tc_work"] /\ ~pending'["tc_work"]
<1>1. CASE Queue!GetWork
  BY <1>1 DEF TakesItem, TypeOK, Queue!TypeOK, Queue!GetWork
<1>2. CASE Queue!TestAndClear
  BY <1>2 DEF TakesItem, TypeOK, Queue!TypeOK, Queue!TestAndClear
<1>. QED
  BY <1>1, <1>2 DEF TakesItem

(* A result that is stored was missing; afterwards the next one is missing *)
(* or the report is due.                                                   *)
LEMMA StoringStep ==
  ASSUME StoreResult, OnceInv, TypeOK'
  PROVE  OnceInv'
<1>1. /\ engine = "store" /\ engine' = "compare" /\ tc_count' = seen' + 1
      /\ pending' = pending /\ pc' = pc /\ work' = work /\ step' = step
      /\ tests' = tests /\ reports' = reports /\ tc_count < N
  BY DEF StoreResult, queueVars, mainVars, historyVars, OnceInv, TypeOK
<1>2. ~(N < N) /\ \A s \in 0 .. N-1 : s + 1 < N \/ s + 1 = N
  BY TestReportAssumption DEF TestReportAssumption
<1>. seen' \in 0 .. N-1 /\ N \in Nat
  BY TestReportAssumption DEF TestReportAssumption, TypeOK
<1>3. Missing = 1 /\ Due = 0
  BY <1>1 DEF Missing, Due, One
<1>4. Missing' + Due' = 1
  <2>1. CASE seen' + 1 = N
    <3>1. Missing' = 0
      <4>1. ~(tc_count' < N)
        BY <1>1, <1>2, <2>1, Zenon
      <4>. QED
        BY <4>1, Zenon DEF Missing, One
    <3>2. Due' = 1
      BY <1>1, <2>1 DEF Due, One
    <3>. QED
      BY <3>1, <3>2
  <2>2. CASE seen' + 1 # N
    <3>1. Missing' = 1
      <4>1. tc_count' < N
        BY <1>1, <1>2, <2>2
      <4>. QED
        BY <4>1, Zenon DEF Missing, One
    <3>2. Due' = 0
      BY <1>1, <2>2 DEF Due, One
    <3>. QED
      BY <3>1, <3>2
  <2>. QED
    BY <2>1, <2>2
<1>5. Waits' = Waits /\ Called' = Called /\ Prints' = Prints
  BY <1>1 DEF Waits, Called, Prints
<1>6. Begun' = Begun
  BY <1>1 DEF Begun
<1>7. ~Fresh
  BY <1>1 DEF OnceInv, Quiet
<1>8. ~Fresh'
  BY <1>1, <1>7 DEF Fresh
<1>9. /\ reports \in Nat /\ Waits \in Nat /\ Called \in Nat
      /\ Prints \in Nat /\ Begun \in Int
  BY DEF OnceInv, TypeOK, Waits, Called, Prints, Begun, One
<1>10. reports' + Missing' + Due' + Waits' + Called' + Prints' <= Begun'
  <2>1. reports + Missing + Due + Waits + Called + Prints <= Begun
    BY <1>7 DEF OnceInv
  <2>2. Missing' \in Nat /\ Due' \in Nat
    BY DEF Missing, Due, One
  <2>3. PICK m \in Nat, d \in Nat : m = Missing' /\ d = Due'
    BY <2>2, Zenon
  <2>4. m + d = 1
    BY <1>4, <2>3, Zenon
  <2>5. reports + m + d + Waits + Called + Prints <= Begun
    BY <1>3, <1>9, <2>1, <2>4
  <2>. QED
    BY <1>1, <1>5, <1>6, <2>3, <2>5, Zenon
<1>. QED
  BY <1>1, <1>8, <1>10 DEF OnceInv

LEMMA OnceStep == OnceInv /\ [Next]_vars => OnceInv'
<1>. SUFFICES ASSUME OnceInv, [Next]_vars PROVE OnceInv'
  OBVIOUS
<1>t. TypeOK /\ TypeOK'
  BY TypeStep DEF OnceInv
<1>n. /\ N \in Nat \ {0} /\ seen \in Nat /\ tc_count \in Nat
      /\ reports \in Nat /\ tests \in Nat
      /\ step # "none" => pc = "handler"
      /\ engine = "store" => tc_count < N
  BY <1>t, TestReportAssumption DEF TestReportAssumption, TypeOK
<1>. USE <1>n DEF OnceInv, Fresh, Quiet, One, Missing, Due, Waits, Called,
                  Prints, Begun
<1>1. CASE \/ InterfaceUp
            \/ \E t \in {"net", "engine"} : Links(t) \/ LosesLink(t)
  BY <1>t, <1>1, OtherStep DEF mainVars, testVars, engineVars, historyVars
<1>2. CASE TakesItem
  BY <1>t, <1>2, TakingStep DEF mainVars, testVars, engineVars, historyVars
<1>3. CASE BeginHandler
  <2>1. /\ UNCHANGED <<testVars, engineVars, historyVars, pending, work>>
        /\ pc = "call" /\ pc' = "handler" /\ step = "none"
        /\ step' = IF work = "tc_work" THEN "print" ELSE "setup"
    BY <1>3 DEF BeginHandler, Queue!CallHandler
  <2>. QED
    BY <1>t, <2>1 DEF testVars, engineVars, historyVars
<1>4. CASE SetupFails \/ StartClient \/ StopLogging
  BY <1>t, <1>4 DEF SetupFails, StartClient, StopLogging,
     Queue!HandlerReturns, testVars, engineVars, historyVars
<1>5. CASE SetupSucceeds
  BY <1>t, <1>5 DEF SetupSucceeds, queueVars, testVars, engineVars
<1>6. CASE ReinitWork
  <2>1. ~pending'["tc_work"]
    BY <1>t, <1>6 DEF ReinitWork, TypeOK, Queue!TypeOK
  <2>. QED
    BY <1>t, <1>6, <2>1 DEF ReinitWork, testVars, engineVars, historyVars
<1>7. CASE ResetCount
  BY <1>t, <1>7 DEF ResetCount, queueVars, engineVars, historyVars
<1>8. CASE StartLogging \/ PrintResult
  BY <1>t, <1>8 DEF StartLogging, PrintResult, queueVars, testVars,
     engineVars, historyVars
<1>9. CASE EndReport
  BY <1>t, <1>9 DEF EndReport, queueVars, testVars, engineVars
<1>10. CASE RegistrationComplete \/ RegistrationFailure \/ EndFailedTest
  <2>1. CASE RegistrationComplete
    BY <1>t, <2>1 DEF RegistrationComplete, queueVars, mainVars, testVars,
       historyVars
  <2>2. CASE RegistrationFailure
    BY <1>t, <2>2 DEF RegistrationFailure, EngineIdle, queueVars, mainVars,
       testVars, historyVars
  <2>3. CASE EndFailedTest
    BY <1>t, <2>3 DEF EndFailedTest, queueVars, mainVars
  <2>. QED
    BY <1>10, <2>1, <2>2, <2>3
<1>11. ASSUME NEW r \in Outcome, UpdateEvent(r) PROVE OnceInv'
  BY <1>t, <1>11 DEF UpdateEvent, EngineIdle, queueVars, mainVars, testVars
<1>12. CASE StoreResult
  BY <1>t, <1>12, StoringStep
<1>13. CASE SubmitReport
  <2>1. \/ seen + 1 = N
        \/ UNCHANGED queueVars
    BY <1>13 DEF SubmitReport
  <2>2. UNCHANGED <<pc, work>>
    BY <1>13 DEF SubmitReport, queueVars, Queue!Submit
  <2>. QED
    BY <1>t, <1>13, <2>1, <2>2 DEF SubmitReport, queueVars, mainVars,
       testVars, historyVars
<1>14. CASE UNCHANGED vars
  BY <1>t, <1>14 DEF vars, queueVars, mainVars, testVars, engineVars,
     historyVars
<1>. QED
  BY <1>1, <1>2, <1>3, <1>4, <1>5, <1>6, <1>7, <1>8, <1>9, <1>10, <1>11,
     <1>12, <1>13, <1>14 DEF Next, MainStep, HandlesEvent

LEMMA OnceInvHolds == Spec => []OnceInv
  BY OnceInit, OnceStep, PTL DEF Spec

(* lwm2m_reg_update_result never reports more often than the test was      *)
(* begun, for any number of results and any value of tc_count the engine   *)
(* thread goes on with (handle_test_result, lwm2m_start).                  *)
THEOREM ReportsAreSingle == Spec => []OneReportPerTest
<1>1. OnceInv => OneReportPerTest
  BY TestReportAssumption
     DEF TestReportAssumption, OnceInv, Fresh, Quiet, OneReportPerTest, TypeOK,
         One, Missing, Due, Waits, Called, Prints, Begun
<1>. QED
  BY <1>1, OnceInvHolds, PTL

-----------------------------------------------------------------------------
(* A clean test: how its results, the outcomes there were and the report   *)
(* hang together from the moment lwm2m_start has set tc_logging.           *)
Complete ==
  \/ pending["tc_work"] \/ (work = "tc_work" /\ pc = "call")
  \/ step \in {"print", "end"} \/ said

Underway ==
  /\ step \in {"none", "setup", "connect", "print", "end"}
  /\ engine = "store" => /\ seen = tc_count /\ Len(taken) = tc_count + 1
                         /\ taken[tc_count + 1] = result
  /\ engine # "store" => Len(taken) = tc_count
  /\ engine = "compare" => tc_count = seen + 1
  /\ \A k \in 0 .. N-1 : k < tc_count => tc_results[k] = taken[k+1]
  /\ Complete => tc_count = N
  /\ failed => tc_count < N /\ ~tc_logging /\ engine = "idle"
  /\ step \in {"print", "end"} =>
       (final_result = "FAIL" <=>
          \E k \in 0 .. N-1 : k < i /\ tc_results[k] = "FAIL")
  /\ step = "end" => i = N

CleanInv ==
  /\ TypeOK
  /\ step \in {"reinit", "reset", "log"} => ~said
  /\ clean => Underway

LEMMA CleanInit == Init => CleanInv
  BY TypeInit DEF Init, CleanInv

(* The steps that leave the test, the engine and the history alone.        *)
LEMMA CleanQueueStep ==
  ASSUME CleanInv, TypeOK',
         \/ InterfaceUp
         \/ \E t \in {"net", "engine"} : Links(t) \/ LosesLink(t)
         \/ TakesItem
  PROVE  CleanInv'
<1>1. /\ UNCHANGED <<mainVars, testVars, engineVars, historyVars>>
      /\ pending'["tc_work"] \/ (work' = "tc_work" /\ pc' = "call")
           => pending["tc_work"] \/ (work = "tc_work" /\ pc = "call")
  BY OtherStep, TakingStep DEF CleanInv
<1>2. Complete' => Complete
  BY <1>1 DEF Complete, mainVars, historyVars
<1>3. Underway => Underway'
  BY <1>1, <1>2 DEF Underway, mainVars, testVars, engineVars, historyVars
<1>. QED
  BY <1>1, <1>3 DEF CleanInv, mainVars, historyVars

(* lwm2m_start.                                                            *)
LEMMA CleanStartStep ==
  ASSUME CleanInv, TypeOK',
         \/ SetupFails \/ SetupSucceeds \/ ReinitWork \/ ResetCount
         \/ StartLogging \/ StartClient
  PROVE  CleanInv'
<1>. pc = "handler"
  BY DEF CleanInv, TypeOK, SetupFails, SetupSucceeds, ReinitWork, ResetCount,
     StartLogging, StartClient
<1>1. CASE SetupFails \/ StartClient
  <2>1. /\ UNCHANGED <<i, final_result, testVars, engine, result, seen,
                       historyVars, pending, work>>
        /\ pc' = "get" /\ step' = "none"
    BY <1>1 DEF SetupFails, StartClient, Queue!HandlerReturns, engineVars
  <2>2. Complete' => Complete
    BY <2>1 DEF Complete, historyVars
  <2>3. Underway => Underway'
    BY <2>1, <2>2 DEF Underway, testVars, historyVars
  <2>. QED
    BY <2>1, <2>3 DEF CleanInv, historyVars
<1>2. CASE SetupSucceeds
  BY <1>2 DEF CleanInv, SetupSucceeds
<1>3. CASE ReinitWork \/ ResetCount
  BY <1>3 DEF CleanInv, ReinitWork, ResetCount, Underway, historyVars
<1>4. CASE StartLogging
  <2>1. /\ UNCHANGED <<queueVars, i, final_result, tc_count, tc_results,
                       engineVars, tests, taken, failed, reports, said>>
        /\ step = "log" /\ step' = "connect" /\ ~said
        /\ clean' <=> /\ engine = "idle" /\ ~pending["tc_work"]
                      /\ tc_count = 0 /\ taken = << >> /\ ~failed
    BY <1>4 DEF CleanInv, StartLogging
  <2>2. ASSUME clean' PROVE Underway'
    <3>1. /\ engine' = "idle" /\ tc_count' = 0 /\ taken' = << >> /\ ~failed'
          /\ ~said' /\ ~pending'["tc_work"] /\ pc' # "call"
      BY <2>1, <2>2 DEF engineVars, queueVars
    <3>2. ~Complete' /\ Len(taken') = 0
      BY <2>1, <3>1 DEF Complete
    <3>3. \A k \in 0 .. N-1 : ~(k < 0)
      BY TestReportAssumption DEF TestReportAssumption
    <3>. QED
      BY <2>1, <3>1, <3>2, <3>3 DEF Underway
  <2>. QED
    BY <2>1, <2>2 DEF CleanInv
<1>. QED
  BY <1>1, <1>2, <1>3, <1>4

(* lwm2m_reg_update_result.                                                *)
LEMMA CleanReportStep ==
  ASSUME CleanInv, TypeOK',
         BeginHandler \/ PrintResult \/ EndReport \/ StopLogging
  PROVE  CleanInv'
<1>. /\ N \in Nat \ {0} /\ i \in 0..N /\ tc_count \in 0..N
     /\ tc_results \in [0 .. N-1 -> Outcome] /\ final_result \in Outcome
  BY TestReportAssumption DEF TestReportAssumption, CleanInv, TypeOK
<1>1. CASE BeginHandler
  <2>1. /\ UNCHANGED <<testVars, engineVars, historyVars, pending, work>>
        /\ pc = "call" /\ pc' = "handler" /\ step = "none"
        /\ step' = IF work = "tc_work" THEN "print" ELSE "setup"
        /\ i' = 0 /\ final_result' = "PASS"
    BY <1>1 DEF BeginHandler, Queue!CallHandler, CleanInv, TypeOK
  <2>2. Complete' => Complete
    BY <2>1 DEF Complete, historyVars
  <2>3. Underway => Underway'
    BY <2>1, <2>2 DEF Underway, testVars, engineVars, historyVars
  <2>. QED
    BY <2>1, <2>3 DEF CleanInv, historyVars
<1>2. CASE PrintResult
  <2>1. /\ UNCHANGED <<queueVars, step, testVars, engineVars, historyVars>>
        /\ step = "print" /\ i < tc_count /\ i' = i + 1
        /\ final_result' = IF tc_results[i] = "FAIL" THEN "FAIL"
                                                     ELSE final_result
    BY <1>2 DEF PrintResult
  <2>2. Complete' => Complete
    BY <2>1 DEF Complete, queueVars, historyVars
  <2>3. \A k \in 0 .. N-1 : k < i + 1 <=> (k < i \/ k = i)
    OBVIOUS
  <2>4. i \in 0 .. N-1
    BY <2>1
  <2>5. ASSUME Underway PROVE Underway'
    <3>1. final_result = "FAIL" <=>
            \E k \in 0 .. N-1 : k < i /\ tc_results[k] = "FAIL"
      BY <2>1, <2>5 DEF Underway
    <3>2. final_result' = "FAIL" <=>
            \E k \in 0 .. N-1 : k < i + 1 /\ tc_results[k] = "FAIL"
      BY <2>1, <2>3, <2>4, <3>1, Zenon
    <3>. QED
      BY <2>1, <2>2, <2>5, <3>2 DEF Underway, testVars, engineVars,
         historyVars
  <2>. QED
    BY <2>1, <2>5 DEF CleanInv, historyVars
<1>3. CASE EndReport
  <2>1. /\ UNCHANGED <<queueVars, i, final_result, testVars, engineVars,
                       tests, taken, failed, clean>>
        /\ step = "print" /\ step' = "end" /\ i >= tc_count
    BY <1>3 DEF EndReport
  <2>2. ASSUME Underway PROVE Underway'
    <3>1. tc_count = N /\ i = N
      BY <2>1, <2>2 DEF Underway, Complete
    <3>. QED
      BY <2>1, <2>2, <3>1 DEF Underway, testVars, engineVars
  <2>. QED
    BY <2>1, <2>2 DEF CleanInv
<1>4. CASE StopLogging
  <2>1. /\ UNCHANGED <<i, final_result, tc_count, tc_results, engineVars,
                       historyVars, pending, work>>
        /\ pc' = "get" /\ step = "end" /\ step' = "none" /\ ~tc_logging'
    BY <1>4 DEF StopLogging, Queue!HandlerReturns
  <2>2. Complete
    BY <2>1 DEF Complete
  <2>3. Underway => Underway'
    BY <2>1, <2>2 DEF Underway, engineVars, historyVars
  <2>. QED
    BY <2>1, <2>3 DEF CleanInv, historyVars
<1>. QED
  BY <1>1, <1>2, <1>3, <1>4

(* rd_client_event.                                                        *)
LEMMA CleanEventStep ==
  ASSUME CleanInv, TypeOK',
         \/ RegistrationComplete \/ RegistrationFailure
         \/ \E r \in Outcome : UpdateEvent(r)
         \/ HandlesEvent
  PROVE  CleanInv'
<1>. /\ N \in Nat \ {0} /\ tc_count \in 0..N /\ taken \in Seq(Outcome)
     /\ tc_results \in [0 .. N-1 -> Outcome] /\ seen \in 0 .. N-1
     /\ result \in Outcome
  BY TestReportAssumption DEF TestReportAssumption, CleanInv, TypeOK
<1>1. CASE RegistrationComplete \/ RegistrationFailure
  <2>1. /\ UNCHANGED <<queueVars, mainVars, testVars, result, seen,
                       historyVars>>
        /\ engine = "idle" /\ engine' \in {"idle", "end_report"}
        /\ engine' = "end_report" => tc_logging
    BY <1>1 DEF RegistrationComplete, RegistrationFailure, EngineIdle
  <2>2. Complete' => Complete
    BY <2>1 DEF Complete, queueVars, mainVars, historyVars
  <2>3. Underway => Underway'
    BY <2>1, <2>2 DEF Underway, mainVars, testVars, historyVars
  <2>. QED
    BY <2>1, <2>3 DEF CleanInv, mainVars, historyVars
<1>2. ASSUME NEW r \in Outcome, UpdateEvent(r) PROVE CleanInv'
  <2>1. /\ UNCHANGED <<queueVars, mainVars, testVars, failed, said,
                       clean>>
        /\ engine = "idle"
        /\ taken' = IF tc_logging /\ Len(taken) < N THEN Append(taken, r)
                                                    ELSE taken
        /\ \/ /\ Handles /\ engine' = "store"
              /\ result' = r /\ seen' = tc_count
           \/ ~Handles /\ UNCHANGED <<engine, result, seen>>
    BY <1>2 DEF UpdateEvent, EngineIdle
  <2>2. Complete' => Complete
    BY <2>1 DEF Complete, queueVars, mainVars
  <2>3. ASSUME Underway, Handles PROVE Underway'
    <3>1. /\ Len(taken) = tc_count /\ tc_count < N /\ tc_logging /\ ~failed
          /\ taken' = Append(taken, r)
          /\ engine' = "store" /\ result' = r /\ seen' = tc_count
      BY <2>1, <2>3 DEF Underway, Handles
    <3>2. /\ Len(taken') = tc_count + 1 /\ taken'[tc_count + 1] = r
          /\ \A k \in 0 .. N-1 : k < tc_count => taken'[k+1] = taken[k+1]
      BY <3>1
    <3>. QED
      BY <2>1, <2>2, <2>3, <3>1, <3>2
         DEF Underway, queueVars, mainVars, testVars
  <2>4. ASSUME Underway, ~Handles PROVE Underway'
    BY <2>1, <2>2, <2>4 DEF Underway, Handles, queueVars, mainVars, testVars
  <2>. QED
    BY <2>1, <2>3, <2>4 DEF CleanInv, mainVars
<1>3. CASE EndFailedTest
  <2>1. /\ UNCHANGED <<queueVars, mainVars, tc_count, tc_results, result,
                       seen, taken, said, clean>>
        /\ engine = "end_report" /\ engine' = "idle" /\ ~tc_logging'
        /\ failed' => failed \/ Len(taken) < N
    BY <1>3 DEF EndFailedTest
  <2>2. Complete' => Complete
    BY <2>1 DEF Complete, queueVars, mainVars
  <2>3. ASSUME Underway PROVE Underway'
    BY <2>1, <2>2, <2>3 DEF Underway, queueVars, mainVars
  <2>. QED
    BY <2>1, <2>3 DEF CleanInv, mainVars
<1>4. CASE StoreResult
  <2>1. /\ UNCHANGED <<queueVars, mainVars, tc_logging, result, historyVars>>
        /\ engine = "store" /\ engine' = "compare"
        /\ seen' \in {seen, tc_count}
        /\ tc_results' = [tc_results EXCEPT ![seen'] = result]
        /\ tc_count' = seen' + 1
    BY <1>4 DEF StoreResult
  <2>2. Complete' => Complete
    BY <2>1 DEF Complete, queueVars, mainVars, historyVars
  <2>3. ASSUME Underway PROVE Underway'
    <3>1. /\ seen' = tc_count /\ tc_count' = tc_count + 1
          /\ tc_results' = [tc_results EXCEPT ![tc_count] = result]
          /\ Len(taken) = tc_count + 1 /\ taken[tc_count + 1] = result
          /\ tc_count < N
      BY <2>1, <2>3 DEF Underway, CleanInv, TypeOK
    <3>2. ~Complete /\ ~failed /\ step \notin {"print", "end"}
      BY <2>1, <2>3, <3>1 DEF Underway, Complete
    <3>3. \A k \in 0 .. N-1 : k < tc_count + 1 => tc_results'[k] = taken[k+1]
      BY <2>3, <3>1 DEF Underway
    <3>. QED
      BY <2>1, <2>2, <2>3, <3>1, <3>2, <3>3
         DEF Underway, mainVars, historyVars
  <2>. QED
    BY <2>1, <2>3 DEF CleanInv, mainVars, historyVars
<1>5. CASE SubmitReport
  <2>1. /\ UNCHANGED <<mainVars, testVars, result, seen, historyVars, pc,
                       work>>
        /\ engine = "compare" /\ engine' = "idle"
        /\ \/ seen + 1 = N \/ tc_count = N
           \/ UNCHANGED queueVars
    BY <1>5 DEF SubmitReport, queueVars, Queue!Submit
  <2>3. ASSUME Underway PROVE Underway'
    <3>1. tc_count = seen + 1 /\ Len(taken) = tc_count /\ ~failed
      BY <2>1, <2>3 DEF Underway
    <3>2. Complete' => tc_count = N
      BY <2>1, <2>3, <3>1 DEF Underway, Complete, queueVars, mainVars,
         historyVars
    <3>. QED
      BY <2>1, <2>3, <3>1, <3>2
         DEF Underway, mainVars, testVars, historyVars
  <2>. QED
    BY <2>1, <2>3 DEF CleanInv, mainVars, historyVars
<1>. QED
  BY <1>1, <1>2, <1>3, <1>4, <1>5 DEF HandlesEvent

LEMMA CleanInvHolds == Spec => []CleanInv
<1>1. CleanInv /\ [Next]_vars => CleanInv'
  <2>. SUFFICES ASSUME CleanInv, [Next]_vars PROVE CleanInv'
    OBVIOUS
  <2>1. TypeOK'
    BY TypeStep DEF CleanInv
  <2>2. CASE UNCHANGED vars
    <3>1. UNCHANGED <<queueVars, mainVars, testVars, engineVars, historyVars>>
      BY <2>2 DEF vars
    <3>2. Complete' = Complete
      BY <3>1 DEF Complete, queueVars, mainVars, historyVars
    <3>3. Underway => Underway'
      BY <3>1, <3>2 DEF Underway, mainVars, testVars, engineVars, historyVars
    <3>. QED
      BY <2>1, <3>1, <3>3 DEF CleanInv, mainVars, historyVars
  <2>. QED
    BY <2>1, <2>2, CleanQueueStep, CleanStartStep, CleanReportStep,
       CleanEventStep DEF Next, MainStep
<1>. QED
  BY <1>1, CleanInit, PTL DEF Spec

(* The report of every clean test is of all the outcomes the client had,   *)
(* in their order, and says FAIL exactly if one of them is, whichever test *)
(* it is and however the one before ended (handle_test_result,             *)
(* lwm2m_reg_update_result).                                               *)
THEOREM ReportsAreTrue == Spec => []ReportIsTrue
<1>1. CleanInv => ReportIsTrue
  <2>. SUFFICES ASSUME CleanInv, step = "end", clean
                PROVE  /\ i = N /\ Len(taken) = N
                       /\ \A k \in 1..N : tc_results[k-1] = taken[k]
                       /\ final_result = "FAIL" <=>
                            \E k \in 1..N : taken[k] = "FAIL"
    BY DEF ReportIsTrue
  <2>. N \in Nat \ {0}
    BY TestReportAssumption DEF TestReportAssumption
  <2>1. Underway /\ tc_count = N /\ engine # "store"
    <3>1. Underway /\ tc_count = N
      BY DEF CleanInv, Underway, Complete
    <3>2. ~(N < N)
      OBVIOUS
    <3>. QED
      BY <3>1, <3>2 DEF CleanInv, TypeOK
  <2>2. \A k \in 0 .. N-1 : tc_results[k] = taken[k+1]
    BY <2>1 DEF Underway
  <2>3. final_result = "FAIL" <=>
          \E k \in 0 .. N-1 : tc_results[k] = "FAIL"
    BY <2>1 DEF Underway
  <2>4. \A k \in 1..N : k-1 \in 0 .. N-1 /\ (k-1) + 1 = k
    OBVIOUS
  <2>5. \A k \in 0 .. N-1 : k+1 \in 1..N
    OBVIOUS
  <2>6. \A k \in 1..N : tc_results[k-1] = taken[k]
    BY <2>2, <2>4
  <2>7. (\E k \in 0 .. N-1 : tc_results[k] = "FAIL")
          <=> \E k \in 1..N : taken[k] = "FAIL"
    BY <2>2, <2>4, <2>5, <2>6
  <2>. QED
    BY <2>1, <2>3, <2>6, <2>7 DEF Underway
<1>. QED
  BY <1>1, CleanInvHolds, PTL

(* A clean test that a failed registration has ended is never reported     *)
(* (rd_client_event, handle_test_result).                                  *)
THEOREM FailedTestsStaySilent == Spec => []NoReportAfterFailure
<1>1. CleanInv => NoReportAfterFailure
  BY DEF CleanInv, NoReportAfterFailure, Underway, Complete, TypeOK
<1>. QED
  BY <1>1, CleanInvHolds, PTL

-----------------------------------------------------------------------------
(* While the list is whole, a set PENDING bit of tc_work means that the    *)
(* item is on its way to the runner; and once the last outcome of a test   *)
(* is stored, the bit is set until the handler is called, whose end stops  *)
(* the test.                                                               *)
OnItsWay ==
  \/ Queue!Queued("tc_work") \/ Queue!Adding("tc_work")
  \/ pc = "clear" /\ work = "tc_work"

InHand ==
  \/ engine = "compare"
  \/ pending["tc_work"] \/ (work = "tc_work" /\ pc = "call")
  \/ step \in {"print", "end", "reset"}

ComingInv ==
  /\ ~broken /\ pending["tc_work"] => OnItsWay
  /\ (tc_logging \/ step = "log") /\ tc_count = N => InHand

LEMMA ComingInit == Init => ComingInv
<1>. SUFFICES ASSUME Init PROVE ComingInv
  OBVIOUS
<1>1. "tc_work" \notin owed
  BY DEF Init
<1>2. ~pending["tc_work"] /\ ~tc_logging /\ step = "none"
  BY <1>1 DEF Init
<1>. QED
  BY <1>2 DEF ComingInv

(* Nothing that happens to a whole list takes tc_work from its way.        *)
LEMMA WaySubmit ==
  ASSUME TypeOK, pending["tc_work"] => OnItsWay,
         NEW t \in {"main", "net", "engine"},
         NEW w \in {"net_event_work", "tc_work"}, Queue!Submit(t, w)
  PROVE  pending'["tc_work"] => OnItsWay'
<1>1. /\ adding[t] = "none"
      /\ pending' = [pending EXCEPT ![w] = TRUE]
      /\ adding' = IF pending[w] THEN adding ELSE [adding EXCEPT ![t] = w]
      /\ UNCHANGED <<queue, pc, work>>
  BY DEF Queue!Submit
<1>2. /\ adding \in [{"main", "net", "engine"} ->
                       {"net_event_work", "tc_work"} \cup {"none"}]
      /\ pending \in [{"net_event_work", "tc_work"} -> BOOLEAN]
  BY DEF TypeOK, Queue!TypeOK
<1>3. Queue!Adding("tc_work") => Queue!Adding("tc_work")'
  BY <1>1, <1>2 DEF Queue!Adding
<1>4. OnItsWay => OnItsWay'
  BY <1>1, <1>3 DEF OnItsWay, Queue!Queued
<1>5. CASE pending["tc_work"]
  BY <1>4, <1>5
<1>6. CASE ~pending["tc_work"] /\ w = "tc_work"
  <2>1. adding'[t] = "tc_work"
    BY <1>1, <1>2, <1>6
  <2>. QED
    BY <2>1 DEF OnItsWay, Queue!Adding
<1>7. CASE ~pending["tc_work"] /\ w # "tc_work"
  BY <1>1, <1>2, <1>7
<1>. QED
  BY <1>5, <1>6, <1>7

LEMMA WayAppend ==
  ASSUME TypeOK, pending["tc_work"] => OnItsWay,
         NEW t \in {"main", "net", "engine"}, Queue!AppendWork(t)
  PROVE  pending'["tc_work"] => OnItsWay'
<1>1. /\ adding[t] # "none" /\ queue' = Append(queue, adding[t])
      /\ adding' = [adding EXCEPT ![t] = "none"]
      /\ UNCHANGED <<pending, pc, work>>
  BY DEF Queue!AppendWork
<1>. DEFINE Items == {"net_event_work", "tc_work"}
<1>2. /\ adding \in [{"main", "net", "engine"} -> Items \cup {"none"}]
      /\ queue \in Seq(Items)
  BY DEF TypeOK, Queue!TypeOK
<1>3. adding[t] \in Items
  BY <1>1, <1>2
<1>4. /\ Len(queue') = Len(queue) + 1 /\ Len(queue) \in Nat
      /\ \A k \in 1..Len(queue) : queue'[k] = queue[k]
      /\ queue'[Len(queue) + 1] = adding[t]
  <2>. HIDE DEF Items
  <2>. QED
    BY <1>1, <1>2, <1>3
<1>5. Queue!Queued("tc_work") => Queue!Queued("tc_work")'
  BY <1>4 DEF Queue!Queued
<1>6. ASSUME NEW u \in {"main", "net", "engine"}, adding[u] = "tc_work"
      PROVE  OnItsWay'
  <2>1. CASE u = t
    <3>1. Queue!Queued("tc_work")'
      BY <1>4, <1>6, <2>1 DEF Queue!Queued
    <3>. QED
      BY <3>1 DEF OnItsWay
  <2>2. CASE u # t
    <3>1. adding'[u] = "tc_work"
      BY <1>1, <1>2, <1>6, <2>2
    <3>. QED
      BY <3>1 DEF OnItsWay, Queue!Adding
  <2>. QED
    BY <2>1, <2>2
<1>. QED
  BY <1>1, <1>5, <1>6 DEF OnItsWay, Queue!Adding

LEMMA WayTake ==
  ASSUME TypeOK, pending["tc_work"] => OnItsWay, TakesItem
  PROVE  pending'["tc_work"] => OnItsWay'
<1>1. CASE Queue!GetWork
  <2>1. /\ pc = "get" /\ pc' = "clear" /\ queue # << >>
        /\ work' = Head(queue) /\ queue' = Tail(queue)
        /\ UNCHANGED <<pending, adding>>
    BY <1>1 DEF Queue!GetWork
  <2>. DEFINE Items == {"net_event_work", "tc_work"}
  <2>2. queue \in Seq(Items)
    BY DEF TypeOK, Queue!TypeOK
  <2>. HIDE DEF Items
  <2>3. /\ Len(queue) \in Nat \ {0} /\ work' = queue[1]
        /\ Len(queue') = Len(queue) - 1
        /\ \A k \in 1 .. Len(queue) - 1 : queue'[k] = queue[k + 1]
    BY <2>1, <2>2
  <2>4. ASSUME Queue!Queued("tc_work") PROVE OnItsWay'
    <3>1. PICK k \in 1..Len(queue) : queue[k] = "tc_work"
      BY <2>4 DEF Queue!Queued
    <3>2. CASE k = 1
      BY <2>1, <2>3, <3>1, <3>2 DEF OnItsWay
    <3>3. CASE k # 1
      <4>1. k - 1 \in 1..Len(queue') /\ queue'[k - 1] = "tc_work"
        BY <2>3, <3>1, <3>3
      <4>. QED
        BY <4>1 DEF OnItsWay, Queue!Queued
    <3>. QED
      BY <3>2, <3>3
  <2>. QED
    BY <2>1, <2>4 DEF OnItsWay, Queue!Adding
<1>2. CASE Queue!TestAndClear
  <2>1. /\ pc = "clear" /\ work \in {"net_event_work", "tc_work"}
        /\ pending' = [pending EXCEPT ![work] = FALSE]
        /\ pending \in [{"net_event_work", "tc_work"} -> BOOLEAN]
        /\ UNCHANGED <<queue, adding, work>>
    BY <1>2 DEF TypeOK, Queue!TypeOK, Queue!TestAndClear
  <2>2. CASE work = "tc_work"
    BY <2>1, <2>2
  <2>3. CASE work # "tc_work"
    BY <2>1, <2>3 DEF OnItsWay, Queue!Queued, Queue!Adding
  <2>. QED
    BY <2>2, <2>3
<1>. QED
  BY <1>1, <1>2 DEF TakesItem

(* The other steps leave the list and the bit alone, or reset the bit.     *)
LEMMA WayStep ==
  ASSUME TypeOK, ~broken /\ pending["tc_work"] => OnItsWay, [Next]_vars
  PROVE  ~broken' /\ pending'["tc_work"] => OnItsWay'
<1>b. broken => broken'
  BY DEF Next, MainStep, HandlesEvent, InterfaceUp, Links, LosesLink,
     TakesItem, BeginHandler, SetupFails, SetupSucceeds, ReinitWork,
     ResetCount, StartLogging, StartClient, PrintResult, EndReport,
     StopLogging, RegistrationComplete, RegistrationFailure, UpdateEvent,
     EndFailedTest, StoreResult, SubmitReport, vars
<1>. SUFFICES ASSUME ~broken', pending["tc_work"] => OnItsWay
              PROVE  pending'["tc_work"] => OnItsWay'
  BY <1>b
<1>1. CASE InterfaceUp
  BY <1>1, WaySubmit DEF InterfaceUp
<1>2. CASE \E t \in {"net", "engine"} : Links(t)
  BY <1>2, WayAppend DEF Links
<1>3. CASE TakesItem
  BY <1>3, WayTake
<1>10. CASE \E t \in {"net", "engine"} : LosesLink(t)
  BY <1>10 DEF LosesLink
<1>4. CASE ReinitWork
  BY <1>4 DEF ReinitWork, TypeOK, Queue!TypeOK
<1>5. CASE BeginHandler
  BY <1>5 DEF BeginHandler, Queue!CallHandler, OnItsWay, Queue!Queued,
     Queue!Adding
<1>6. CASE SetupFails \/ StartClient \/ StopLogging
  BY <1>6 DEF SetupFails, StartClient, StopLogging, Queue!HandlerReturns,
     OnItsWay, Queue!Queued, Queue!Adding
<1>7. CASE SubmitReport
  <2>1. CASE Queue!Submit("engine", "tc_work")
    BY <2>1, WaySubmit
  <2>2. CASE UNCHANGED queueVars
    BY <2>2 DEF queueVars, OnItsWay, Queue!Queued, Queue!Adding
  <2>. QED
    BY <1>7, <2>1, <2>2 DEF SubmitReport
<1>8. CASE UNCHANGED queueVars
  BY <1>8 DEF queueVars, OnItsWay, Queue!Queued, Queue!Adding
<1>9. ASSUME \/ SetupSucceeds \/ ResetCount \/ StartLogging \/ PrintResult
             \/ EndReport \/ RegistrationComplete \/ RegistrationFailure
             \/ EndFailedTest \/ StoreResult
             \/ \E r \in Outcome : UpdateEvent(r)
             \/ UNCHANGED vars
      PROVE  UNCHANGED queueVars
  BY <1>9 DEF SetupSucceeds, ResetCount, StartLogging, PrintResult, EndReport,
     RegistrationComplete, RegistrationFailure, EndFailedTest, StoreResult,
     UpdateEvent, vars
<1>. QED
  BY <1>1, <1>2, <1>3, <1>4, <1>5, <1>6, <1>7, <1>8, <1>9, <1>10
     DEF Next, MainStep, HandlesEvent

(* No step takes the results of a test from the hands that bring them to   *)
(* print, except that lwm2m_start takes all of them at once.               *)
LEMMA HandStep ==
  ASSUME OnceInv, ComingInv, [Next]_vars,
         tc_logging' \/ step' = "log", tc_count' = N
  PROVE  InHand'
<1>. /\ N \in Nat \ {0} /\ tc_count \in 0..N /\ seen \in 0 .. N-1 /\ TypeOK
     /\ engine = "compare" => tc_count \in {seen + 1, 0}
  BY TestReportAssumption DEF TestReportAssumption, OnceInv, TypeOK
<1>h. ASSUME tc_logging \/ step = "log", tc_count = N PROVE InHand
  BY <1>h DEF ComingInv
<1>1. CASE \/ InterfaceUp
           \/ \E t \in {"net", "engine"} : Links(t) \/ LosesLink(t)
  BY <1>1, <1>h, OtherStep DEF InHand, mainVars, testVars, engineVars
<1>2. CASE TakesItem
  <2>1. /\ UNCHANGED <<mainVars, testVars, engineVars>>
        /\ \/ pending'["tc_work"] = pending["tc_work"]
           \/ work' = "tc_work" /\ pc' = "call"
        /\ ~(work = "tc_work" /\ pc = "call")
    BY <1>2 DEF TakesItem, TypeOK, Queue!TypeOK, Queue!GetWork,
       Queue!TestAndClear
  <2>. QED
    BY <1>h, <2>1 DEF InHand, mainVars, testVars, engineVars
<1>3. CASE BeginHandler
  BY <1>3, <1>h DEF BeginHandler, Queue!CallHandler, InHand, TypeOK,
     testVars, engineVars
<1>4. CASE SetupFails \/ StartClient
  BY <1>4, <1>h DEF SetupFails, StartClient, Queue!HandlerReturns, InHand,
     TypeOK, testVars, engineVars
<1>5. CASE StopLogging
  BY <1>5 DEF StopLogging
<1>6. CASE SetupSucceeds
  BY <1>6, <1>h DEF SetupSucceeds, InHand, queueVars, testVars, engineVars
<1>7. CASE ReinitWork
  BY <1>7 DEF ReinitWork, InHand
<1>8. CASE ResetCount
  BY <1>8 DEF ResetCount
<1>9. CASE StartLogging
  BY <1>9, <1>h DEF StartLogging, InHand, queueVars, engineVars
<1>10. CASE PrintResult \/ EndReport
  BY <1>10 DEF PrintResult, EndReport, InHand
<1>11. CASE RegistrationComplete \/ RegistrationFailure
  BY <1>11, <1>h DEF RegistrationComplete, RegistrationFailure, EngineIdle,
     InHand, queueVars, mainVars, testVars
<1>12. CASE EndFailedTest
  BY <1>12, <1>h DEF EndFailedTest, InHand, queueVars, mainVars
<1>13. ASSUME NEW r \in Outcome, UpdateEvent(r) PROVE InHand'
  <2>1. /\ UNCHANGED <<queueVars, mainVars, testVars>>
        /\ engine = "idle"
    BY <1>13 DEF UpdateEvent, EngineIdle
  <2>. QED
    BY <1>h, <2>1 DEF InHand, queueVars, mainVars, testVars
<1>14. CASE StoreResult
  BY <1>14 DEF StoreResult, InHand
<1>15. CASE SubmitReport
  <2>1. /\ engine = "compare" /\ UNCHANGED <<mainVars, testVars>>
    BY <1>15 DEF SubmitReport
  <2>2. tc_count = N /\ seen + 1 = N
    BY <2>1 DEF testVars
  <2>3. pending' = [pending EXCEPT !["tc_work"] = TRUE]
    BY <1>15, <2>2 DEF SubmitReport, Queue!Submit
  <2>. QED
    BY <2>3 DEF InHand, TypeOK, Queue!TypeOK
<1>16. CASE UNCHANGED vars
  BY <1>16, <1>h DEF vars, InHand, queueVars, mainVars, testVars, engineVars
<1>. QED
  BY <1>1, <1>2, <1>3, <1>4, <1>5, <1>6, <1>7, <1>8, <1>9, <1>10, <1>11,
     <1>12, <1>13, <1>14, <1>15, <1>16 DEF Next, MainStep, HandlesEvent

(* In every test, clean or not, the report is never lost on its way from   *)
(* the last outcome to the handler that prints it; only the initialization *)
(* of tc_work for the next test can take it away, at once or by an item    *)
(* that is appended to a list it is still in (handle_test_result,          *)
(* app_work_queue.c, lwm2m_start, lwm2m_reg_update_result).                *)
THEOREM ReportsAreComing == Spec => []ReportIsComing
<1>1. OnceInv /\ ComingInv /\ [Next]_vars => ComingInv'
  BY WayStep, HandStep DEF OnceInv, ComingInv
<1>2. ComingInv => ReportIsComing
  BY DEF ComingInv, InHand, OnItsWay, ReportIsComing, Queue!Taken
<1>. QED
  BY <1>1, <1>2, ComingInit, OnceInvHolds, PTL DEF Spec
=============================================================================
