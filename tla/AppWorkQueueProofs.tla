------------------------- MODULE AppWorkQueueProofs -------------------------
(* Theorems about AppWorkQueue, for any work items and threads.            *)
EXTENDS AppWorkQueue, TLAPS

(* The PENDING bit is set exactly while the item is on its way from a      *)
(* submission to the runner.                                               *)
PendingInv ==
  /\ TypeOK
  /\ LinkedOnce
  /\ \A w \in Work : Queued(w) \/ Adding(w) => pending[w]
  /\ pc = "clear" => pending[work] /\ ~Queued(work) /\ ~Adding(work)
  /\ \A w \in Work :
       pending[w] => Queued(w) \/ Adding(w) \/ (pc = "clear" /\ work = w)
  /\ \A w \in owed : pending[w] \/ (pc = "call" /\ work = w)

LEMMA AppendFacts ==
  ASSUME NEW s \in Seq(Work), NEW w \in Work
  PROVE  /\ Append(s, w) \in Seq(Work) /\ Len(Append(s, w)) = Len(s) + 1
         /\ \A i \in 1..Len(s) : Append(s, w)[i] = s[i]
         /\ Append(s, w)[Len(s) + 1] = w
  OBVIOUS

LEMMA TailFacts ==
  ASSUME NEW s \in Seq(Work), s # << >>
  PROVE  /\ Len(s) \in Nat \ {0} /\ Head(s) = s[1] /\ Head(s) \in Work
         /\ Tail(s) \in Seq(Work) /\ Len(Tail(s)) = Len(s) - 1
         /\ \A i \in 1 .. Len(s) - 1 : Tail(s)[i] = s[i + 1]
  OBVIOUS

LEMMA TypeInit == Init => TypeOK
  BY DEF Init, TypeOK

LEMMA PendingInit == Init => PendingInv
<1>. SUFFICES ASSUME Init PROVE PendingInv
  OBVIOUS
<1>1. Len(queue) = 0 /\ \A w \in Work : ~Queued(w) /\ ~Adding(w)
  BY WorkAssumption DEF WorkAssumption, Init, Queued, Adding
<1>2. LinkedOnce
  BY <1>1 DEF LinkedOnce, Init
<1>. QED
  BY <1>1, <1>2, TypeInit DEF Init, PendingInv

-----------------------------------------------------------------------------
LEMMA SubmitKeepsInv ==
  ASSUME PendingInv, NEW t \in Thread, NEW w \in Work, Submit(t, w)
  PROVE  PendingInv'
<1>1. /\ queue \in Seq(Work) /\ pending \in [Work -> BOOLEAN]
      /\ adding \in [Thread -> Work \cup {None}] /\ owed \subseteq Work
      /\ pc # "get" => work \in Work
      /\ None \notin Work
  BY WorkAssumption DEF WorkAssumption, PendingInv, TypeOK
<1>2. /\ UNCHANGED <<queue, pc, work>> /\ owed' = owed \cup {w}
      /\ pending' = [pending EXCEPT ![w] = TRUE]
      /\ adding[t] = None
  BY DEF Submit
<1>3. pending'[w] /\ \A v \in Work \ {w} : pending'[v] = pending[v]
  BY <1>1, <1>2
<1>4. \A v \in Work : Queued(v)' <=> Queued(v)
  BY <1>2 DEF Queued
<1>5. TypeOK'
  BY <1>1, <1>2 DEF Submit, PendingInv, TypeOK
<1>6. CASE pending[w]
  <2>1. adding' = adding
    BY <1>6 DEF Submit
  <2>2. \A v \in Work : Adding(v)' <=> Adding(v)
    BY <2>1 DEF Adding
  <2>3. LinkedOnce'
    BY <1>2, <2>1 DEF PendingInv, LinkedOnce, Queued, Adding
  <2>. QED
    BY <1>1, <1>2, <1>3, <1>4, <1>5, <1>6, <2>2, <2>3
       DEF PendingInv, Queued, Adding
<1>7. CASE ~pending[w]
  <2>1. adding' = [adding EXCEPT ![t] = w]
    BY <1>7 DEF Submit
  <2>2. adding'[t] = w /\ \A u \in Thread \ {t} : adding'[u] = adding[u]
    BY <1>1, <2>1
  <2>3. ~Queued(w) /\ ~Adding(w)
    BY <1>7 DEF PendingInv
  <2>4. \A v \in Work : Adding(v)' <=> Adding(v) \/ v = w
    BY <1>1, <1>2, <2>2 DEF Adding
  <2>5. LinkedOnce'
    BY <1>1, <1>2, <1>4, <2>2, <2>3, <2>4
       DEF PendingInv, LinkedOnce, Adding
  <2>6. pc = "clear" => work # w
    BY <1>7 DEF PendingInv
  <2>. QED
    BY <1>1, <1>2, <1>3, <1>4, <1>5, <2>4, <2>5, <2>6 DEF PendingInv
<1>. QED
  BY <1>6, <1>7

LEMMA AppendKeepsInv ==
  ASSUME PendingInv, NEW t \in Thread, AppendWork(t)
  PROVE  PendingInv'
<1>. DEFINE w == adding[t]
<1>1. /\ queue \in Seq(Work) /\ pending \in [Work -> BOOLEAN]
      /\ adding \in [Thread -> Work \cup {None}] /\ owed \subseteq Work
      /\ pc # "get" => work \in Work
      /\ w \in Work /\ None \notin Work
  BY WorkAssumption DEF WorkAssumption, PendingInv, TypeOK, AppendWork
<1>2. /\ UNCHANGED <<pending, pc, work, owed>>
      /\ queue' = Append(queue, w)
      /\ adding' = [adding EXCEPT ![t] = None]
  BY DEF AppendWork
<1>3. /\ queue' \in Seq(Work) /\ Len(queue') = Len(queue) + 1
      /\ \A i \in 1..Len(queue) : queue'[i] = queue[i]
      /\ queue'[Len(queue) + 1] = w
  BY <1>1, <1>2, AppendFacts
<1>4. Adding(w) /\ ~Queued(w)
  BY <1>1 DEF PendingInv, LinkedOnce, Adding
<1>5. \A v \in Work : Queued(v)' <=> Queued(v) \/ v = w
  <2>1. Len(queue) \in Nat
    BY <1>1
  <2>. QED
    BY <1>3, <2>1 DEF Queued
<1>6. adding'[t] = None /\ \A u \in Thread \ {t} : adding'[u] = adding[u]
  BY <1>1, <1>2
<1>7. \A v \in Work : Adding(v)' <=> Adding(v) /\ v # w
  BY <1>1, <1>6 DEF Adding, PendingInv, LinkedOnce
<1>8. \A i, j \in 1..Len(queue') : queue'[i] = queue'[j] => i = j
  <2>1. Len(queue) \in Nat /\ \A i \in 1..Len(queue) : queue[i] # w
    BY <1>1, <1>4 DEF Queued
  <2>. QED
    BY <1>3, <2>1 DEF PendingInv, LinkedOnce
<1>9. LinkedOnce'
  <2>1. \A u, v \in Thread :
          adding'[u] # None /\ adding'[u] = adding'[v] => u = v
    BY <1>6 DEF PendingInv, LinkedOnce
  <2>2. \A v \in Work : ~(Queued(v)' /\ Adding(v)')
    BY <1>5, <1>7 DEF PendingInv, LinkedOnce
  <2>. QED
    BY <1>8, <2>1, <2>2 DEF LinkedOnce, Queued, Adding
<1>10. TypeOK'
  BY <1>1, <1>2, <1>3 DEF PendingInv, TypeOK
<1>11. pc = "clear" => work # w
  BY <1>4 DEF PendingInv
<1>. QED
  BY <1>1, <1>2, <1>4, <1>5, <1>7, <1>9, <1>10, <1>11 DEF PendingInv

LEMMA GetKeepsInv == ASSUME PendingInv, GetWork PROVE PendingInv'
<1>1. /\ queue \in Seq(Work) /\ queue # << >> /\ owed \subseteq Work
      /\ pc = "get" /\ pc' = "clear"
      /\ work' = Head(queue) /\ queue' = Tail(queue)
      /\ UNCHANGED <<pending, adding, owed>>
  BY DEF PendingInv, TypeOK, GetWork
<1>2. /\ Len(queue) \in Nat \ {0} /\ work' = queue[1] /\ work' \in Work
      /\ queue' \in Seq(Work) /\ Len(queue') = Len(queue) - 1
      /\ \A i \in 1 .. Len(queue) - 1 : queue'[i] = queue[i + 1]
  BY <1>1, TailFacts
<1>3. \A v \in Work : Queued(v)' <=> Queued(v) /\ v # work'
  <2>1. \A i \in 1..Len(queue) : queue[i] = work' => i = 1
    BY <1>2 DEF PendingInv, LinkedOnce
  <2>2. ASSUME NEW v \in Work, Queued(v), v # work' PROVE Queued(v)'
    <3>1. PICK i \in 1..Len(queue) : queue[i] = v
      BY <2>2 DEF Queued
    <3>2. i - 1 \in 1..Len(queue') /\ queue'[i - 1] = v
      BY <1>2, <2>2, <3>1
    <3>. QED
      BY <3>2 DEF Queued
  <2>3. ASSUME NEW v \in Work, Queued(v)' PROVE Queued(v) /\ v # work'
    <3>1. PICK i \in 1..Len(queue') : queue'[i] = v
      BY <2>3 DEF Queued
    <3>2. i + 1 \in 1..Len(queue) /\ queue[i + 1] = v /\ i + 1 # 1
      BY <1>2, <3>1
    <3>. QED
      BY <2>1, <3>2 DEF Queued
  <2>. QED
    BY <2>2, <2>3
<1>4. Queued(work')
  BY <1>2 DEF Queued
<1>5. \A v \in Work : Adding(v)' <=> Adding(v)
  BY <1>1 DEF Adding
<1>6. LinkedOnce'
  <2>1. \A i, j \in 1..Len(queue') : queue'[i] = queue'[j] => i = j
    <3>1. SUFFICES ASSUME NEW i \in 1..Len(queue'), NEW j \in 1..Len(queue'),
                          queue'[i] = queue'[j]
                   PROVE  i = j
      OBVIOUS
    <3>2. /\ i + 1 \in 1..Len(queue) /\ j + 1 \in 1..Len(queue)
          /\ queue[i + 1] = queue[j + 1]
      BY <1>2, <3>1
    <3>3. i + 1 = j + 1
      BY <3>2 DEF PendingInv, LinkedOnce
    <3>. QED
      BY <1>2, <3>3
  <2>2. \A v \in Work : ~(Queued(v)' /\ Adding(v)')
    BY <1>3, <1>5 DEF PendingInv, LinkedOnce
  <2>. QED
    BY <1>1, <2>1, <2>2 DEF PendingInv, LinkedOnce, Queued, Adding
<1>7. TypeOK'
  BY <1>1, <1>2 DEF PendingInv, TypeOK
<1>8. pending[work'] /\ ~Adding(work')
  BY <1>2, <1>4 DEF PendingInv, LinkedOnce
<1>. QED
  BY <1>1, <1>2, <1>3, <1>5, <1>6, <1>7, <1>8
     DEF PendingInv, Queued, Adding

LEMMA ClearKeepsInv == ASSUME PendingInv, TestAndClear PROVE PendingInv'
<1>1. /\ pc = "clear" /\ work \in Work /\ pending[work]
      /\ pending \in [Work -> BOOLEAN] /\ owed \subseteq Work
      /\ pc' = "call" /\ pending' = [pending EXCEPT ![work] = FALSE]
      /\ UNCHANGED <<queue, adding, work, owed>>
  BY DEF PendingInv, TypeOK, TestAndClear
<1>2. \A v \in Work : (Queued(v)' <=> Queued(v)) /\ (Adding(v)' <=> Adding(v))
  BY <1>1 DEF Queued, Adding
<1>3. ~pending'[work] /\ \A v \in Work \ {work} : pending'[v] = pending[v]
  BY <1>1
<1>4. TypeOK'
  BY <1>1 DEF PendingInv, TypeOK
<1>5. LinkedOnce'
  BY <1>1 DEF PendingInv, LinkedOnce, Queued, Adding
<1>. QED
  BY <1>1, <1>2, <1>3, <1>4, <1>5 DEF PendingInv

LEMMA PendingStep == PendingInv /\ [Next]_vars => PendingInv'
<1>. SUFFICES ASSUME PendingInv, [Next]_vars PROVE PendingInv'
  OBVIOUS
<1>1. ASSUME NEW t \in Thread, NEW w \in Work, Submit(t, w) PROVE PendingInv'
  BY <1>1, SubmitKeepsInv
<1>2. ASSUME NEW t \in Thread, AppendWork(t) PROVE PendingInv'
  BY <1>2, AppendKeepsInv
<1>3. CASE GetWork
  BY <1>3, GetKeepsInv
<1>4. CASE TestAndClear
  BY <1>4, ClearKeepsInv
<1>5. CASE CallHandler
  BY <1>5 DEF CallHandler, PendingInv, TypeOK, LinkedOnce, Queued, Adding
<1>6. CASE HandlerReturns
  BY <1>6 DEF HandlerReturns, PendingInv, TypeOK, LinkedOnce, Queued, Adding
<1>7. CASE UNCHANGED vars
  BY <1>7 DEF vars, PendingInv, TypeOK, LinkedOnce, Queued, Adding
<1>. QED
  BY <1>1, <1>2, <1>3, <1>4, <1>5, <1>6, <1>7 DEF Next, RunnerStep

LEMMA PendingInvHolds == Spec => []PendingInv
  BY PendingInit, PendingStep, PTL DEF Spec

(* Type correctness: app_wq_run never calls anything but an item of the    *)
(* application.                                                            *)
THEOREM TypeCorrect == Spec => []TypeOK
<1>1. PendingInv => TypeOK
  BY DEF PendingInv
<1>. QED
  BY <1>1, PendingInvHolds, PTL

(* The linked list of app_work_queue.c never gets an item twice.           *)
THEOREM AlwaysLinkedOnce == Spec => []LinkedOnce
<1>1. PendingInv => LinkedOnce
  BY DEF PendingInv
<1>. QED
  BY <1>1, PendingInvHolds, PTL

(* app_wq_run loses no submission, because it resets the PENDING bit       *)
(* before and not after it calls the handler.                              *)
THEOREM SubmissionsAreKept == Spec => []NoLostSubmission
<1>1. PendingInv => NoLostSubmission
  BY DEF PendingInv, TypeOK, NoLostSubmission, Taken
<1>. QED
  BY <1>1, PendingInvHolds, PTL

-----------------------------------------------------------------------------
(* What WorkService keeps, seen from the queue's state.                    *)
LEMMA ServiceInit == Init => Service!Init
  BY DEF Init, Service!Init

(* A submission is a request, whether or not the item has to be appended;  *)
(* the runner takes an item up where it resets its bit; the other steps    *)
(* do not show.                                                            *)
LEMMA ServiceStep ==
  PendingInv /\ [Next]_vars => [Service!Next]_(Service!vars)
<1>. DEFINE waiting == {w \in Work : pending[w]}
            running == IF pc \in {"call", "handler"} THEN work ELSE None
<1>. SUFFICES ASSUME PendingInv, [Next]_vars
              PROVE  Service!Next \/ (waiting' = waiting /\ running' = running)
  BY DEF Service!vars
<1>1. /\ pending \in [Work -> BOOLEAN] /\ None \notin Work
      /\ pc # "get" => work \in Work
  BY WorkAssumption DEF WorkAssumption, PendingInv, TypeOK
<1>2. ASSUME NEW t \in Thread, NEW w \in Work, Submit(t, w)
      PROVE  Service!Next
  <2>1. /\ pending' = [pending EXCEPT ![w] = TRUE]
        /\ UNCHANGED <<pc, work>>
    BY <1>2 DEF Submit
  <2>2. waiting' = waiting \cup {w} /\ running' = running
    BY <1>1, <2>1
  <2>3. Service!Request(w)
    BY <2>2 DEF Service!Request
  <2>. QED
    BY <2>3 DEF Service!Next
<1>3. ASSUME NEW t \in Thread, AppendWork(t)
      PROVE  waiting' = waiting /\ running' = running
  BY <1>3 DEF AppendWork
<1>4. ASSUME GetWork PROVE waiting' = waiting /\ running' = running
  BY <1>4 DEF GetWork
<1>5. ASSUME TestAndClear PROVE Service!Next
  <2>1. /\ pc = "clear" /\ work \in Work /\ pending[work]
        /\ pc' = "call" /\ pending' = [pending EXCEPT ![work] = FALSE]
        /\ work' = work
    BY <1>1, <1>5 DEF TestAndClear, PendingInv
  <2>2. /\ running = None /\ work \in waiting
        /\ running' = work /\ waiting' = waiting \ {work}
    BY <1>1, <2>1
  <2>3. PICK w \in Work : w = work
    BY <2>1
  <2>4. Service!TakeUp(w)
    BY <2>2, <2>3 DEF Service!TakeUp
  <2>. QED
    BY <2>4 DEF Service!Next
<1>6. ASSUME CallHandler PROVE waiting' = waiting /\ running' = running
  BY <1>6 DEF CallHandler
<1>7. ASSUME HandlerReturns PROVE Service!Next
  <2>1. /\ pc = "handler" /\ work \in Work /\ pc' = "get"
        /\ UNCHANGED <<pending, work>>
    BY <1>1, <1>7 DEF HandlerReturns
  <2>2. running # None /\ running' = None /\ waiting' = waiting
    BY <1>1, <2>1
  <2>. QED
    BY <2>2 DEF Service!Finish, Service!Next
<1>8. ASSUME UNCHANGED vars PROVE waiting' = waiting /\ running' = running
  BY <1>8 DEF vars
<1>. QED
  BY <1>2, <1>3, <1>4, <1>5, <1>6, <1>7, <1>8 DEF Next, RunnerStep

(* app_work_queue.c gives the service WorkService states: no call without  *)
(* a submission, one call for all that were made before it, another for    *)
(* what is submitted from then on.                                         *)
THEOREM QueueIsService == Spec => ImplementsService
<1>. QED
  BY ServiceInit, ServiceStep, PendingInvHolds, PTL
     DEF Spec, ImplementsService, Service!Spec
=============================================================================
