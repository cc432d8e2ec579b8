---------------------------- MODULE AppWorkQueue ----------------------------
(***************************************************************************)
(* The application work queue (src/app_work_queue.c): a queue of work      *)
(* items that other threads submit to and that the main thread runs, one   *)
(* item at a time, for ever.  An item has a PENDING bit, so that it is on  *)
(* the queue at most once however often it is submitted; the queue is a    *)
(* linked list through the items, which an item put on it twice would      *)
(* corrupt.                                                                *)
(*                                                                         *)
(* Two items exist: net_event_work (lwm2m_start), submitted by the network *)
(* management thread, and tc_work (lwm2m_reg_update_result), submitted by  *)
(* the LwM2M engine thread.                                                *)
(***************************************************************************)
EXTENDS Integers, Sequences

CONSTANTS
  Work,     \* the work items
  Thread,   \* the threads that may submit
  Main,     \* the one of them that runs the queue
  None      \* no item

ASSUME WorkAssumption ==
  /\ Main \in Thread
  /\ None \notin Work

VARIABLES
  queue,     \* k_queue: the items to run, in order
  pending,   \* K_WORK_STATE_PENDING of each item
  adding,    \* the item a thread is about to append, or None
  pc,        \* where app_wq_run is
  work,      \* the item app_wq_run took from the queue, or None
  owed       \* history: items submitted since their handler last started

vars == <<queue, pending, adding, pc, work, owed>>

TypeOK ==
  /\ queue \in Seq(Work)
  /\ pending \in [Work -> BOOLEAN]
  /\ adding \in [Thread -> Work \cup {None}]
  /\ pc \in {"get", "clear", "call", "handler"}
  /\ work \in Work \cup {None}
  /\ pc # "get" => work \in Work
  /\ owed \subseteq Work

(* app_wq_init.                                                            *)
Init ==
  /\ queue = << >>
  /\ pending = [w \in Work |-> FALSE]
  /\ adding = [t \in Thread |-> None]
  /\ pc = "get" /\ work = None
  /\ owed = {}

-----------------------------------------------------------------------------
Submit_Untested(t, w) ==
  /\ adding[t] = None
  /\ t = Main => pc = "handler"
  /\ owed' = owed \cup {w}
  /\ pending' = [pending EXCEPT ![w] = TRUE]
  /\ adding' = [adding EXCEPT ![t] = w]
  /\ UNCHANGED <<queue, pc, work>>

(* k_work_submit_to_queue: test and set the bit, and append the item only  *)
(* if the bit was not set.  The main thread submits from a handler.        *)
Submit(t, w) ==
  /\ adding[t] = None
  /\ t = Main => pc = "handler"
  /\ owed' = owed \cup {w}
  /\ pending' = [pending EXCEPT ![w] = TRUE]
  /\ adding' = IF pending[w] THEN adding ELSE [adding EXCEPT ![t] = w]
  /\ UNCHANGED <<queue, pc, work>>

AppendWork(t) ==
  /\ adding[t] # None
  /\ queue' = Append(queue, adding[t])
  /\ adding' = [adding EXCEPT ![t] = None]
  /\ UNCHANGED <<pending, pc, work, owed>>

GetWork_NullAsWork ==
  /\ pc = "get"
  /\ work' = IF queue = << >> THEN None ELSE Head(queue)
  /\ queue' = IF queue = << >> THEN queue ELSE Tail(queue)
  /\ pc' = "clear"
  /\ UNCHANGED <<pending, adding, owed>>

(* k_queue_get, which waits for an item.  When it returns NULL the loop    *)
(* starts over and nothing has changed.                                    *)
GetWork ==
  /\ pc = "get" /\ queue # << >>
  /\ work' = Head(queue) /\ queue' = Tail(queue)
  /\ pc' = "clear"
  /\ UNCHANGED <<pending, adding, owed>>

TestAndClear_Late ==
  /\ pc = "clear"
  /\ pc' = IF pending[work] THEN "call" ELSE "get"
  /\ UNCHANGED <<pending, queue, adding, work, owed>>

(* Only an item whose bit is set is called; the bit is reset before the    *)
(* call, so that the item can be submitted while its handler runs.         *)
TestAndClear ==
  /\ pc = "clear"
  /\ pc' = IF pending[work] THEN "call" ELSE "get"
  /\ pending' = [pending EXCEPT ![work] = FALSE]
  /\ UNCHANGED <<queue, adding, work, owed>>

CallHandler ==
  /\ pc = "call"
  /\ pc' = "handler"
  /\ owed' = owed \ {work}
  /\ UNCHANGED <<queue, pending, adding, work>>

HandlerReturns_ClearBit ==
  /\ pc = "handler" /\ adding[Main] = None
  /\ pc' = "get"
  /\ pending' = [pending EXCEPT ![work] = FALSE]
  /\ UNCHANGED <<queue, adding, work, owed>>

HandlerReturns ==
  /\ pc = "handler" /\ adding[Main] = None
  /\ pc' = "get"
  /\ UNCHANGED <<queue, pending, adding, work, owed>>

RunnerStep == GetWork \/ TestAndClear \/ CallHandler \/ HandlerReturns

Next ==
  \/ \E t \in Thread, w \in Work : Submit(t, w)
  \/ \E t \in Thread : AppendWork(t)
  \/ RunnerStep

Spec == Init /\ [][Next]_vars

(* Threads in the middle of a submission go on, handlers return, and the   *)
(* main thread runs whenever it can; nobody has to submit.                 *)
LiveSpec ==
  Spec /\ WF_vars(RunnerStep) /\ \A t \in Thread : WF_vars(AppendWork(t))

-----------------------------------------------------------------------------
(* Properties.                                                             *)

(* Where an item whose handler is still to be called can be.               *)
Queued(w)  == \E i \in 1..Len(queue) : queue[i] = w
Adding(w)  == \E t \in Thread : adding[t] = w
Taken(w)   == work = w /\ (pc = "call" \/ (pc = "clear" /\ pending[w]))

(* An item is linked into the list at most once, and not while a thread is *)
(* about to link it, whatever threads submit it at the same time.          *)
LinkedOnce ==
  /\ \A i, j \in 1..Len(queue) : queue[i] = queue[j] => i = j
  /\ \A t, u \in Thread : adding[t] # None /\ adding[t] = adding[u] => t = u
  /\ \A w \in Work : ~(Queued(w) /\ Adding(w))

(* A submission is never lost, even one made while the handler of that     *)
(* very item is running or about to be called: the call is still to come.  *)
NoLostSubmission ==
  \A w \in owed : (Queued(w) /\ pending[w]) \/ Adding(w) \/ Taken(w)

(* What is submitted is called in the end.                                 *)
SubmittedIsCalled == \A w \in Work : (w \in owed) ~> (w \notin owed)

-----------------------------------------------------------------------------
(* The queue as the service it gives: an item waits while its PENDING bit  *)
(* is set, wherever it is, and runs from the moment the bit is reset.      *)
Service == INSTANCE WorkService WITH
  waiting <- {w \in Work : pending[w]},
  running <- IF pc \in {"call", "handler"} THEN work ELSE None

(* app_wq_run makes no call that no submission asks for, and one call for  *)
(* what was submitted before it, whichever of the threads' steps come in   *)
(* between.                                                                *)
ImplementsService == Service!Spec
=============================================================================
