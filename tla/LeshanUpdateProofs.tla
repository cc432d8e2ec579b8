------------------------- MODULE LeshanUpdateProofs -------------------------
(* Theorems about LeshanUpdate, for any number of targets and threads.     *)
EXTENDS LeshanUpdate, FiniteSetTheorems, TLAPS

(* TypeOK without the bounds that follow from the rest.                    *)
Types ==
  /\ main \in {"admit", "join", "trigger", "joinUpdates", "summary", "done"}
  /\ todo \subseteq Client /\ listed \subseteq Client
  /\ admitted \subseteq Client
  /\ aborted \in BOOLEAN
  /\ exit \in {NoExit, 0, 1}
  /\ thread \in [Client -> Running \cup {"none", "ended", "dead"}]
  /\ result \in [Client -> BOOLEAN]
  /\ requested \in [Client -> BOOLEAN]
  /\ abort \in [Client -> BOOLEAN]
  /\ status \in [Client -> Status]
  /\ silent \subseteq Client
  /\ outcome \in [Client -> Outcome]
  /\ image \in [Client -> Image]
  /\ updated \subseteq Client

(* A client is in one of the loops, about to be listed, or listed.         *)
Books ==
  /\ \A a, b \in admitted : a = b
  /\ admitted # {} => main = "admit"
  /\ admitted \cap listed = {}
  /\ main = "admit" => todo \cap (listed \cup admitted) = {}
  /\ \A c \in Client : thread[c] = "none" <=> c \notin listed

(* Downloads and updates are kept apart by the main thread's joins.        *)
Phases ==
  /\ main \in {"admit", "join"} =>
       \A c \in Client : thread[c] \notin {"update", "wait"}
  /\ main \in {"trigger", "joinUpdates", "summary", "done"} =>
       \A c \in Client : thread[c] # "download"
  /\ main = "trigger" =>
       \A c \in todo : c \in listed /\ thread[c] = "ended"

Live == {c \in Client : thread[c] \in Running \cup {"dead"}}
Occupied == Live \cup admitted

Counted ==
  /\ count = Cardinality(Occupied)
  /\ main \in {"admit", "join"} => count <= MaxThreads

BookInv == Types /\ Books /\ Phases /\ Counted

LEMMA TypesStep == Types /\ [Next]_vars => Types'
<1>. SUFFICES ASSUME Types, [Next]_vars PROVE Types'
  OBVIOUS
<1>. USE DEF Types
<1>1. CASE MainStep
  <2>1. ASSUME NEW c \in Client, Admit(c) \/ StartDownload(c) \/ Trigger(c)
        PROVE  Types'
    BY <2>1 DEF Admit, StartDownload, Trigger, Running, action, device
  <2>2. CASE EndAdmission \/ JoinDownloads \/ EndTriggering \/ JoinUpdates
    BY <2>2 DEF EndAdmission, JoinDownloads, EndTriggering, JoinUpdates,
                action, device
  <2>3. CASE Summary
    BY <2>3 DEF Summary, ExitCode, action, device
  <2>. QED
    BY <1>1, <2>1, <2>2, <2>3 DEF MainStep
<1>2. CASE Signal
  <2>1. aborted' = TRUE /\ abort' \in [Client -> BOOLEAN]
    BY <1>2, Zenon DEF Signal, AbortListed
  <2>. QED
    BY <1>2, <2>1 DEF Signal, device
<1>3. ASSUME NEW c \in Client, ThreadStep(c) PROVE Types'
  <2>1. CASE StopThread(c) \/ FinishUpdate(c)
    BY <2>1 DEF StopThread, FinishUpdate, ThreadOnly, EndThread, device
  <2>2. CASE RequestDownload(c)
    <3>1. /\ status' \in [Client -> Status] /\ outcome' \in [Client -> Outcome]
          /\ image' \in [Client -> Image]
      BY <2>2 DEF RequestDownload, TellUrl, Status, Outcome, Image
    <3>2. /\ thread' \in [Client -> Running \cup {"none", "ended", "dead"}]
          /\ result' \in [Client -> BOOLEAN]
          /\ requested' \in [Client -> BOOLEAN]
      BY <2>2 DEF RequestDownload, EndThread
    <3>. QED
      BY <2>2, <3>1, <3>2 DEF RequestDownload, ThreadOnly
  <2>3. CASE FinishDownload(c)
    <3>1. DownloadResult(c) \in BOOLEAN
      BY Zenon DEF DownloadResult
    <3>2. result' \in [Client -> BOOLEAN]
      BY <2>3, <3>1 DEF FinishDownload
    <3>. QED
      BY <2>3, <3>2 DEF FinishDownload, ThreadOnly, EndThread, device
  <2>4. CASE ExecuteUpdate(c)
    BY <2>4 DEF ExecuteUpdate, ThreadOnly, EndThread, Running, Status
  <2>. QED
    BY <1>3, <2>1, <2>2, <2>3, <2>4 DEF ThreadStep
<1>4. ASSUME NEW c \in Client, Die(c) PROVE Types'
  BY <1>4 DEF Die, ThreadOnly, device
<1>5. ASSUME NEW c \in Client, DeviceStep(c) PROVE Types'
  <2>1. UNCHANGED <<script, thread, action, silent>>
    BY <1>5 DEF DeviceStep, DownloadEnds, Restart, TellAgain, DeviceOnly
  <2>2. /\ status' \in [Client -> Status] /\ outcome' \in [Client -> Outcome]
        /\ updated' \subseteq Client
    BY <1>5 DEF DeviceStep, DownloadEnds, Restart, TellAgain, Status, Outcome
  <2>3. image' \in [Client -> Image]
    BY <1>5 DEF DeviceStep, DownloadEnds, Restart, TellAgain, Completed, Image
  <2>. QED
    BY <2>1, <2>2, <2>3 DEF script, action
<1>6. CASE UNCHANGED vars
  BY <1>6 DEF vars, script, action, device
<1>7. ASSUME NEW c \in Client, NoMoreAnswers(c) PROVE Types'
  BY <1>7 DEF NoMoreAnswers, script, action, device
<1>. QED
  BY <1>1, <1>2, <1>3, <1>4, <1>5, <1>6, <1>7 DEF Next

-----------------------------------------------------------------------------
(* What a step of a thread does to the loops and the counter.              *)
LEMMA ThreadMoves ==
  ASSUME Types, NEW c \in Client, ThreadStep(c) \/ Die(c)
  PROVE  /\ UNCHANGED <<main, todo, admitted, listed, aborted, exit, abort>>
         /\ \/ UNCHANGED <<thread, count>>
            \/ thread[c] \in Running /\ EndThread(c)
            \/ /\ thread[c] = "update" /\ count' = count
               /\ thread' = [thread EXCEPT ![c] = "wait"]
            \/ /\ thread[c] \in Running /\ count' = count
               /\ thread' = [thread EXCEPT ![c] = "dead"]
  BY DEF ThreadStep, Die, StopThread, RequestDownload, FinishDownload,
         ExecuteUpdate, FinishUpdate, ThreadOnly, Running

LEMMA OccupiedIsFinite ==
  ASSUME Types
  PROVE  IsFiniteSet(Occupied) /\ Cardinality(Occupied) \in Nat
  BY LeshanAssumption, FS_Subset, FS_CardinalityType
     DEF LeshanAssumption, Types, Occupied, Live

(* The counter goes with the set it counts.                                *)
LEMMA OneLess ==
  ASSUME Types, Books, Counted, NEW c \in Client,
         thread[c] \in Running, EndThread(c), UNCHANGED <<main, admitted>>
  PROVE  Counted'
<1>1. c \notin admitted
  BY DEF Types, Books, Running
<1>2. Occupied' = Occupied \ {c} /\ c \in Occupied
  BY <1>1 DEF Types, Occupied, Live, EndThread, Running
<1>3. Cardinality(Occupied \ {c}) = Cardinality(Occupied) - 1
  BY <1>2, OccupiedIsFinite, FS_RemoveElement
<1>. QED
  BY <1>2, <1>3, OccupiedIsFinite, LeshanAssumption
     DEF Counted, EndThread, LeshanAssumption

LEMMA OneMore ==
  ASSUME Types, Types', Counted, NEW c \in Client, c \notin Occupied,
         Occupied' = Occupied \cup {c}, count' = count + 1,
         main' \in {"admit", "join"} => count < MaxThreads
  PROVE  Counted'
<1>1. Cardinality(Occupied \cup {c}) = Cardinality(Occupied) + 1
  BY OccupiedIsFinite, FS_AddElement
<1>. QED
  BY <1>1, OccupiedIsFinite, LeshanAssumption DEF Counted, LeshanAssumption

LEMMA BookInit == Init => BookInv
<1>. SUFFICES ASSUME Init PROVE BookInv
  OBVIOUS
<1>1. Types
  BY DEF Init, Types, Running, Status, Outcome, Image
<1>2. Books /\ Phases
  BY DEF Init, Books, Phases
<1>3. Occupied = {}
  BY DEF Init, Occupied, Live, Running
<1>. QED
  BY <1>1, <1>2, <1>3, FS_EmptySet, LeshanAssumption
     DEF Init, BookInv, Counted, LeshanAssumption

LEMMA BookStep == BookInv /\ [Next]_vars => BookInv'
<1>. SUFFICES ASSUME BookInv, [Next]_vars PROVE BookInv'
  OBVIOUS
<1>. USE DEF BookInv
<1>t. Types'
  BY TypesStep
<1>e. count = 0 => \A c \in Client : thread[c] \notin Running \cup {"dead"}
  BY OccupiedIsFinite, FS_EmptySet DEF Counted, Occupied, Live
<1>s. ASSUME UNCHANGED <<thread, admitted, count>>,
             main' \in {"admit", "join"} => main \in {"admit", "join"}
      PROVE  Counted'
  <2>1. Occupied' = Occupied
    BY <1>s DEF Occupied, Live
  <2>. QED
    BY <1>s, <2>1 DEF Counted
<1>1. ASSUME NEW c \in Client, Admit(c) PROVE BookInv'
  <2>1. c \notin Occupied /\ Occupied' = Occupied \cup {c}
    BY <1>1 DEF Types, Books, Admit, Occupied, Live, Running
  <2>2. Counted'
    BY <1>1, <1>t, <2>1, OneMore DEF Admit, MayAdmit
  <2>. QED
    BY <1>1, <1>t, <2>2 DEF Admit, Types, Books, Phases
<1>2. ASSUME NEW c \in Client, StartDownload(c) PROVE BookInv'
  <2>1. admitted = {c} /\ main = "admit" /\ thread[c] = "none"
    BY <1>2 DEF StartDownload, Types, Books
  <2>2. Occupied' = Occupied
    BY <1>2, <2>1 DEF StartDownload, Types, Occupied, Live, Running
  <2>3. Books' /\ Phases'
    BY <1>2, <2>1 DEF StartDownload, Types, Books, Phases
  <2>. QED
    BY <1>2, <1>t, <2>2, <2>3 DEF StartDownload, Counted
<1>3. ASSUME NEW c \in Client, Trigger(c) PROVE BookInv'
  <2>1. main = "trigger" /\ c \in listed /\ thread[c] = "ended"
    BY <1>3 DEF Trigger, Phases
  <2>2. CASE UNCHANGED <<thread, count>>
    <3>1. Books' /\ Phases'
      BY <1>3, <2>1, <2>2 DEF Trigger, Types, Books, Phases
    <3>. QED
      BY <1>3, <1>t, <1>s, <2>1, <2>2, <3>1 DEF Trigger
  <2>3. CASE count' = count + 1 /\ thread' = [thread EXCEPT ![c] = "update"]
    <3>1. Books' /\ Phases'
      BY <1>3, <2>1, <2>3 DEF Trigger, Types, Books, Phases
    <3>2. c \notin Occupied /\ Occupied' = Occupied \cup {c}
      BY <1>3, <2>1, <2>3
         DEF Trigger, Types, Books, Occupied, Live, Running
    <3>3. main' = "trigger"
      BY <1>3, <2>1 DEF Trigger
    <3>4. Counted'
      BY <1>t, <2>3, <3>2, <3>3, OneMore
    <3>. QED
      BY <1>t, <3>1, <3>4
  <2>. QED
    BY <1>3, <2>2, <2>3 DEF Trigger
<1>4. CASE EndAdmission
  <2>1. Books' /\ Phases'
    BY <1>4 DEF EndAdmission, Books, Phases
  <2>. QED
    BY <1>4, <1>t, <1>s, <2>1 DEF EndAdmission
<1>5. CASE JoinDownloads
  <2>1. \A c \in Client : thread[c] \notin Running \cup {"dead"}
    BY <1>5, <1>e DEF JoinDownloads, AllEnded
  <2>2. admitted = {} /\ todo' \subseteq listed
    BY <1>5 DEF JoinDownloads, Books
  <2>3. Books' /\ Phases'
    BY <1>5, <2>1, <2>2 DEF JoinDownloads, Types, Books, Phases, Running
  <2>. QED
    BY <1>5, <1>t, <1>s, <2>3 DEF JoinDownloads
<1>6. CASE EndTriggering \/ JoinUpdates \/ Summary
  <2>1. Books' /\ Phases'
    BY <1>6 DEF EndTriggering, JoinUpdates, Summary, Books, Phases
  <2>. QED
    BY <1>6, <1>t, <1>s, <2>1 DEF EndTriggering, JoinUpdates, Summary
<1>7. CASE \/ Signal \/ UNCHANGED vars
          \/ \E c \in Client : NoMoreAnswers(c) \/ DeviceStep(c)
  <2>1. UNCHANGED <<main, todo, admitted, listed, count, thread>>
    BY <1>7 DEF Signal, NoMoreAnswers, DeviceStep, DownloadEnds, Restart,
                TellAgain, DeviceOnly, script, vars
  <2>2. Books' /\ Phases'
    BY <2>1 DEF Books, Phases
  <2>. QED
    BY <1>t, <1>s, <2>1, <2>2
<1>8. ASSUME NEW c \in Client, ThreadStep(c) \/ Die(c) PROVE BookInv'
  <2>0. UNCHANGED <<main, todo, admitted, listed>>
    BY <1>8, ThreadMoves
  <2>1. CASE UNCHANGED <<thread, count>>
    <3>1. Books' /\ Phases'
      BY <2>0, <2>1 DEF Books, Phases
    <3>. QED
      BY <1>t, <1>s, <2>0, <2>1, <3>1
  <2>2. CASE thread[c] \in Running /\ EndThread(c)
    <3>1. Books' /\ Phases'
      BY <2>0, <2>2 DEF EndThread, Types, Books, Phases, Running
    <3>. QED
      BY <1>t, <2>0, <2>2, <3>1, OneLess
  <2>3. ASSUME NEW p \in {"wait", "dead"}, thread[c] \in Running,
               p = "wait" => thread[c] = "update",
               thread' = [thread EXCEPT ![c] = p], count' = count
        PROVE  BookInv'
    <3>1. Books' /\ Phases'
      BY <2>0, <2>3 DEF Types, Books, Phases, Running
    <3>2. Occupied' = Occupied
      BY <2>0, <2>3 DEF Types, Occupied, Live, Running
    <3>. QED
      BY <1>t, <2>0, <2>3, <3>1, <3>2 DEF Counted
  <2>. QED
    BY <1>8, <2>1, <2>2, <2>3, ThreadMoves DEF Running
<1>. QED
  BY <1>1, <1>2, <1>3, <1>4, <1>5, <1>6, <1>7, <1>8 DEF Next, MainStep

LEMMA BooksKept == Spec => []BookInv
  BY BookInit, BookStep, PTL DEF Spec

(* The counter the main thread waits on is exact (AtomicCounter).          *)
THEOREM CounterIsExact == Spec => []CountIsThreads
<1>1. BookInv => CountIsThreads
  <2>. SUFFICES ASSUME BookInv PROVE CountIsThreads
    OBVIOUS
  <2>. USE DEF BookInv
  <2>1. Live \cap admitted = {}
    BY DEF Types, Books, Live, Running
  <2>2. IsFiniteSet(Live) /\ IsFiniteSet(admitted)
    BY LeshanAssumption, FS_Subset DEF LeshanAssumption, Types, Live
  <2>3. Cardinality(Live \cap admitted) = 0
    BY <2>1, FS_EmptySet
  <2>4. Cardinality(Live) \in Nat /\ Cardinality(admitted) \in Nat
    BY <2>2, FS_CardinalityType
  <2>5. Cardinality(Live \cup admitted)
          = Cardinality(Live) + Cardinality(admitted)
                              - Cardinality(Live \cap admitted)
    BY <2>2, FS_Union, Zenon
  <2>. QED
    BY <2>3, <2>4, <2>5 DEF CountIsThreads, Counted, Occupied, Live
<1>. QED
  BY <1>1, BooksKept, PTL

(* Type correctness: the counter stays between zero and the number of      *)
(* targets, and one client at a time is about to be listed (run).          *)
THEOREM TypeCorrect == Spec => []TypeOK
<1>1. BookInv => TypeOK
  <2>. SUFFICES ASSUME BookInv PROVE TypeOK
    OBVIOUS
  <2>. USE DEF BookInv
  <2>1. Occupied \in SUBSET Client
    BY DEF Types, Occupied, Live
  <2>2. Cardinality(Occupied) <= Cardinality(Client)
    BY <2>1, LeshanAssumption, FS_Subset DEF LeshanAssumption
  <2>3. Cardinality(Client) \in Nat
    BY LeshanAssumption, FS_CardinalityType DEF LeshanAssumption
  <2>4. count \in 0 .. Cardinality(Client)
    BY <2>2, <2>3, OccupiedIsFinite DEF Counted
  <2>5. Cardinality(admitted) <= 1
    <3>1. CASE admitted = {}
      BY <3>1, FS_EmptySet
    <3>2. ASSUME NEW c \in admitted PROVE Cardinality(admitted) <= 1
      <4>1. admitted = {c}
        BY <3>2 DEF Books
      <4>. QED
        BY <4>1, FS_Singleton
    <3>. QED
      BY <3>1, <3>2
  <2>. QED
    BY <2>4, <2>5 DEF Types, TypeOK
<1>. QED
  BY <1>1, BooksKept, PTL

(* Never more downloads at a time than max_threads (run, line 191).        *)
THEOREM DownloadsStayBounded == Spec => []DownloadsBounded
<1>1. BookInv => DownloadsBounded
  <2>. SUFFICES ASSUME BookInv PROVE DownloadsBounded
    OBVIOUS
  <2>. USE DEF BookInv
  <2>. DEFINE downloads == {c \in Client : thread[c] = "download"}
  <2>1. downloads \in SUBSET Occupied
    BY DEF Occupied, Live, Running
  <2>2. CASE main \in {"admit", "join"}
    <3>1. /\ IsFiniteSet(downloads)
          /\ Cardinality(downloads) <= Cardinality(Occupied)
      BY <2>1, OccupiedIsFinite, FS_Subset
    <3>2. Cardinality(downloads) \in Nat
      BY <3>1, FS_CardinalityType
    <3>. QED
      BY <2>2, <3>1, <3>2, OccupiedIsFinite, LeshanAssumption
         DEF DownloadsBounded, Counted, LeshanAssumption
  <2>3. CASE main \notin {"admit", "join"}
    <3>1. downloads = {}
      BY <2>3 DEF Types, Phases
    <3>. QED
      BY <3>1, FS_EmptySet, LeshanAssumption
         DEF DownloadsBounded, LeshanAssumption
  <2>. QED
    BY <2>2, <2>3
<1>. QED
  BY <1>1, BooksKept, PTL

(* No update is triggered while a device downloads (run, line 207).        *)
THEOREM UpdatesWait == Spec => []UpdatesAfterDownloads
<1>1. BookInv => UpdatesAfterDownloads
  BY DEF BookInv, Types, Phases, UpdatesAfterDownloads
<1>. QED
  BY <1>1, BooksKept, PTL

-----------------------------------------------------------------------------
(* What the summary looks at: a result is True only for a device that has  *)
(* the image it should have, and nobody is left out unless the script was  *)
(* aborted.                                                                *)
Supplied(c) == image[c] = IF requested[c] THEN "held" ELSE "before"

ImageInv ==
  \A c \in Client :
    /\ status[c] = "downloaded" => image[c] \in {"before", "held"}
    /\ requested[c] => image[c] \in {"told", "held"}
    /\ thread[c] \in {"none", "download"} /\ ~requested[c] =>
         image[c] \in {"none", "before"}
    /\ thread[c] \in {"none", "download"} => ~result[c]
    /\ result[c] => Supplied(c)

ExitInv ==
  /\ \A c \in Client : abort[c] => aborted
  /\ ~aborted /\ main = "admit" => listed \cup admitted \cup todo = Client
  /\ ~aborted /\ main # "admit" => listed = Client
  /\ exit # NoExit => main = "done"
  /\ exit = 0 /\ ~aborted => \A c \in Client : result[c]

LEMMA ImageInit == Init => ImageInv
  BY DEF Init, ImageInv

LEMMA ImageStep == BookInv /\ ImageInv /\ [Next]_vars => ImageInv'
<1>. SUFFICES ASSUME BookInv, ImageInv, [Next]_vars,
                     NEW d \in Client
              PROVE  ImageInv!(d)'
  BY DEF ImageInv
<1>. USE DEF BookInv
<1>i. ImageInv!(d)
  BY DEF ImageInv
<1>t. /\ Types
      /\ thread[d] = "none" <=> d \notin listed
  BY DEF Books
<1>1. CASE \/ EndAdmission \/ JoinDownloads \/ EndTriggering \/ JoinUpdates
          \/ Summary \/ Signal \/ UNCHANGED vars
          \/ \E c \in Client : Admit(c) \/ NoMoreAnswers(c)
  <2>1. UNCHANGED <<thread, status, image, requested, result>>
    BY <1>1 DEF EndAdmission, JoinDownloads, EndTriggering, JoinUpdates,
                Summary, Signal, Admit, NoMoreAnswers, vars, action, device
  <2>. QED
    BY <1>i, <2>1 DEF Supplied
<1>2. ASSUME NEW c \in Client, StartDownload(c) \/ Trigger(c)
      PROVE  ImageInv!(d)'
  <2>1. UNCHANGED <<status, image, requested, result>>
    BY <1>2 DEF StartDownload, Trigger, action, device
  <2>2. thread'[d] \in {"none", "download"} => thread[d] \in {"none", "download"}
    BY <1>2, <1>t DEF StartDownload, Trigger, Types, Books
  <2>. QED
    BY <1>i, <2>1, <2>2 DEF Supplied
<1>3. ASSUME NEW c \in Client, ThreadStep(c) \/ Die(c), ~RequestDownload(c),
             ~FinishDownload(c)
      PROVE  ImageInv!(d)'
  <2>1. UNCHANGED <<image, requested, result>>
    BY <1>3 DEF ThreadStep, Die, StopThread, ExecuteUpdate, FinishUpdate, device
  <2>2. status'[d] = "downloaded" => status[d] = "downloaded"
    BY <1>3, <1>t DEF ThreadStep, Die, StopThread, ExecuteUpdate, FinishUpdate,
                      device, Types
  <2>3. thread'[d] \in {"none", "download"} => thread[d] \in {"none", "download"}
    BY <1>3, <1>t DEF ThreadStep, Die, StopThread, ExecuteUpdate, FinishUpdate,
                      EndThread, Types, Running
  <2>. QED
    BY <1>i, <2>1, <2>2, <2>3 DEF Supplied
<1>4. ASSUME NEW c \in Client, RequestDownload(c) PROVE ImageInv!(d)'
  <2>1. CASE d # c
    <3>1. /\ status'[d] = status[d] /\ image'[d] = image[d]
          /\ requested'[d] = requested[d] /\ result'[d] = result[d]
          /\ thread'[d] = thread[d]
      BY <1>4, <1>t, <2>1 DEF RequestDownload, TellUrl, EndThread, Types
    <3>. QED
      BY <1>i, <3>1 DEF Supplied
  <2>2. CASE d = c
    <3>1. /\ thread[d] = "download" /\ ~requested[d] /\ status[d] = "idle"
      BY <1>4, <2>2 DEF RequestDownload
    <3>2. CASE /\ requested' = [requested EXCEPT ![c] = TRUE]
               /\ TellUrl(c) /\ UNCHANGED <<thread, result>>
      <4>1. /\ image'[d] = "told" /\ requested'[d] = TRUE
            /\ status'[d] = "downloading" /\ thread'[d] = "download"
            /\ result'[d] = result[d]
        BY <1>t, <2>2, <3>1, <3>2 DEF TellUrl, Types
      <4>. QED
        BY <1>i, <3>1, <4>1 DEF Supplied
    <3>3. CASE /\ result' = [result EXCEPT ![c] = FALSE]
               /\ EndThread(c) /\ UNCHANGED requested
               /\ UNCHANGED <<status, outcome, image>> \/ TellUrl(c)
      <4>1. /\ result'[d] = FALSE /\ thread'[d] = "ended"
            /\ requested'[d] = requested[d]
            /\ \/ image'[d] = image[d] /\ status'[d] = status[d]
               \/ status'[d] = "downloading"
        BY <1>t, <2>2, <3>3 DEF EndThread, TellUrl, Types
      <4>. QED
        BY <1>i, <3>1, <4>1
    <3>. QED
      BY <1>4, <3>2, <3>3 DEF RequestDownload
  <2>. QED
    BY <2>1, <2>2
<1>5. ASSUME NEW c \in Client, FinishDownload(c) PROVE ImageInv!(d)'
  <2>1. UNCHANGED <<status, image, requested>>
    BY <1>5 DEF FinishDownload, device
  <2>2. CASE d # c
    <3>1. result'[d] = result[d] /\ thread'[d] = thread[d]
      BY <1>5, <1>t, <2>2 DEF FinishDownload, EndThread, Types
    <3>. QED
      BY <1>i, <2>1, <3>1 DEF Supplied
  <2>3. CASE d = c
    <3>1. thread[d] = "download" /\ thread'[d] = "ended"
      BY <1>5, <1>t, <2>3 DEF FinishDownload, EndThread, Types
    <3>2. result'[d] => status[d] = "downloaded"
      BY <1>5, <1>t, <2>3, Zenon DEF FinishDownload, DownloadResult, Types
    <3>3. status[d] = "downloaded" => Supplied(d)
      BY <1>i, <3>1 DEF Supplied
    <3>. QED
      BY <1>i, <2>1, <3>1, <3>2, <3>3 DEF Supplied
  <2>. QED
    BY <2>2, <2>3
<1>6. ASSUME NEW c \in Client, DeviceStep(c) PROVE ImageInv!(d)'
  <2>1. UNCHANGED <<thread, requested, result>>
    BY <1>6 DEF DeviceStep, DownloadEnds, Restart, TellAgain, DeviceOnly, action
  <2>2. \/ /\ image'[d] = image[d]
           /\ status'[d] = "downloaded" => status[d] = "downloaded"
        \/ image'[d] = Completed(d)
    BY <1>6, <1>t DEF DeviceStep, DownloadEnds, Restart, TellAgain, Types
  <2>. QED
    BY <1>i, <2>1, <2>2 DEF Completed, Supplied
<1>. QED
  BY <1>1, <1>2, <1>3, <1>4, <1>5, <1>6 DEF Next, MainStep, ThreadStep

LEMMA ExitInit == Init => ExitInv
  BY DEF Init, ExitInv, NoExit

LEMMA ExitStep == BookInv /\ ExitInv /\ [Next]_vars => ExitInv'
<1>. SUFFICES ASSUME BookInv, ExitInv, [Next]_vars PROVE ExitInv'
  OBVIOUS
<1>. USE DEF BookInv
<1>1. ASSUME NEW c \in Client, Admit(c) \/ StartDownload(c) \/ Trigger(c)
      PROVE  ExitInv'
  <2>1. UNCHANGED <<aborted, exit, main, result, abort>>
    BY <1>1 DEF Admit, StartDownload, Trigger, action
  <2>2. ~aborted /\ main = "admit" =>
          listed' \cup admitted' \cup todo' = Client
    BY <1>1 DEF Admit, StartDownload, Trigger, Books, ExitInv
  <2>3. ~aborted /\ main # "admit" => listed' = Client
    BY <1>1 DEF Admit, StartDownload, Trigger, Books, ExitInv
  <2>. QED
    BY <2>1, <2>2, <2>3 DEF ExitInv
<1>2. CASE EndAdmission \/ JoinDownloads \/ EndTriggering \/ JoinUpdates
  <2>1. /\ UNCHANGED <<admitted, listed, aborted, exit, result, abort>>
        /\ main' # "admit" /\ main # "done"
    BY <1>2 DEF EndAdmission, JoinDownloads, EndTriggering, JoinUpdates, action
  <2>2. ~aborted /\ main = "admit" => listed = Client
    BY <1>2 DEF EndAdmission, JoinDownloads, EndTriggering, JoinUpdates,
                ExitInv
  <2>. QED
    BY <2>1, <2>2 DEF ExitInv
<1>3. CASE Summary
  <2>1. /\ UNCHANGED <<listed, aborted, result, abort>>
        /\ main = "summary" /\ main' = "done" /\ exit' = ExitCode
    BY <1>3 DEF Summary, action
  <2>2. ASSUME exit' = 0, ~aborted PROVE \A c \in Client : result[c]
    <3>1. listed = Client
      BY <2>1, <2>2 DEF Books, ExitInv, Types
    <3>. QED
      BY <2>1, <2>2, <3>1 DEF ExitCode, ExitInv
  <2>. QED
    BY <2>1, <2>2 DEF ExitInv
<1>4. CASE Signal
  BY <1>4 DEF Signal, ExitInv
<1>5. ASSUME NEW c \in Client, ThreadStep(c) \/ Die(c) PROVE ExitInv'
  <2>1. UNCHANGED <<main, todo, admitted, listed, aborted, exit, abort>>
    BY <1>5, ThreadMoves
  <2>2. main = "done" => result' = result
    BY <1>5 DEF ThreadStep, Die, StopThread, RequestDownload, FinishDownload,
                ExecuteUpdate, FinishUpdate, Phases
  <2>3. exit = 0 => main = "done"
    BY DEF ExitInv, NoExit
  <2>. QED
    BY <2>1, <2>2, <2>3 DEF ExitInv
<1>6. CASE \/ UNCHANGED vars
          \/ \E c \in Client : NoMoreAnswers(c) \/ DeviceStep(c)
  BY <1>6 DEF NoMoreAnswers, DeviceStep, DownloadEnds, Restart, TellAgain,
              DeviceOnly, vars, script, action, ExitInv
<1>. QED
  BY <1>1, <1>2, <1>3, <1>4, <1>5, <1>6 DEF Next, MainStep

(* Exit code 0 of a campaign nobody aborted: every target held an image,   *)
(* and one that was told the URL the image of this campaign (the summary   *)
(* of run).                                                                *)
THEOREM ExitCodeTellsImages == Spec => []ExitZeroMeansHeld
<1>1. ExitInv /\ ImageInv => ExitZeroMeansHeld
  BY DEF ExitInv, ImageInv, Supplied, ExitZeroMeansHeld
<1>. QED
  BY <1>1, BooksKept, ImageInit, ImageStep, ExitInit, ExitStep, PTL DEF Spec

-----------------------------------------------------------------------------
(* The script implements Campaign.  A barrier opens when the counter is    *)
(* zero, and it is zero only when everybody is home.                       *)
LEMMA HomeWhenZero ==
  ASSUME BookInv, AllEnded
  PROVE  Unfinished = {}
BY OccupiedIsFinite, FS_EmptySet
   DEF BookInv, Counted, AllEnded, Occupied, Live, Unfinished

LEMMA ThreadsEndOnly ==
  ASSUME BookInv, NEW c \in Client, ThreadStep(c) \/ Die(c)
  PROVE  Rounds!End(c) \/ UNCHANGED Rounds!vars
<1>1. /\ UNCHANGED <<main, todo, admitted, listed, aborted>>
      /\ \/ thread' = thread
         \/ thread[c] \in Running /\ thread' = [thread EXCEPT ![c] = "ended"]
         \/ \E p \in {"wait", "dead"} :
              thread[c] \in Running /\ thread' = [thread EXCEPT ![c] = p]
  BY ThreadMoves DEF BookInv, EndThread, Running
<1>2. c \in admitted => thread[c] = "none"
  BY DEF BookInv, Books, Types
<1>3. thread \in [Client -> Running \cup {"none", "ended", "dead"}]
  BY DEF BookInv, Types
<1>4. CASE thread[c] \in Running /\ thread' = [thread EXCEPT ![c] = "ended"]
  <2>1. c \in Unfinished /\ Unfinished' = Unfinished \ {c}
    BY <1>1, <1>2, <1>3, <1>4 DEF Unfinished, Running
  <2>. QED
    BY <1>1, <2>1 DEF Rounds!End, Round
<1>5. CASE \/ thread' = thread
           \/ \E p \in {"wait", "dead"} :
                thread[c] \in Running /\ thread' = [thread EXCEPT ![c] = p]
  <2>1. Unfinished' = Unfinished
    BY <1>1, <1>3, <1>5 DEF Unfinished, Running
  <2>. QED
    BY <1>1, <2>1 DEF Rounds!vars, Round
<1>. QED
  BY <1>1, <1>4, <1>5

LEMMA SameCardinality ==
  ASSUME NEW S
  PROVE  Rounds!Cardinality(S) = Cardinality(S)
BY Zenon DEF Rounds!Cardinality, Cardinality

LEMMA RoundsStep ==
  BookInv /\ [Next]_vars => [Rounds!Next]_(Rounds!vars)
<1>. SUFFICES ASSUME BookInv, [Next]_vars
              PROVE  Rounds!Next \/ UNCHANGED Rounds!vars
  OBVIOUS
<1>. USE DEF BookInv, Rounds!vars, Round
<1>1. ASSUME NEW c \in Client, Admit(c) PROVE Rounds!Next
  <2>1. Unfinished = Occupied /\ Cardinality(Unfinished) < MaxThreads
    BY <1>1 DEF Admit, MayAdmit, Counted, Unfinished, Occupied, Live
  <2>2. Unfinished' = Unfinished \cup {c}
    BY <1>1 DEF Admit, Unfinished
  <2>3. /\ main = "admit" /\ main' = main /\ c \in todo
        /\ todo' = todo \ {c} /\ aborted' = aborted
        /\ listed' \cup admitted' = (listed \cup admitted) \cup {c}
    BY <1>1 DEF Admit
  <2>4. Rounds!Download(c)
    BY <2>1, <2>2, <2>3, SameCardinality DEF Rounds!Download
  <2>. QED
    BY <2>4 DEF Rounds!Next
<1>2. ASSUME NEW c \in Client, StartDownload(c) PROVE UNCHANGED Rounds!vars
  <2>1. admitted = {c} /\ thread[c] = "none"
    BY <1>2 DEF StartDownload, Types, Books
  <2>2. Unfinished' = Unfinished
    BY <1>2, <2>1 DEF StartDownload, Types, Unfinished, Running
  <2>. QED
    BY <1>2, <2>1, <2>2 DEF StartDownload
<1>3. ASSUME NEW c \in Client, Trigger(c) PROVE Rounds!Next
  <2>1. main = "trigger" /\ admitted = {} /\ thread[c] = "ended"
    BY <1>3 DEF Trigger, Books, Phases
  <2>2. CASE thread' = thread
    <3>1. Rounds!PassOver(c)
      BY <1>3, <2>1, <2>2 DEF Trigger, Rounds!PassOver, Unfinished
    <3>. QED
      BY <3>1 DEF Rounds!Next
  <2>3. CASE thread' = [thread EXCEPT ![c] = "update"]
    <3>1. Unfinished' = Unfinished \cup {c}
      BY <1>3, <2>1, <2>3 DEF Trigger, Types, Unfinished, Running
    <3>2. Rounds!Update(c)
      BY <1>3, <2>1, <3>1 DEF Trigger, Rounds!Update
    <3>. QED
      BY <3>2 DEF Rounds!Next
  <2>. QED
    BY <1>3, <2>2, <2>3 DEF Trigger
<1>4. CASE EndAdmission
  <2>1. Unfinished' = Unfinished
    BY <1>4 DEF EndAdmission, Unfinished
  <2>2. todo = {} => UNCHANGED Rounds!vars
    BY <1>4, <2>1 DEF EndAdmission
  <2>3. aborted => Rounds!LeaveOut
    BY <1>4, <2>1 DEF EndAdmission, Rounds!LeaveOut
  <2>. QED
    BY <1>4, <2>2, <2>3 DEF EndAdmission, Rounds!Next
<1>5. CASE JoinDownloads
  <2>1. Unfinished = {} /\ Unfinished' = {} /\ admitted = {}
    BY <1>5, HomeWhenZero DEF JoinDownloads, Unfinished
  <2>2. aborted => Rounds!Finish
    BY <1>5, <2>1 DEF JoinDownloads, Rounds!Finish, Rounds!AllHome
  <2>3. ~aborted => Rounds!SecondRound
    BY <1>5, <2>1 DEF JoinDownloads, Rounds!SecondRound, Rounds!AllHome
  <2>. QED
    BY <2>2, <2>3 DEF Rounds!Next
<1>6. CASE EndTriggering
  BY <1>6 DEF EndTriggering, Unfinished
<1>7. CASE JoinUpdates
  <2>1. Unfinished = {} /\ Unfinished' = {}
    BY <1>7, HomeWhenZero DEF JoinUpdates, Unfinished
  <2>2. Rounds!Finish
    BY <1>7, <2>1 DEF JoinUpdates, Rounds!Finish, Rounds!AllHome
  <2>. QED
    BY <2>2 DEF Rounds!Next
<1>8. CASE Summary
  BY <1>8 DEF Summary, Unfinished
<1>9. CASE Signal
  BY <1>9 DEF Signal, Unfinished, Rounds!Next, Rounds!Stop
<1>10. ASSUME NEW c \in Client, ThreadStep(c) \/ Die(c)
       PROVE  Rounds!Next \/ UNCHANGED Rounds!vars
  BY <1>10, ThreadsEndOnly DEF Rounds!Next
<1>11. ASSUME NEW c \in Client, DeviceStep(c) PROVE UNCHANGED Rounds!vars
  <2>1. UNCHANGED <<script, thread>>
    BY <1>11 DEF DeviceStep, DownloadEnds, Restart, TellAgain, DeviceOnly
  <2>. QED
    BY <2>1 DEF script, Unfinished
<1>12. CASE UNCHANGED vars \/ (\E c \in Client : NoMoreAnswers(c))
  BY <1>12 DEF NoMoreAnswers, vars, script, Unfinished
<1>. QED
  BY <1>1, <1>2, <1>3, <1>4, <1>5, <1>6, <1>7, <1>8, <1>9, <1>10, <1>11,
     <1>12 DEF Next, MainStep

(* The script keeps its two rounds apart, begins every client once in the  *)
(* first and at most once in the second, leaves out nobody without a       *)
(* SIGINT, and is not over while a thread runs (run, lines 184-221).       *)
THEOREM RoundsKeptApart == Spec => ImplementsCampaign
<1>1. Init => Rounds!Init
  BY DEF Init, Rounds!Init, Round, Unfinished, Running
<1>. QED
  BY <1>1, RoundsStep, BooksKept, PTL
     DEF Spec, ImplementsCampaign, Rounds!Spec
=============================================================================
