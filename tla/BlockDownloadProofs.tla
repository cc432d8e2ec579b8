------------------------- MODULE BlockDownloadProofs -------------------------
(* Theorems about BlockDownload, for every size of bank, sector, buffer    *)
(* and block the assumption allows, any number of transfers and all the    *)
(* ways in which they go wrong.                                            *)
EXTENDS BlockDownload, TLAPS

LEMMA AlignBounds ==
  ASSUME NEW n \in Nat, NEW unit \in Nat \ {0}
  PROVE  /\ AlignUp(n, unit) \in Nat
         /\ n <= AlignUp(n, unit) /\ AlignUp(n, unit) < n + unit
         /\ AlignDown(n, unit) \in Nat
         /\ AlignDown(n, unit) <= n /\ n < AlignDown(n, unit) + unit
<1>1. unit * (n \div unit) \in Nat /\ unit * (n \div unit) <= n
      /\ n < unit * (n \div unit) + unit
  OBVIOUS
<1>2. unit * ((n + unit - 1) \div unit) \in Nat
      /\ n <= unit * ((n + unit - 1) \div unit)
      /\ unit * ((n + unit - 1) \div unit) < n + unit
  OBVIOUS
<1>. QED
  BY <1>1, <1>2 DEF AlignUp, AlignDown

LEMMA ConcatFacts ==
  ASSUME NEW S, NEW s \in Seq(S), NEW t \in Seq(S)
  PROVE  /\ s \o t \in Seq(S) /\ Len(s \o t) = Len(s) + Len(t)
         /\ \A i \in 1..Len(s \o t) :
              \/ i \in 1..Len(s) /\ (s \o t)[i] = s[i]
              \/ i - Len(s) \in 1..Len(t) /\ (s \o t)[i] = t[i - Len(s)]
  OBVIOUS

(* The cells that are known to be erased end here.                         *)
Frontier == IF Progressive THEN lastOffset ELSE Bank

(* What a call relies on: from the next address to write on, everything up *)
(* to the frontier is erased, and the statics are reset together.          *)
AheadInv ==
  /\ TypeOK
  /\ NoOverwrite
  /\ \A i \in 1..Len(buf) : buf[i] # Overwritten
  /\ verdict = "running" => xfer # 0
  /\ received = 0 => lastOffset = 0
  /\ received # 0 =>
       \A a \in Addr : written <= a /\ a < Frontier => flash[a] = Erased

-----------------------------------------------------------------------------
(* One call of the callback.                                               *)

LEMMA CallFacts ==
  ASSUME AheadInv, verdict = "running", sent < size
  PROVE  /\ Start \in Nat /\ NextLen \in 1..Block
         /\ Data \in Seq(Cell) /\ Len(Data) \in 1 .. Buf + Block - 1
         /\ \A i \in 1..Len(Data) : Data[i] # Overwritten
<1>. USE BlockAssumption DEF BlockAssumption
<1>1. Start \in Nat /\ NextLen \in 1..Block
  BY DEF AheadInv, TypeOK, Start, NextLen
<1>2. /\ Pending \in Seq(Cell) /\ Len(Pending) < Buf
      /\ \A i \in 1..Len(Pending) : Pending[i] # Overwritten
  BY DEF AheadInv, TypeOK, Pending
<1>. DEFINE fresh == [i \in 1..NextLen |-> <<xfer, sent + i - 1>>]
<1>3. /\ fresh \in Seq(Cell) /\ Len(fresh) = NextLen
      /\ \A i \in 1..NextLen : fresh[i] # Overwritten
  <2>1. xfer \in 0..MaxTransfers /\ xfer # 0 /\ sent \in Nat
    BY DEF AheadInv, TypeOK
  <2>2. \A i \in 1..NextLen : <<xfer, sent + i - 1>> \in Cell
    BY <1>1, <2>1 DEF Cell
  <2>3. \A i \in 1..NextLen : <<xfer, sent + i - 1>> # Overwritten
    BY <2>1 DEF Overwritten
  <2>. HIDE DEF Cell, Overwritten
  <2>. QED
    BY <1>1, <2>2, <2>3
<1>4. Data = Pending \o fresh
  BY DEF Data
<1>. HIDE DEF fresh
<1>5. /\ Data \in Seq(Cell) /\ Len(Data) = Len(Pending) + NextLen
      /\ \A i \in 1..Len(Data) :
           \/ i \in 1..Len(Pending) /\ Data[i] = Pending[i]
           \/ /\ i - Len(Pending) \in 1..NextLen
              /\ Data[i] = fresh[i - Len(Pending)]
  <2>. HIDE DEF Cell, Overwritten
  <2>n. Pending \in Seq(Cell) /\ fresh \in Seq(Cell)
    BY <1>2, <1>3
  <2>1. /\ Data \in Seq(Cell) /\ Len(Data) = Len(Pending) + Len(fresh)
        /\ \A i \in 1..Len(Data) :
             \/ i \in 1..Len(Pending) /\ Data[i] = Pending[i]
             \/ /\ i - Len(Pending) \in 1..Len(fresh)
                /\ Data[i] = fresh[i - Len(Pending)]
    BY <1>4, <2>n, ConcatFacts, Zenon
  <2>. QED
    BY <1>3, <2>1, Zenon
<1>6. ASSUME NEW i \in 1..Len(Data) PROVE Data[i] # Overwritten
  <2>1. CASE i \in 1..Len(Pending) /\ Data[i] = Pending[i]
    BY <1>2, <2>1, Zenon
  <2>2. CASE /\ i - Len(Pending) \in 1..NextLen
             /\ Data[i] = fresh[i - Len(Pending)]
    BY <1>3, <2>2, Zenon
  <2>. QED
    BY <1>5, <2>1, <2>2
<1>. QED
  BY <1>1, <1>2, <1>5, <1>6

(* Preparing the first block and erasing leave cells, none overwritten.    *)
LEMMA ErasedToFacts ==
  ASSUME AheadInv, NEW end
  PROVE  /\ Prepared \in [Addr -> Cell]
         /\ ErasedTo(end) \in [Addr -> Cell]
         /\ \A a \in Addr : /\ Prepared[a] # Overwritten
                            /\ ErasedTo(end)[a] # Overwritten
<1>1. Erased \in Cell /\ Torn \in Cell
      /\ Erased # Overwritten /\ Torn # Overwritten
  BY BlockAssumption DEF BlockAssumption, Cell, Erased, Torn, Overwritten
<1>2. flash \in [Addr -> Cell] /\ \A a \in Addr : flash[a] # Overwritten
  BY DEF AheadInv, TypeOK, NoOverwrite
<1>3. Prepared \in [Addr -> Cell] /\ \A a \in Addr : Prepared[a] # Overwritten
  BY <1>1, <1>2 DEF Prepared
<1>. QED
  BY <1>1, <1>3 DEF ErasedTo

(* After the erasing loop everything that the call may write is erased.    *)
LEMMA ErasedAhead ==
  ASSUME AheadInv, NEW a \in Addr, Start <= a,
         IF Progressive THEN a < EraseEnd ELSE a < Bank
  PROVE  ErasedTo(EraseEnd)[a] = Erased
<1>1. /\ lastOffset \in Nat /\ flash \in [Addr -> Cell]
      /\ received = 0 => lastOffset = 0
      /\ received # 0 =>
           \A b \in Addr : written <= b /\ b < Frontier => flash[b] = Erased
      /\ a \in Nat
  BY DEF AheadInv, TypeOK, Addr
<1>2. CASE Progressive
  <2>1. CASE lastOffset <= a
    BY <1>2, <2>1 DEF ErasedTo
  <2>2. CASE a < lastOffset
    BY <1>1, <1>2, <2>2 DEF ErasedTo, Prepared, First, Start, Frontier
  <2>. QED
    BY <1>1, <2>1, <2>2
<1>3. CASE ~Progressive
  <2>1. Prepared[a] = Erased
    BY <1>1, <1>3 DEF Prepared, First, Start, Frontier
  <2>. QED
    BY <2>1 DEF ErasedTo
<1>. QED
  BY <1>2, <1>3

(* How far the erasing loop goes.                                          *)
LEMMA EraseEndFacts ==
  ASSUME AheadInv, Start \in Nat
  PROVE  /\ EraseEnd \in Nat
         /\ Progressive => Start + Sector <= EraseEnd
<1>1. Sector \in Nat \ {0} /\ Start + Sector \in Nat /\ lastOffset \in Nat
  BY BlockAssumption DEF BlockAssumption, AheadInv, TypeOK
<1>2. AlignUp(Start + Sector, Sector) \in Nat
      /\ Start + Sector <= AlignUp(Start + Sector, Sector)
  BY <1>1, AlignBounds
<1>. QED
  BY <1>1, <1>2 DEF EraseEnd

(* Programming m cells, at most the whole block and its padding, overwrites*)
(* nothing and leaves the cells up to the new frontier erased.             *)
LEMMA ProgrammedFacts ==
  ASSUME AheadInv, verdict = "running", sent < size,
         NEW m \in Nat, m < Len(Data) + Buf, Start + m <= Bank
  PROVE  /\ Programmed(Data, m) \in [Addr -> Cell]
         /\ \A a \in Addr : Programmed(Data, m)[a] # Overwritten
         /\ \A a \in Addr :
              /\ Start + m <= a
              /\ IF Progressive THEN a < EraseEnd ELSE a < Bank
              => Programmed(Data, m)[a] = Erased
<1>1. /\ Start \in Nat /\ Data \in Seq(Cell)
      /\ Len(Data) \in 1 .. Buf + Block - 1
      /\ \A i \in 1..Len(Data) : Data[i] # Overwritten
  BY CallFacts
<1>2. EraseEnd \in Nat /\ (Progressive => Start + Sector <= EraseEnd)
  BY <1>1, EraseEndFacts
<1>3. m <= Sector
  BY <1>1, BlockAssumption DEF BlockAssumption
<1>. DEFINE before == ErasedTo(EraseEnd)
            new(a) == IF a - Start < Len(Data) THEN Data[a - Start + 1]
                      ELSE Erased
<1>4. before \in [Addr -> Cell] /\ \A a \in Addr : before[a] # Overwritten
  BY ErasedToFacts
<1>5. \A a \in Addr : a \in Nat
  BY DEF Addr
<1>6. Sector \in Nat /\ Bank \in Nat
  BY BlockAssumption DEF BlockAssumption
<1>7. ASSUME NEW a \in Addr, Start <= a, a < Start + m
      PROVE  before[a] = Erased
  BY <1>1, <1>2, <1>3, <1>5, <1>6, <1>7, ErasedAhead
<1>8. ASSUME NEW a \in Addr, Start <= a, a < Start + m
      PROVE  new(a) \in Cell /\ new(a) # Overwritten
  <2>1. Erased \in Cell /\ Erased # Overwritten
    BY BlockAssumption DEF BlockAssumption, Cell, Erased, Overwritten
  <2>2. a - Start + 1 \in Nat \ {0}
    BY <1>1, <1>5, <1>8
  <2>. QED
    BY <1>1, <1>5, <1>8, <2>1, <2>2
<1>9. ASSUME NEW a \in Addr
      PROVE  Programmed(Data, m)[a] =
               IF Start <= a /\ a < Start + m
               THEN Program(before[a], new(a)) ELSE before[a]
  BY DEF Programmed
<1>10. ASSUME NEW a \in Addr
       PROVE  /\ Programmed(Data, m)[a] \in Cell
              /\ Programmed(Data, m)[a] # Overwritten
  BY <1>4, <1>7, <1>8, <1>9 DEF Program
<1>11. Programmed(Data, m) = [a \in Addr |-> Programmed(Data, m)[a]]
  BY DEF Programmed
<1>12. ASSUME NEW a \in Addr, Start + m <= a,
              IF Progressive THEN a < EraseEnd ELSE a < Bank
       PROVE  Programmed(Data, m)[a] = Erased
  <2>1. Start <= a /\ ~(a < Start + m)
    BY <1>1, <1>5, <1>12
  <2>. QED
    BY <1>9, <1>12, <2>1, ErasedAhead
<1>. QED
  BY <1>10, <1>11, <1>12

LEMMA ToWriteFacts ==
  ASSUME NEW n \in Nat, NEW last \in BOOLEAN
  PROVE  /\ ToWrite(n, last) \in Nat /\ ToWrite(n, last) < n + Buf
         /\ ~last => ToWrite(n, last) <= n /\ n < ToWrite(n, last) + Buf
<1>1. Buf \in Nat \ {0}
  BY BlockAssumption DEF BlockAssumption
<1>2. AlignUp(n, Buf) \in Nat /\ AlignUp(n, Buf) < n + Buf
  BY <1>1, AlignBounds
<1>3. AlignDown(n, Buf) \in Nat /\ AlignDown(n, Buf) <= n
      /\ n < AlignDown(n, Buf) + Buf
  BY <1>1, AlignBounds
<1>4. CASE last
  BY <1>1, <1>2, <1>4 DEF ToWrite
<1>5. CASE ~last
  BY <1>1, <1>3, <1>5 DEF ToWrite
<1>. QED
  BY <1>4, <1>5

LEMMA RestFacts ==
  ASSUME NEW S, NEW s \in Seq(S), NEW n \in Nat, n <= Len(s)
  PROVE  /\ SubSeq(s, n + 1, Len(s)) \in Seq(S)
         /\ Len(SubSeq(s, n + 1, Len(s))) = Len(s) - n
         /\ \A i \in 1 .. Len(s) - n : SubSeq(s, n + 1, Len(s))[i] = s[n + i]
  OBVIOUS

-----------------------------------------------------------------------------
LEMMA AheadInit == Init => AheadInv
<1>. SUFFICES ASSUME Init PROVE AheadInv
  OBVIOUS
<1>. USE BlockAssumption DEF BlockAssumption
<1>1. Old \in Cell /\ Foreign \in Cell
      /\ Old # Overwritten /\ Foreign # Overwritten
  BY DEF Cell, Old, Foreign, Overwritten
<1>2. flash \in [Addr -> Cell] /\ NoOverwrite
  BY <1>1 DEF Init, NoOverwrite
<1>3. buf \in Seq(Cell) /\ Len(buf) = 0
  BY DEF Init
<1>4. leftover \in BOOLEAN
  BY DEF Init
<1>. QED
  BY <1>2, <1>3, <1>4 DEF Init, AheadInv, TypeOK, Verdict

(* A call that goes through the cleanup needs only say what is in flash.   *)
LEMMA CleanUpKeepsInv ==
  ASSUME AheadInv, CleanUp, UNCHANGED <<xfer, size, told, leftover>>,
         flash' \in [Addr -> Cell], \A a \in Addr : flash'[a] # Overwritten,
         sent' \in Nat, verdict' \in Verdict \ {"running"}
  PROVE  AheadInv'
<1>1. buf' \in Seq(Cell) /\ Len(buf') = 0
  BY DEF CleanUp
<1>2. leftover' \in BOOLEAN
  BY DEF AheadInv, TypeOK
<1>3. NoOverwrite'
  BY DEF NoOverwrite
<1>. QED
  BY <1>1, <1>2, <1>3, BlockAssumption
     DEF BlockAssumption, AheadInv, TypeOK, CleanUp

(* Nothing the callback relies on changes while it is not called.          *)
LEMMA OutsideKeepsInv ==
  ASSUME AheadInv, UNCHANGED <<flash, statics, ended>>,
         xfer' \in 0..MaxTransfers, size' \in Nat, told' \in Nat,
         sent' \in Nat, verdict' \in Verdict, leftover' \in BOOLEAN,
         verdict' = "running" => xfer' # 0
  PROVE  AheadInv'
  BY DEF AheadInv, TypeOK, NoOverwrite, Frontier, statics

LEMMA ReceiveKeepsInv ==
  ASSUME AheadInv, NEW last \in BOOLEAN, ReceiveBlock(last)
  PROVE  AheadInv'
<1>. DEFINE n == ToWrite(Len(Data), last)
<1>1. verdict = "running" /\ sent < size
  BY DEF ReceiveBlock
<1>2. /\ Start \in Nat /\ NextLen \in 1..Block /\ Data \in Seq(Cell)
      /\ Len(Data) \in 1 .. Buf + Block - 1
      /\ \A i \in 1..Len(Data) : Data[i] # Overwritten
  BY <1>1, CallFacts
<1>3. /\ n \in Nat /\ n < Len(Data) + Buf
      /\ ~last => n <= Len(Data) /\ Len(Data) < n + Buf
  BY <1>2, ToWriteFacts
<1>4. Start + n <= Bank /\ flash' = Programmed(Data, n)
  BY DEF ReceiveBlock
<1>5. /\ flash' \in [Addr -> Cell]
      /\ \A a \in Addr : flash'[a] # Overwritten
      /\ \A a \in Addr : /\ Start + n <= a
                         /\ IF Progressive THEN a < EraseEnd ELSE a < Bank
                         => flash'[a] = Erased
  BY <1>1, <1>3, <1>4, ProgrammedFacts
<1>6. sent' \in Nat /\ UNCHANGED <<xfer, size, told, leftover>>
  BY <1>2, BlockAssumption
     DEF BlockAssumption, ReceiveBlock, AheadInv, TypeOK
<1>7. CASE last
  <2>1. CleanUp /\ verdict' \in Verdict \ {"running"}
    BY <1>7 DEF ReceiveBlock, Verdict
  <2>. QED
    BY <1>5, <1>6, <2>1, CleanUpKeepsInv
<1>8. CASE ~last
  <2>1. /\ received' = received + NextLen /\ lastOffset' = EraseEnd
        /\ written' = Start + n /\ buf' = SubSeq(Data, n + 1, Len(Data))
        /\ verdict' = verdict /\ ended' = ended
    BY <1>8 DEF ReceiveBlock
  <2>2. /\ buf' \in Seq(Cell) /\ Len(buf') < Buf
        /\ \A i \in 1..Len(buf') : buf'[i] # Overwritten
    <3>. HIDE DEF n
    <3>1. /\ buf' \in Seq(Cell) /\ Len(buf') = Len(Data) - n
          /\ \A i \in 1 .. Len(Data) - n : buf'[i] = Data[n + i]
      BY <1>2, <1>3, <1>8, <2>1, RestFacts
    <3>2. Len(buf') < Buf
      <4>1. Len(Data) \in Nat /\ Buf \in Nat
        BY <1>2, BlockAssumption DEF BlockAssumption
      <4>. QED
        BY <1>3, <1>8, <3>1, <4>1
    <3>3. \A i \in 1 .. Len(Data) - n : n + i \in 1..Len(Data)
      BY <1>2, <1>3
    <3>. QED
      BY <1>2, <3>1, <3>2, <3>3
  <2>3. received' \in Nat /\ received' # 0
    BY <1>2, <2>1, BlockAssumption DEF BlockAssumption, AheadInv, TypeOK
  <2>4. lastOffset' \in Nat /\ written' \in Nat
    BY <1>2, <1>3, <2>1, EraseEndFacts
  <2>5. \A a \in Addr : written' <= a /\ a < Frontier' => flash'[a] = Erased
    BY <1>5, <2>1 DEF Frontier
  <2>6. TypeOK'
    <3>1. leftover' \in BOOLEAN
      BY <1>6 DEF AheadInv, TypeOK
    <3>. QED
      BY <1>5, <1>6, <2>1, <2>2, <2>3, <2>4, <3>1 DEF AheadInv, TypeOK
  <2>7. NoOverwrite'
    BY <1>5 DEF NoOverwrite
  <2>. QED
    BY <1>6, <2>1, <2>2, <2>3, <2>5, <2>6, <2>7 DEF AheadInv
<1>. QED
  BY <1>7, <1>8

LEMMA FailureKeepsInv ==
  ASSUME AheadInv, NEW last \in BOOLEAN, BlockFails(last)
  PROVE  AheadInv'
<1>. DEFINE n == ToWrite(Len(Data), last)
<1>1. /\ verdict = "running" /\ sent < size /\ CleanUp
      /\ verdict' \in {"refused", "failed"}
      /\ UNCHANGED <<xfer, size, told, leftover>>
  BY DEF BlockFails
<1>2. Start \in Nat /\ Len(Data) \in Nat /\ NextLen \in Nat
  BY <1>1, CallFacts, BlockAssumption DEF BlockAssumption
<1>3. n \in Nat /\ n < Len(Data) + Buf
  BY <1>2, ToWriteFacts
<1>. DEFINE Intact == /\ flash' \in [Addr -> Cell]
                      /\ \A a \in Addr : flash'[a] # Overwritten
<1>4. Intact
  <2>1. ASSUME NEW k, flash' = PreparedTo(k)
        PROVE  Intact
    <3>1. flash \in [Addr -> Cell] /\ \A a \in Addr : flash[a] # Overwritten
      BY DEF AheadInv, TypeOK, NoOverwrite
    <3>. QED
      BY <2>1, <3>1, ErasedToFacts DEF PreparedTo
  <2>2. ASSUME NEW k, flash' = ErasedTo(lastOffset + Sector * k)
        PROVE  Intact
    BY <2>2, ErasedToFacts
  <2>3. ASSUME NEW k \in 0 .. n \div Buf, Buf * k < n,
               Start + Buf * k <= Bank, flash' = Programmed(Data, Buf * k)
        PROVE  Intact
    <3>1. Buf * k \in Nat
      BY <1>3, BlockAssumption DEF BlockAssumption
    <3>2. Buf * k < Len(Data) + Buf
      BY <1>2, <1>3, <2>3, <3>1, BlockAssumption DEF BlockAssumption
    <3>. QED
      BY <1>1, <2>3, <3>1, <3>2, ProgrammedFacts
  <2>. QED
    BY <2>1, <2>2, <2>3 DEF BlockFails
<1>5. sent' \in Nat
  BY <1>2 DEF BlockFails, AheadInv, TypeOK
<1>. QED
  BY <1>1, <1>4, <1>5, CleanUpKeepsInv DEF Verdict

LEMMA AheadStep == AheadInv /\ [Next]_vars => AheadInv'
<1>. SUFFICES ASSUME AheadInv, [Next]_vars PROVE AheadInv'
  OBVIOUS
<1>t. /\ xfer \in 0..MaxTransfers /\ size \in Nat /\ told \in Nat
      /\ sent \in Nat /\ verdict \in Verdict /\ leftover \in BOOLEAN
      /\ verdict = "running" => xfer # 0
  BY DEF AheadInv, TypeOK
<1>1. CASE Begin
  <2>1. xfer' \in 0..MaxTransfers /\ xfer' # 0
    BY <1>1, <1>t, BlockAssumption DEF Begin, BlockAssumption
  <2>2. size' \in Nat /\ told' \in Nat /\ sent' \in Nat
    BY <1>1, BlockAssumption DEF Begin, BlockAssumption
  <2>3. verdict' \in Verdict /\ UNCHANGED <<flash, statics, ended>>
    BY <1>1 DEF Begin, Verdict
  <2>4. leftover' \in BOOLEAN
    BY <1>1 DEF Begin
  <2>. QED
    BY <2>1, <2>2, <2>3, <2>4, OutsideKeepsInv
<1>2. CASE DeclineBlock
  BY <1>2, <1>t, OutsideKeepsInv DEF DeclineBlock, transfer, Verdict
<1>3. CASE EmptyBlock
  BY <1>3, <1>t, OutsideKeepsInv DEF EmptyBlock, transfer, Verdict
<1>4. CASE GiveUp
  BY <1>4, <1>t, OutsideKeepsInv DEF GiveUp, transfer, Verdict
<1>5. CASE Reset
  <2>1. flash' \in [Addr -> Cell] /\ \A a \in Addr : flash'[a] # Overwritten
    BY <1>5 DEF Reset, AheadInv, TypeOK, NoOverwrite
  <2>. QED
    BY <1>5, <1>t, <2>1, CleanUpKeepsInv DEF Reset, transfer, Verdict
<1>6. ASSUME NEW last \in BOOLEAN, ReceiveBlock(last) PROVE AheadInv'
  BY <1>6, ReceiveKeepsInv
<1>7. ASSUME NEW last \in BOOLEAN, BlockFails(last) PROVE AheadInv'
  BY <1>7, FailureKeepsInv
<1>8. CASE UNCHANGED vars
  BY <1>8, <1>t, OutsideKeepsInv DEF vars, transfer
<1>. QED
  BY <1>1, <1>2, <1>3, <1>4, <1>5, <1>6, <1>7, <1>8 DEF Next

(* The statics keep their types; the buffer of dfu_ctx never fills up      *)
(* between two calls of firmware_block_received_cb.                        *)
THEOREM TypeCorrect == Spec => []TypeOK
<1>1. AheadInv => TypeOK
  BY DEF AheadInv
<1>. QED
  BY <1>1, AheadInit, AheadStep, PTL DEF Spec

(* Neither way of erasing bank 1 ever lets firmware_block_received_cb      *)
(* program a cell twice, whatever transfers are given up, cut short or     *)
(* fail half way.                                                          *)
THEOREM NeverOverwrites == Spec => []NoOverwrite
<1>1. AheadInv => NoOverwrite
  BY DEF AheadInv
<1>. QED
  BY <1>1, AheadInit, AheadStep, PTL DEF Spec

-----------------------------------------------------------------------------
(* What is gathered.  The statics have counted the cells of the present    *)
(* transfer, unless an abandoned one left them: then they are ahead of it, *)
(* and its length can no longer come out right.                            *)
Gathered ==
  /\ written + Len(buf) = received
  /\ \A a \in 0 .. written - 1 : flash[a] = <<xfer, a>>
  /\ \A i \in 1..Len(buf) : buf[i] = <<xfer, written + i - 1>>

Counting ==
  /\ verdict \in {"accepted", "refused", "failed", "reset"} => received = 0
  /\ verdict = "dropped" => received # 0
  /\ verdict = "declined" => (leftover <=> received # 0)
  /\ verdict = "running" /\ leftover => received > sent
  /\ verdict = "running" /\ ~leftover => received = sent

Announced ==
  /\ told \in {0, size} /\ (told = 0 => size <= Block)
  /\ sent <= size
  /\ verdict = "running" /\ told > Bank => sent = 0

WholeInv ==
  /\ AheadInv /\ Announced /\ Counting
  /\ verdict = "running" /\ ~leftover /\ received # 0 => Gathered
  /\ received # 0 /\ Progressive => written <= lastOffset
  /\ received # 0 => \E q \in Nat : written = Buf * q
  /\ AcceptedIsWhole /\ CompleteIsAccepted

LEMMA MultiplesFit ==
  ASSUME NEW unit \in Nat \ {0}, NEW q \in Nat, NEW b \in Nat, NEW l \in Nat,
         unit * q + l <= unit * b
  PROVE  unit * q + AlignUp(l, unit) <= unit * b
<1>. DEFINE k == (l + unit - 1) \div unit
<1>1. k \in Nat /\ AlignUp(l, unit) = unit * k /\ unit * k < l + unit
  <2>1. AlignUp(l, unit) < l + unit
    BY AlignBounds
  <2>2. k \in Nat
    OBVIOUS
  <2>. QED
    BY <2>1, <2>2 DEF AlignUp
<1>2. unit * q + unit * k < unit * b + unit
  BY <1>1
<1>. HIDE DEF k
<1>3. unit * (q + k) < unit * (b + 1)
  BY <1>1, <1>2
<1>4. q + k < b + 1
  BY <1>1, <1>3
<1>5. unit * (q + k) <= unit * b
  BY <1>1, <1>4
<1>. QED
  BY <1>1, <1>5

LEMMA Multiple ==
  ASSUME NEW n \in Nat, NEW unit \in Nat \ {0}, n % unit = 0
  PROVE  \E b \in Nat : n = unit * b
<1>1. n = unit * (n \div unit) + (n % unit) /\ n \div unit \in Nat
  OBVIOUS
<1>. QED
  BY <1>1

(* A block of the present transfer continues what is there.                *)
LEMMA DataFacts ==
  ASSUME WholeInv, verdict = "running", sent < size, ~leftover
  PROVE  /\ Start + Len(Data) = sent + NextLen
         /\ \A i \in 1..Len(Data) : Data[i] = <<xfer, Start + i - 1>>
         /\ \A a \in 0 .. Start - 1 : flash[a] = <<xfer, a>>
<1>1. /\ NextLen \in 1..Block /\ Start \in Nat
      /\ xfer \in 0..MaxTransfers /\ sent \in Nat /\ received = sent
      /\ written \in Nat /\ buf \in Seq(Cell)
  BY CallFacts DEF WholeInv, Counting, AheadInv, TypeOK
<1>. DEFINE fresh == [i \in 1..NextLen |-> <<xfer, sent + i - 1>>]
<1>2. /\ Pending \in Seq(Cell) /\ Start + Len(Pending) = sent
      /\ \A i \in 1..Len(Pending) : Pending[i] = <<xfer, Start + i - 1>>
      /\ \A a \in 0 .. Start - 1 : flash[a] = <<xfer, a>>
  <2>1. verdict = "running" /\ ~leftover /\ received # 0 => Gathered
    BY DEF WholeInv
  <2>2. CASE received = 0
    BY <1>1, <2>2 DEF First, Start, Pending
  <2>3. CASE received # 0
    BY <1>1, <2>1, <2>3 DEF Gathered, First, Start, Pending
  <2>. QED
    BY <2>2, <2>3
<1>3. /\ fresh \in Seq(Cell) /\ Len(fresh) = NextLen
      /\ \A i \in 1..NextLen : fresh[i] = <<xfer, sent + i - 1>>
  <2>1. NextLen \in Nat /\ \A i \in 1..NextLen : <<xfer, sent + i - 1>> \in Cell
    BY <1>1, BlockAssumption DEF BlockAssumption, Cell
  <2>. QED
    BY <2>1
<1>4. Data = Pending \o fresh
  BY DEF Data
<1>. HIDE DEF fresh
<1>5. /\ Len(Data) = Len(Pending) + NextLen
      /\ \A i \in 1..Len(Data) :
           \/ i \in 1..Len(Pending) /\ Data[i] = Pending[i]
           \/ /\ i - Len(Pending) \in 1..NextLen
              /\ Data[i] = fresh[i - Len(Pending)]
  <2>1. /\ Len(Pending \o fresh) = Len(Pending) + Len(fresh)
        /\ \A i \in 1..Len(Pending \o fresh) :
             \/ i \in 1..Len(Pending) /\ (Pending \o fresh)[i] = Pending[i]
             \/ /\ i - Len(Pending) \in 1..Len(fresh)
                /\ (Pending \o fresh)[i] = fresh[i - Len(Pending)]
    BY <1>2, <1>3, ConcatFacts
  <2>. QED
    BY <1>3, <1>4, <2>1, Zenon
<1>6. ASSUME NEW i \in 1..Len(Data)
      PROVE  Data[i] = <<xfer, Start + i - 1>>
  <2>1. Len(Pending) \in Nat
    BY <1>2
  <2>2. CASE i \in 1..Len(Pending)
    BY <1>2, <1>5, <2>1, <2>2
  <2>3. CASE i \notin 1..Len(Pending)
    <3>1. /\ i - Len(Pending) \in 1..NextLen
          /\ Data[i] = fresh[i - Len(Pending)]
      BY <1>5, <1>6, <2>3
    <3>2. Data[i] = <<xfer, sent + (i - Len(Pending)) - 1>>
      BY <1>3, <3>1
    <3>3. sent + (i - Len(Pending)) - 1 = Start + i - 1
      <4>1. Start + Len(Pending) = sent
        BY <1>2
      <4>. QED
        BY <1>1, <2>1, <4>1
    <3>. QED
      BY <3>2, <3>3
  <2>. QED
    BY <2>2, <2>3
<1>7. Start + Len(Data) = sent + NextLen
  <2>1. Len(Data) = Len(Pending) + NextLen /\ Start + Len(Pending) = sent
    BY <1>2, <1>5
  <2>2. Len(Pending) \in Nat /\ NextLen \in Nat
    BY <1>1, <1>2, BlockAssumption DEF BlockAssumption
  <2>. QED
    BY <1>1, <2>1, <2>2
<1>. QED
  BY <1>2, <1>6, <1>7

(* What has been written is not erased again.                              *)
LEMMA KeptBelow ==
  ASSUME WholeInv, NEW a \in Addr, a < Start
  PROVE  ErasedTo(EraseEnd)[a] = flash[a]
<1>1. /\ a \in Nat /\ lastOffset \in Nat /\ written \in Nat
  BY DEF WholeInv, AheadInv, TypeOK, Addr
<1>2. received # 0 /\ Start = written /\ Prepared = flash
  BY <1>1 DEF Start, First, Prepared
<1>3. ~(lastOffset <= a /\ a < EraseEnd)
  <2>1. CASE Progressive
    BY <1>1, <1>2, <2>1 DEF WholeInv
  <2>2. CASE ~Progressive
    BY <1>1, <2>2 DEF EraseEnd
  <2>. QED
    BY <2>1, <2>2
<1>. QED
  BY <1>2, <1>3 DEF ErasedTo

LEMMA ContentFacts ==
  ASSUME WholeInv, verdict = "running", sent < size, ~leftover,
         NEW m \in Nat, m < Len(Data) + Buf, Start + m <= Bank,
         NEW a \in Addr, a < Start + m, a < Start + Len(Data)
  PROVE  Programmed(Data, m)[a] = <<xfer, a>>
<1>1. /\ Start \in Nat /\ Len(Data) \in 1 .. Buf + Block - 1
      /\ a \in Nat /\ xfer \in Nat /\ xfer # 0
  BY CallFacts DEF WholeInv, AheadInv, TypeOK, Addr
<1>. DEFINE before == ErasedTo(EraseEnd)
            new == IF a - Start < Len(Data) THEN Data[a - Start + 1]
                   ELSE Erased
<1>2. Programmed(Data, m)[a] =
        IF Start <= a /\ a < Start + m THEN Program(before[a], new)
                                       ELSE before[a]
  BY DEF Programmed
<1>3. CASE a < Start
  <2>1. before[a] = flash[a] /\ a \in 0 .. Start - 1
    BY <1>1, <1>3, KeptBelow
  <2>2. ~(Start <= a)
    BY <1>1, <1>3
  <2>3. Programmed(Data, m)[a] = flash[a]
    BY <1>2, <2>1, <2>2, Zenon
  <2>4. flash[a] = <<xfer, a>>
    BY <2>1, DataFacts, Zenon
  <2>. QED
    BY <2>3, <2>4
<1>4. CASE Start <= a
  <2>1. before[a] = Erased
    <3>1. m <= Sector /\ Sector \in Nat /\ Bank \in Nat
      BY <1>1, BlockAssumption DEF BlockAssumption
    <3>2. EraseEnd \in Nat /\ (Progressive => Start + Sector <= EraseEnd)
      BY <1>1, EraseEndFacts DEF WholeInv
    <3>. QED
      BY <1>1, <1>4, <3>1, <3>2, ErasedAhead DEF WholeInv
  <2>2. new = <<xfer, a>>
    <3>1. a - Start + 1 \in 1..Len(Data) /\ a - Start < Len(Data)
      BY <1>1, <1>4
    <3>2. Data[a - Start + 1] = <<xfer, Start + (a - Start + 1) - 1>>
      BY <3>1, DataFacts
    <3>3. Start + (a - Start + 1) - 1 = a
      BY <1>1
    <3>. QED
      BY <3>1, <3>2, <3>3
  <2>3. <<xfer, a>> # Erased
    BY <1>1 DEF Erased
  <2>. QED
    BY <1>2, <1>4, <2>1, <2>2, <2>3 DEF Program
<1>. QED
  BY <1>1, <1>3, <1>4

-----------------------------------------------------------------------------
LEMMA WholeInit == Init => WholeInv
<1>. SUFFICES ASSUME Init PROVE WholeInv
  OBVIOUS
<1>1. AheadInv
  BY AheadInit
<1>2. 0 <= Block /\ 0 <= 0
  BY BlockAssumption DEF BlockAssumption
<1>. QED
  BY <1>1, <1>2
     DEF Init, WholeInv, Announced, Counting, AcceptedIsWhole,
         CompleteIsAccepted

(* Nothing is written while the callback is not called.                    *)
LEMMA OutsideKeepsWhole ==
  ASSUME WholeInv, AheadInv', UNCHANGED <<flash, statics, xfer>>,
         Announced', Counting', verdict' \notin {"accepted", "refused"},
         verdict' # "running"
  PROVE  WholeInv'
<1>. /\ UNCHANGED <<received, lastOffset, written>>
     /\ verdict' # "accepted" /\ verdict' # "refused"
  BY DEF statics
<1>1. AcceptedIsWhole' /\ CompleteIsAccepted'
  BY DEF AcceptedIsWhole, CompleteIsAccepted
<1>. QED
  BY <1>1 DEF WholeInv

LEMMA BeginKeepsWhole ==
  ASSUME WholeInv, Begin, AheadInv'
  PROVE  WholeInv'
<1>. /\ Bank \in Nat /\ Block \in Nat
     /\ received \in Nat /\ verdict \in Verdict /\ leftover \in BOOLEAN
  BY BlockAssumption DEF BlockAssumption, WholeInv, AheadInv, TypeOK
<1>1. /\ verdict # "running" /\ verdict' = "running" /\ sent' = 0
      /\ received' = received /\ written' = written
      /\ lastOffset' = lastOffset
      /\ leftover' <=> verdict = "dropped" \/ (verdict = "declined" /\ leftover)
  BY DEF Begin, statics
<1>2. leftover' <=> received # 0
  BY <1>1 DEF WholeInv, Counting, Verdict
<1>3. Counting'
  <2>1. leftover' => received' > sent'
    BY <1>1, <1>2
  <2>2. ~leftover' => received' = sent'
    BY <1>1, <1>2
  <2>. QED
    BY <1>1, <2>1, <2>2 DEF Counting
<1>4. Announced'
  <2>1. size' \in Nat /\ told' \in {0, size'} /\ (told' = 0 => size' <= Block)
    BY DEF Begin
  <2>2. sent' <= size'
    BY <1>1, <2>1
  <2>. QED
    BY <1>1, <2>1, <2>2 DEF Announced
<1>5. AcceptedIsWhole' /\ CompleteIsAccepted'
  BY <1>1 DEF AcceptedIsWhole, CompleteIsAccepted
<1>. QED
  BY <1>1, <1>2, <1>3, <1>4, <1>5 DEF WholeInv

(* A call that does not end the transfer.                                  *)
LEMMA MiddleKeepsWhole ==
  ASSUME WholeInv, ReceiveBlock(FALSE), AheadInv'
  PROVE  WholeInv'
<1>. DEFINE n == ToWrite(Len(Data), FALSE)
<1>1. /\ verdict = "running" /\ sent < size /\ told <= Bank
      /\ Start + n <= Bank /\ flash' = Programmed(Data, n)
      /\ sent' = sent + NextLen /\ received' = received + NextLen
      /\ lastOffset' = EraseEnd /\ written' = Start + n
      /\ buf' = SubSeq(Data, n + 1, Len(Data)) /\ verdict' = verdict
      /\ UNCHANGED <<xfer, size, told, leftover>>
  BY DEF ReceiveBlock
<1>2. /\ Start \in Nat /\ NextLen \in 1..Block /\ Data \in Seq(Cell)
      /\ Len(Data) \in 1 .. Buf + Block - 1 /\ AheadInv
  BY <1>1, CallFacts DEF WholeInv
<1>3. /\ n \in Nat /\ n < Len(Data) + Buf
      /\ n <= Len(Data) /\ Len(Data) < n + Buf
  <2>1. Len(Data) \in Nat /\ Buf \in Nat \ {0}
    BY <1>2, BlockAssumption DEF BlockAssumption
  <2>2. n = AlignDown(Len(Data), Buf)
    BY DEF ToWrite
  <2>3. /\ AlignDown(Len(Data), Buf) \in Nat
        /\ AlignDown(Len(Data), Buf) <= Len(Data)
        /\ Len(Data) < AlignDown(Len(Data), Buf) + Buf
    BY <2>1, AlignBounds
  <2>. HIDE DEF n
  <2>4. n \in Nat /\ n <= Len(Data) /\ Len(Data) < n + Buf
    BY <2>2, <2>3
  <2>. QED
    BY <2>1, <2>4
<1>4. /\ Bank \in Nat /\ Sector \in Nat /\ Buf \in Nat \ {0} /\ Block \in Nat
      /\ NextLen \in Nat \ {0} /\ sent \in Nat /\ size \in Nat
      /\ received \in Nat /\ told \in Nat /\ xfer \in Nat
  BY <1>2, BlockAssumption
     DEF BlockAssumption, AheadInv, TypeOK
<1>5. NextLen <= size - sent
  BY <1>1, <1>4 DEF NextLen
<1>6. Announced'
  <2>1. sent + NextLen <= size /\ ~(told > Bank)
    BY <1>1, <1>4, <1>5
  <2>. QED
    BY <1>1, <2>1 DEF Announced, WholeInv
<1>7. Counting'
  <2>1. received > sent => received + NextLen > sent + NextLen
    BY <1>4
  <2>. QED
    BY <1>1, <2>1 DEF Counting, WholeInv
<1>8. Progressive => written' <= lastOffset'
  <2>. HIDE DEF n
  <2>1. EraseEnd \in Nat /\ (Progressive => Start + Sector <= EraseEnd)
    BY <1>2, EraseEndFacts
  <2>2. n <= Sector
    BY <1>2, <1>3, <1>4, BlockAssumption DEF BlockAssumption
  <2>3. Progressive => Start + n <= EraseEnd
    BY <1>2, <1>3, <1>4, <2>1, <2>2
  <2>. QED
    BY <1>1, <2>3
<1>9. \E q \in Nat : written' = Buf * q
  <2>1. PICK q \in Nat : Start = Buf * q
    <3>1. 0 = Buf * 0
      BY <1>4
    <3>. QED
      BY <3>1 DEF WholeInv, Start, First
  <2>2. n = Buf * (Len(Data) \div Buf) /\ Len(Data) \div Buf \in Nat
    BY <1>2, <1>4 DEF ToWrite, AlignDown
  <2>3. PICK d \in Nat : n = Buf * d
    BY <2>2
  <2>. HIDE DEF n
  <2>4. Start + n = Buf * (q + d) /\ q + d \in Nat
    <3>1. Buf * q + Buf * d = Buf * (q + d)
      BY <1>4
    <3>. QED
      BY <2>1, <2>3, <3>1
  <2>. QED
    BY <1>1, <2>4
<1>10. ~leftover => Gathered'
  <2>. SUFFICES ASSUME ~leftover PROVE Gathered'
    OBVIOUS
  <2>1. /\ Start + Len(Data) = sent + NextLen /\ received = sent
        /\ \A i \in 1..Len(Data) : Data[i] = <<xfer, Start + i - 1>>
    BY <1>1, DataFacts DEF WholeInv, Counting
  <2>. HIDE DEF n
  <2>2. /\ Len(buf') = Len(Data) - n
        /\ \A i \in 1 .. Len(Data) - n : buf'[i] = Data[n + i]
    BY <1>1, <1>2, <1>3, RestFacts
  <2>3. ASSUME NEW i \in 1..Len(buf')
        PROVE  buf'[i] = <<xfer, Start + n + i - 1>>
    <3>1. i \in 1 .. Len(Data) - n
      BY <2>2
    <3>2. n + i \in 1..Len(Data)
      BY <1>2, <1>3, <3>1
    <3>3. buf'[i] = <<xfer, Start + (n + i) - 1>>
      BY <2>1, <2>2, <3>1, <3>2
    <3>4. Start + (n + i) - 1 = Start + n + i - 1
      BY <1>2, <1>3, <3>1
    <3>. QED
      BY <3>3, <3>4
  <2>4. ASSUME NEW a \in 0 .. Start + n - 1
        PROVE  flash'[a] = <<xfer, a>>
    <3>1. a \in Addr /\ a < Start + n /\ a < Start + Len(Data)
      BY <1>1, <1>2, <1>3, <1>4 DEF Addr
    <3>. QED
      BY <1>1, <1>3, <3>1, ContentFacts
  <2>5. Start + n + (Len(Data) - n) = received + NextLen
    <3>1. Start + Len(Data) = received + NextLen
      BY <2>1
    <3>2. Start \in Nat /\ Len(Data) \in Nat /\ n \in Nat
      BY <1>2, <1>3, <1>4
    <3>3. Start + n + (Len(Data) - n) = Start + Len(Data)
      BY <3>2
    <3>. QED
      BY <3>1, <3>3
  <2>6. /\ written' + Len(buf') = received'
        /\ \A a \in 0 .. written' - 1 : flash'[a] = <<xfer', a>>
    <3>1. \A a \in 0 .. written' - 1 : flash'[a] = <<xfer', a>>
      <4>1. written' = Start + n /\ xfer' = xfer
        BY <1>1
      <4>2. ASSUME NEW a \in 0 .. written' - 1
            PROVE  flash'[a] = <<xfer', a>>
        <5>1. a \in 0 .. Start + n - 1
          <6>1. PICK w \in Nat : w = written' /\ w = Start + n
            BY <1>2, <1>3, <4>1
          <6>2. a \in 0 .. w - 1
            BY <4>2, <6>1, Zenon
          <6>. QED
            BY <1>2, <1>3, <6>1, <6>2
        <5>. QED
          BY <2>4, <4>1, <5>1
      <4>. QED
        BY <4>2
    <3>2. written' + Len(buf') = Start + n + (Len(Data) - n)
      BY <1>1, <2>2, Zenon
    <3>. QED
      BY <1>1, <2>5, <3>1, <3>2, Zenon
  <2>7. \A i \in 1..Len(buf') : buf'[i] = <<xfer', written' + i - 1>>
    BY <1>1, <2>3
  <2>. QED
    BY <2>6, <2>7 DEF Gathered
<1>11. AcceptedIsWhole' /\ CompleteIsAccepted'
  BY <1>1 DEF AcceptedIsWhole, CompleteIsAccepted
<1>. QED
  BY <1>1, <1>6, <1>7, <1>8, <1>9, <1>10, <1>11 DEF WholeInv

(* A call that ends it, whichever way.                                     *)
LEMMA EndKeepsWhole ==
  ASSUME WholeInv, AheadInv', CleanUp, sent' = sent + NextLen,
         verdict = "running", sent < size, told <= Bank,
         verdict' \in {"accepted", "refused", "failed"},
         UNCHANGED <<xfer, size, told, leftover>>,
         AcceptedIsWhole', CompleteIsAccepted'
  PROVE  WholeInv'
<1>1. /\ received' = 0 /\ sent + NextLen <= size
  <2>1. sent \in Nat /\ size \in Nat /\ Block \in Nat
    BY BlockAssumption DEF BlockAssumption, WholeInv, AheadInv, TypeOK
  <2>2. NextLen = IF size - sent < Block THEN size - sent ELSE Block
    BY DEF NextLen
  <2>3. NextLen \in Nat /\ NextLen <= size - sent
    BY <2>1, <2>2
  <2>. QED
    BY <2>1, <2>3 DEF CleanUp
<1>2. Announced' /\ Counting'
  BY <1>1 DEF WholeInv, Announced, Counting
<1>. QED
  BY <1>1, <1>2 DEF WholeInv

LEMMA LastKeepsWhole ==
  ASSUME WholeInv, ReceiveBlock(TRUE), AheadInv'
  PROVE  WholeInv'
<1>. DEFINE n == ToWrite(Len(Data), TRUE)
<1>1. /\ verdict = "running" /\ sent < size /\ told <= Bank
      /\ Start + n <= Bank /\ flash' = Programmed(Data, n)
      /\ sent' = sent + NextLen /\ CleanUp
      /\ verdict' = IF LengthMatches(received + NextLen) THEN "accepted"
                                                         ELSE "refused"
      /\ UNCHANGED <<xfer, size, told, leftover>>
  BY DEF ReceiveBlock
<1>2. /\ Start \in Nat /\ Len(Data) \in 1 .. Buf + Block - 1
      /\ NextLen \in 1..Block /\ AheadInv
  BY <1>1, CallFacts DEF WholeInv
<1>3. /\ Bank \in Nat /\ Sector \in Nat \ {0} /\ Buf \in Nat \ {0}
      /\ Block \in Nat /\ NextLen \in Nat
      /\ sent \in Nat /\ size \in Nat /\ received \in Nat
  <2>1. sent \in Nat /\ size \in Nat /\ received \in Nat
    BY <1>2 DEF AheadInv, TypeOK
  <2>2. /\ Bank \in Nat /\ Sector \in Nat \ {0} /\ Buf \in Nat \ {0}
        /\ Block \in Nat
    BY BlockAssumption DEF BlockAssumption
  <2>. HIDE DEF n
  <2>. QED
    BY <1>2, <2>1, <2>2
<1>4. n \in Nat /\ n < Len(Data) + Buf /\ Len(Data) <= n
  <2>1. Len(Data) \in Nat
    BY <1>2, <1>3
  <2>2. Len(Data) <= AlignUp(Len(Data), Buf)
    BY <1>3, <2>1, AlignBounds
  <2>. QED
    BY <2>1, <2>2, ToWriteFacts DEF ToWrite
<1>5. ~leftover => received = sent
  BY <1>1 DEF WholeInv, Counting
<1>6. AcceptedIsWhole'
  <2>. SUFFICES ASSUME verdict' = "accepted", told # 0,
                       leftover => sent + NextLen = size,
                       NEW i \in 0 .. size - 1
                PROVE  flash'[i] = <<xfer, i>>
    BY <1>1 DEF AcceptedIsWhole
  <2>1. received + NextLen = size /\ told = size
    BY <1>1 DEF LengthMatches, WholeInv, Announced
  <2>2. ~leftover
    <3>1. leftover => received > sent
      BY <1>1 DEF WholeInv, Counting
    <3>. QED
      BY <1>3, <2>1, <3>1
  <2>3. Start + Len(Data) = size
    BY <1>1, <1>5, <2>1, <2>2, DataFacts
  <2>. HIDE DEF n
  <2>4. i \in Addr /\ i < Start + Len(Data) /\ i < Start + n
    BY <1>1, <1>2, <1>3, <1>4, <2>1, <2>3 DEF Addr
  <2>. QED
    BY <1>1, <1>4, <2>2, <2>4, ContentFacts
<1>7. CompleteIsAccepted'
  <2>. SUFFICES ASSUME sent + NextLen = size
                PROVE  IF leftover THEN verdict' = "refused" \/ told = 0
                                   ELSE verdict' = "accepted"
    BY <1>1 DEF CompleteIsAccepted
  <2>1. told = 0 \/ told = sent + NextLen
    BY <1>1 DEF WholeInv, Announced
  <2>2. CASE leftover
    <3>1. received > sent
      BY <1>1, <2>2 DEF WholeInv, Counting
    <3>2. received + NextLen # sent + NextLen
      BY <1>3, <3>1
    <3>3. LengthMatches(received + NextLen) => told = 0
      BY <2>1, <3>2 DEF LengthMatches
    <3>. QED
      BY <1>1, <2>2, <3>3
  <2>3. CASE ~leftover
    <3>1. LengthMatches(received + NextLen)
      BY <1>5, <2>1, <2>3 DEF LengthMatches
    <3>. QED
      BY <1>1, <2>3, <3>1
  <2>. QED
    BY <2>2, <2>3
<1>. QED
  BY <1>1, <1>6, <1>7, EndKeepsWhole

LEMMA FailureKeepsWhole ==
  ASSUME WholeInv, NEW last \in BOOLEAN, BlockFails(last), AheadInv'
  PROVE  WholeInv'
<1>. DEFINE n == ToWrite(Len(Data), last)
<1>1. /\ verdict = "running" /\ sent < size /\ told <= Bank
      /\ sent' = sent + NextLen /\ CleanUp
      /\ verdict' \in {"refused", "failed"}
      /\ verdict' = "refused" =>
           \E k \in 0 .. n \div Buf :
             Buf * k < n /\ Start + Buf * k + Buf > Bank
      /\ UNCHANGED <<xfer, size, told, leftover>>
  BY DEF BlockFails
<1>2. /\ Start \in Nat /\ Len(Data) \in 1 .. Buf + Block - 1
      /\ NextLen \in 1..Block /\ AheadInv
  BY <1>1, CallFacts DEF WholeInv
<1>3. AcceptedIsWhole'
  BY <1>1 DEF AcceptedIsWhole
<1>4. CompleteIsAccepted'
  <2>. SUFFICES ASSUME verdict' = "refused", sent + NextLen = size, ~leftover
                PROVE  FALSE
    BY <1>1 DEF CompleteIsAccepted
  <2>1. /\ Bank \in Nat \ {0} /\ Sector \in Nat \ {0} /\ Buf \in Nat \ {0}
        /\ Block \in Nat \ {0} /\ Block <= Sector
        /\ Bank % Sector = 0 /\ Bank % Buf = 0
        /\ size \in Nat /\ told \in Nat
    BY <1>2, BlockAssumption DEF BlockAssumption, AheadInv, TypeOK
  <2>2. Sector <= Bank
    <3>1. PICK b \in Nat : Bank = Sector * b
      BY <2>1, Multiple
    <3>2. b # 0
      BY <2>1, <3>1
    <3>. QED
      BY <2>1, <3>1, <3>2
  <2>3. size <= Bank
    BY <1>1, <2>1, <2>2 DEF WholeInv, Announced
  <2>4. Start + Len(Data) = size
    BY <1>1, DataFacts
  <2>5. PICK q \in Nat : Start = Buf * q
    <3>1. 0 = Buf * 0
      BY <2>1
    <3>. QED
      BY <3>1 DEF WholeInv, Start, First
  <2>6. PICK b \in Nat : Bank = Buf * b
    BY <2>1, Multiple
  <2>7. Len(Data) \in Nat /\ Buf * q + Len(Data) <= Buf * b
    BY <1>2, <2>1, <2>3, <2>4, <2>5, <2>6
  <2>8. Start + AlignUp(Len(Data), Buf) <= Bank
    BY <2>1, <2>5, <2>6, <2>7, MultiplesFit
  <2>9. PICK j \in Nat : n = Buf * j /\ Buf * j <= AlignUp(Len(Data), Buf)
    <3>1. /\ AlignDown(Len(Data), Buf) \in Nat
          /\ AlignDown(Len(Data), Buf) <= Len(Data)
          /\ AlignUp(Len(Data), Buf) \in Nat
          /\ Len(Data) <= AlignUp(Len(Data), Buf)
      BY <2>1, <2>7, AlignBounds
    <3>2. (Len(Data) + Buf - 1) \div Buf \in Nat /\ Len(Data) \div Buf \in Nat
      BY <2>1, <2>7
    <3>3. CASE last
      BY <3>1, <3>2, <3>3 DEF ToWrite, AlignUp
    <3>4. CASE ~last
      <4>1. n = Buf * (Len(Data) \div Buf) /\ n = AlignDown(Len(Data), Buf)
        BY <3>4 DEF ToWrite, AlignDown
      <4>2. AlignDown(Len(Data), Buf) <= AlignUp(Len(Data), Buf)
        BY <2>7, <3>1
      <4>. QED
        BY <3>2, <4>1, <4>2
    <3>. QED
      BY <3>3, <3>4
  <2>10. PICK k \in 0 .. n \div Buf :
           Buf * k < n /\ Start + Buf * k + Buf > Bank
    BY <1>1
  <2>. HIDE DEF n
  <2>11. AlignUp(Len(Data), Buf) \in Nat /\ k \in Nat
    <3>1. n \div Buf \in Nat
      BY <2>1, <2>9
    <3>. QED
      BY <2>1, <2>7, <3>1, AlignBounds
  <2>12. k + 1 <= j
    BY <2>1, <2>9, <2>10, <2>11
  <2>13. Buf * k + Buf <= Buf * j
    BY <2>1, <2>9, <2>11, <2>12
  <2>. QED
    BY <1>2, <2>1, <2>8, <2>9, <2>10, <2>11, <2>13
<1>. QED
  BY <1>1, <1>3, <1>4, EndKeepsWhole

LEMMA WholeStep == WholeInv /\ [Next]_vars => WholeInv'
<1>. SUFFICES ASSUME WholeInv, [Next]_vars PROVE WholeInv'
  OBVIOUS
<1>t. AheadInv' /\ AheadInv
  BY AheadStep DEF WholeInv
<1>n. /\ received \in Nat /\ sent \in Nat /\ told \in Nat /\ Bank \in Nat
      /\ size \in Nat /\ leftover \in BOOLEAN
  BY <1>t, BlockAssumption DEF BlockAssumption, AheadInv, TypeOK
<1>1. CASE Begin
  BY <1>1, <1>t, BeginKeepsWhole
<1>2. CASE DeclineBlock \/ EmptyBlock \/ GiveUp
  <2>1. /\ UNCHANGED <<flash, statics, transfer>> /\ verdict = "running"
        /\ verdict' = IF sent = 0 THEN "declined" ELSE "dropped"
    BY <1>2, <1>n DEF DeclineBlock, EmptyBlock, GiveUp, WholeInv, Announced
  <2>2. /\ UNCHANGED <<received, sent, size, told, leftover, xfer>>
    BY <2>1 DEF statics, transfer
  <2>3. Announced'
    BY <2>1, <2>2 DEF WholeInv, Announced
  <2>4. Counting'
    BY <1>n, <2>1, <2>2 DEF WholeInv, Counting
  <2>. QED
    BY <1>t, <2>1, <2>2, <2>3, <2>4, OutsideKeepsWhole
<1>3. CASE Reset
  <2>1. /\ received' = 0 /\ verdict' = "reset"
        /\ UNCHANGED <<sent, size, told, leftover, xfer>>
    BY <1>3 DEF Reset, CleanUp, transfer
  <2>2. Announced' /\ Counting' /\ AcceptedIsWhole' /\ CompleteIsAccepted'
    BY <2>1 DEF WholeInv, Announced, Counting, AcceptedIsWhole,
       CompleteIsAccepted
  <2>. QED
    BY <1>t, <2>1, <2>2 DEF WholeInv
<1>4. ASSUME NEW last \in BOOLEAN, ReceiveBlock(last) PROVE WholeInv'
  <2>1. CASE last
    <3>1. ReceiveBlock(TRUE)
      BY <1>4, <2>1
    <3>. QED
      BY <1>t, <3>1, LastKeepsWhole
  <2>2. CASE ~last
    <3>1. ReceiveBlock(FALSE)
      <4>1. last = FALSE
        BY <2>2
      <4>. QED
        BY <1>4, <4>1, Zenon
    <3>. QED
      BY <1>t, <3>1, MiddleKeepsWhole
  <2>. QED
    BY <2>1, <2>2
<1>5. ASSUME NEW last \in BOOLEAN, BlockFails(last) PROVE WholeInv'
  BY <1>5, <1>t, FailureKeepsWhole
<1>6. CASE UNCHANGED vars
  BY <1>6, <1>t DEF vars, statics, transfer, WholeInv, Gathered, Announced,
     Counting, AcceptedIsWhole, CompleteIsAccepted
<1>. QED
  BY <1>1, <1>2, <1>3, <1>4, <1>5, <1>6 DEF Next

(* An accepted image of an announced size is in bank 1 byte for byte       *)
(* (firmware_block_received_cb, both ways of erasing).                     *)
THEOREM AcceptedAlwaysWhole == Spec => []AcceptedIsWhole
<1>1. WholeInv => AcceptedIsWhole
  BY DEF WholeInv
<1>. QED
  BY <1>1, WholeInit, WholeStep, PTL DEF Spec

(* A complete image that fits is accepted, its padded buffer included, and *)
(* refused right after a transfer that was given up, whatever goes wrong   *)
(* before it: what an abandoned transfer leaves in the statics costs the   *)
(* next transfer and no more (firmware_block_received_cb).                 *)
THEOREM CompleteAlwaysAccepted == Spec => []CompleteIsAccepted
<1>1. WholeInv => CompleteIsAccepted
  BY DEF WholeInv
<1>. QED
  BY <1>1, WholeInit, WholeStep, PTL DEF Spec

-----------------------------------------------------------------------------
(* What is left of older transfers.  As far as the frontier the bank, and  *)
(* the buffer of dfu_ctx, hold nothing of a transfer that ended with the   *)
(* statics being reset, since the call after a reset prepares the bank.    *)
Younger(cell) == cell[1] > ended

OlderInv ==
  /\ WholeInv
  /\ ended <= xfer
  /\ verdict = "running" => ended < xfer
  /\ received # 0 =>
       /\ \A a \in Addr : a < Frontier /\ a < Bank =>
            flash[a] = Erased \/ Younger(flash[a])
       /\ \A i \in 1..Len(buf) : Younger(buf[i])

LEMMA OlderInit == Init => OlderInv
<1>1. Init => WholeInv
  BY WholeInit
<1>. QED
  BY <1>1 DEF Init, OlderInv

(* The cells a block brings are younger than the last reset.               *)
LEMMA DataYounger ==
  ASSUME OlderInv, verdict = "running", sent < size, NEW i \in 1..Len(Data)
  PROVE  Younger(Data[i])
<1>1. /\ NextLen \in Nat /\ sent \in Nat /\ xfer \in Nat /\ ended \in Nat
      /\ buf \in Seq(Cell) /\ AheadInv
  <2>1. AheadInv
    BY DEF OlderInv, WholeInv
  <2>2. sent \in Nat /\ xfer \in Nat /\ ended \in Nat /\ buf \in Seq(Cell)
    BY <2>1, BlockAssumption DEF BlockAssumption, AheadInv, TypeOK
  <2>3. NextLen \in 1..Block
    BY <2>1, CallFacts
  <2>4. NextLen \in Nat
    BY <2>3, BlockAssumption DEF BlockAssumption
  <2>. QED
    BY <2>1, <2>2, <2>4
<1>2. Pending \in Seq(Cell) /\ \A j \in 1..Len(Pending) : Younger(Pending[j])
  BY <1>1 DEF Pending, First, OlderInv
<1>. DEFINE fresh == [j \in 1..NextLen |-> <<xfer, sent + j - 1>>]
<1>3. /\ fresh \in Seq(Cell) /\ Len(fresh) = NextLen
      /\ \A j \in 1..NextLen : Younger(fresh[j])
  <2>1. xfer \in 0..MaxTransfers /\ ended < xfer
    BY <1>1 DEF OlderInv, AheadInv, TypeOK
  <2>2. \A j \in 1..NextLen : <<xfer, sent + j - 1>> \in Cell
    BY <1>1, <2>1 DEF Cell
  <2>3. \A j \in 1..NextLen : fresh[j] = <<xfer, sent + j - 1>>
    OBVIOUS
  <2>n. NextLen \in Nat
    BY <1>1
  <2>4. fresh \in Seq(Cell) /\ Len(fresh) = NextLen
    BY <2>2, <2>n
  <2>5. ASSUME NEW j \in 1..NextLen PROVE Younger(fresh[j])
    <3>1. fresh[j][1] = xfer
      BY <2>3
    <3>. QED
      BY <1>1, <2>1, <3>1 DEF Younger
  <2>. QED
    BY <2>4, <2>5
<1>4. Data = Pending \o fresh
  BY DEF Data
<1>. HIDE DEF fresh
<1>5. \/ i \in 1..Len(Pending) /\ Data[i] = Pending[i]
      \/ i - Len(Pending) \in 1..NextLen /\ Data[i] = fresh[i - Len(Pending)]
  BY <1>2, <1>3, <1>4, ConcatFacts
<1>. QED
  BY <1>2, <1>3, <1>5

(* After the erasing loop the bank is as clean as after the call before.   *)
LEMMA CleanBefore ==
  ASSUME OlderInv, NEW a \in Addr, a < Bank,
         IF Progressive THEN a < EraseEnd ELSE TRUE
  PROVE  \/ ErasedTo(EraseEnd)[a] = Erased
         \/ Younger(ErasedTo(EraseEnd)[a])
<1>1. /\ a \in Nat /\ lastOffset \in Nat /\ flash \in [Addr -> Cell]
      /\ received = 0 => lastOffset = 0
      /\ received # 0 => (a < Frontier => flash[a] = Erased \/ Younger(flash[a]))
  BY DEF OlderInv, WholeInv, AheadInv, TypeOK, Addr
<1>2. CASE Progressive
  <2>1. CASE lastOffset <= a
    BY <1>2, <2>1 DEF ErasedTo
  <2>2. CASE a < lastOffset
    <3>1. received # 0 /\ a < Frontier
      BY <1>1, <1>2, <2>2 DEF Frontier
    <3>2. ErasedTo(EraseEnd)[a] = flash[a]
      BY <1>1, <2>2, <3>1 DEF ErasedTo, Prepared, First
    <3>. QED
      BY <1>1, <3>1, <3>2
  <2>. QED
    BY <1>1, <2>1, <2>2
<1>3. CASE ~Progressive
  <2>1. Prepared[a] = Erased \/ (received # 0 /\ Prepared[a] = flash[a])
    BY <1>3 DEF Prepared, First
  <2>2. Prepared[a] = Erased \/ Younger(Prepared[a])
    BY <1>1, <1>3, <2>1 DEF Frontier
  <2>. QED
    BY <2>2 DEF ErasedTo
<1>. QED
  BY <1>2, <1>3

LEMMA MiddleKeepsOlder ==
  ASSUME OlderInv, ReceiveBlock(FALSE), WholeInv'
  PROVE  OlderInv'
<1>. DEFINE n == ToWrite(Len(Data), FALSE)
<1>1. /\ verdict = "running" /\ sent < size
      /\ flash' = Programmed(Data, n) /\ lastOffset' = EraseEnd
      /\ buf' = SubSeq(Data, n + 1, Len(Data))
      /\ UNCHANGED <<verdict, xfer, ended>>
  BY DEF ReceiveBlock
<1>2. /\ Start \in Nat /\ Data \in Seq(Cell) /\ Len(Data) \in Nat
  BY <1>1, CallFacts, BlockAssumption DEF BlockAssumption, OlderInv, WholeInv
<1>3. n \in Nat /\ n <= Len(Data)
  BY <1>2, ToWriteFacts
<1>. HIDE DEF n
<1>4. ASSUME NEW i \in 1..Len(buf')
      PROVE  buf'[i][1] > ended'
  <2>1. i \in 1 .. Len(Data) - n /\ buf'[i] = Data[n + i]
    BY <1>1, <1>2, <1>3, RestFacts
  <2>2. n + i \in 1..Len(Data)
    BY <1>2, <1>3, <2>1
  <2>3. Younger(Data[n + i])
    BY <1>1, <2>2, DataYounger
  <2>. QED
    BY <1>1, <2>1, <2>3 DEF Younger
<1>5. ASSUME NEW a \in Addr, a < Frontier', a < Bank
      PROVE  flash'[a] = Erased \/ flash'[a][1] > ended'
  <2>. DEFINE before == ErasedTo(EraseEnd)
              new == IF a - Start < Len(Data) THEN Data[a - Start + 1]
                     ELSE Erased
  <2>1. before[a] = Erased \/ Younger(before[a])
    BY <1>1, <1>5, CleanBefore DEF Frontier
  <2>2. flash'[a] = IF Start <= a /\ a < Start + n
                    THEN Program(before[a], new) ELSE before[a]
    BY <1>1 DEF Programmed
  <2>3. flash'[a] # Overwritten
    BY DEF WholeInv, AheadInv, NoOverwrite
  <2>4. Start <= a => new = Erased \/ Younger(new)
    <3>1. Start <= a /\ a - Start < Len(Data) => a - Start + 1 \in 1..Len(Data)
      BY <1>2 DEF Addr
    <3>. QED
      BY <1>1, <3>1, DataYounger
  <2>. HIDE DEF before, new
  <2>5. flash'[a] = Erased \/ Younger(flash'[a])
    BY <2>1, <2>2, <2>3, <2>4 DEF Program
  <2>. QED
    BY <1>1, <2>5 DEF Younger
<1>6. ended' <= xfer' /\ (verdict' = "running" => ended' < xfer')
  BY <1>1 DEF OlderInv
<1>. QED
  BY <1>4, <1>5, <1>6 DEF OlderInv, Younger

LEMMA OlderStep == OlderInv /\ [Next]_vars => OlderInv'
<1>. SUFFICES ASSUME OlderInv, [Next]_vars PROVE OlderInv'
  OBVIOUS
<1>t. WholeInv' /\ xfer \in Nat /\ ended \in Nat
  BY WholeStep DEF OlderInv, WholeInv, AheadInv, TypeOK
<1>1. CASE Begin
  <2>1. /\ xfer' = xfer + 1
        /\ UNCHANGED <<flash, received, lastOffset, written, buf, ended>>
    BY <1>1 DEF Begin, statics
  <2>2. ended < xfer + 1
    BY <1>t DEF OlderInv
  <2>3. ended' <= xfer' /\ ended' < xfer'
    BY <1>t, <2>1, <2>2
  <2>. QED
    BY <1>t, <2>1, <2>3 DEF OlderInv, Younger, Frontier
<1>2. CASE DeclineBlock \/ EmptyBlock \/ GiveUp
  <2>1. /\ verdict = "running"
        /\ UNCHANGED <<xfer, flash, received, lastOffset, written, buf, ended>>
    BY <1>2 DEF DeclineBlock, EmptyBlock, GiveUp, statics, transfer
  <2>. QED
    BY <1>t, <2>1 DEF OlderInv, Younger, Frontier
<1>3. ASSUME CleanUp, UNCHANGED xfer, verdict' # "running"
      PROVE  OlderInv'
  <2>1. received' = 0 /\ ended' = xfer
    BY <1>3 DEF CleanUp
  <2>. QED
    BY <1>t, <1>3, <2>1 DEF OlderInv
<1>4. CASE Reset
  BY <1>3, <1>4 DEF Reset, transfer
<1>5. ASSUME NEW last \in BOOLEAN, ReceiveBlock(last) PROVE OlderInv'
  <2>1. CASE last
    <3>1. verdict' # "running" /\ CleanUp /\ UNCHANGED xfer
      BY <1>5, <2>1 DEF ReceiveBlock
    <3>. QED
      BY <1>3, <3>1
  <2>2. CASE ~last
    <3>1. ReceiveBlock(FALSE)
      <4>1. last = FALSE
        BY <2>2
      <4>. QED
        BY <1>5, <4>1, Zenon
    <3>. QED
      BY <1>t, <3>1, MiddleKeepsOlder
  <2>. QED
    BY <2>1, <2>2
<1>6. ASSUME NEW last \in BOOLEAN, BlockFails(last) PROVE OlderInv'
  <2>1. verdict' # "running" /\ CleanUp /\ UNCHANGED xfer
    BY <1>6 DEF BlockFails
  <2>. QED
    BY <1>3, <2>1
<1>7. CASE UNCHANGED vars
  BY <1>7, <1>t DEF vars, statics, transfer, OlderInv, Younger, Frontier
<1>. QED
  BY <1>1, <1>2, <1>4, <1>5, <1>6, <1>7 DEF Next

(* Whatever was accepted, refused or cut off by a restart before, nothing  *)
(* of it is left where the bank counts as erased: at worst there are cells *)
(* of transfers given up since (the preparation in                         *)
(* firmware_block_received_cb, both ways of erasing).                      *)
THEOREM NeverOlder == Spec => []NothingOlder
<1>1. OlderInv => NothingOlder
  <2>. SUFFICES ASSUME OlderInv, verdict = "running", sent > 0,
                       NEW a \in 0 .. Bank - 1, Progressive => a < lastOffset
                PROVE  flash[a] = Erased \/ flash[a][1] > ended
    BY DEF NothingOlder
  <2>1. received # 0
    <3>1. sent \in Nat /\ received \in Nat /\ (received = sent \/ received > sent)
      BY DEF OlderInv, WholeInv, Counting, AheadInv, TypeOK
    <3>. QED
      BY <3>1
  <2>2. a \in Addr /\ a < Bank /\ a < Frontier
    BY BlockAssumption DEF BlockAssumption, Addr, Frontier
  <2>. QED
    BY <2>1, <2>2 DEF OlderInv, Younger
<1>. QED
  BY <1>1, OlderInit, OlderStep, PTL DEF Spec

-----------------------------------------------------------------------------
(* How far erasing goes astray.                                            *)
BeyondInv ==
  /\ AheadInv
  /\ written <= Bank
  /\ lastOffset <= Bank + Sector

LEMMA EraseEndBound ==
  ASSUME BeyondInv
  PROVE  /\ Start \in Nat /\ Start <= Bank
         /\ EraseEnd \in Nat /\ EraseEnd <= Bank + Sector
         /\ lastOffset < EraseEnd /\ Bank < EraseEnd =>
              Progressive /\ Start > Bank - Sector
<1>1. /\ Bank \in Nat /\ Sector \in Nat \ {0} /\ Bank % Sector = 0
      /\ written \in Nat /\ lastOffset \in Nat /\ AheadInv
  BY BlockAssumption DEF BlockAssumption, BeyondInv, AheadInv, TypeOK
<1>2. Start \in Nat /\ Start <= Bank
  BY <1>1 DEF Start, BeyondInv
<1>. DEFINE to == AlignUp(Start + Sector, Sector)
<1>3. PICK b \in Nat : Bank = Sector * b
  BY <1>1, Multiple
<1>4. to \in Nat
  <2>1. Start + Sector \in Nat
    BY <1>1, <1>2
  <2>. QED
    BY <1>1, <2>1, AlignBounds
<1>5. ASSUME NEW c \in Nat, Start + Sector <= Sector * c
      PROVE  to <= Sector * c
  <2>. DEFINE l == Start + Sector
  <2>1. Sector * 0 + l <= Sector * c /\ l \in Nat
    BY <1>1, <1>2, <1>5
  <2>. HIDE DEF l
  <2>2. Sector * 0 + AlignUp(l, Sector) <= Sector * c
    BY <1>1, <2>1, MultiplesFit
  <2>3. to = AlignUp(l, Sector)
    BY DEF l
  <2>. QED
    BY <1>1, <1>4, <2>2, <2>3
<1>. HIDE DEF to
<1>6. to <= Bank + Sector
  <2>1. Sector * (b + 1) = Bank + Sector /\ b + 1 \in Nat
    BY <1>1, <1>3
  <2>2. Start + Sector <= Sector * (b + 1)
    BY <1>1, <1>2, <2>1
  <2>. QED
    BY <1>5, <2>1, <2>2
<1>7. Bank < to => Start > Bank - Sector
  <2>1. Start + Sector <= Bank => to <= Bank
    BY <1>3, <1>5
  <2>. QED
    BY <1>1, <1>2, <1>4, <2>1
<1>8. EraseEnd = IF Progressive /\ lastOffset < Start + Sector THEN to
                                                               ELSE lastOffset
  BY DEF EraseEnd, to
<1>. QED
  BY <1>1, <1>2, <1>4, <1>6, <1>7, <1>8 DEF BeyondInv

LEMMA BeyondInit == Init => BeyondInv
<1>1. Init => AheadInv
  BY AheadInit
<1>. QED
  BY <1>1, BlockAssumption DEF BlockAssumption, Init, BeyondInv

LEMMA BeyondStep == BeyondInv /\ [Next]_vars => BeyondInv'
<1>. SUFFICES ASSUME BeyondInv, [Next]_vars PROVE BeyondInv'
  OBVIOUS
<1>t. AheadInv' /\ AheadInv /\ Bank \in Nat /\ Sector \in Nat
  BY AheadStep, BlockAssumption DEF BlockAssumption, BeyondInv
<1>1. ASSUME CleanUp PROVE BeyondInv'
  <2>1. written' = 0 /\ lastOffset' = 0
    BY <1>1 DEF CleanUp
  <2>2. written' <= Bank /\ lastOffset' <= Bank + Sector
    BY <1>t, <2>1
  <2>. QED
    BY <1>t, <2>2 DEF BeyondInv
<1>2. ASSUME UNCHANGED statics PROVE BeyondInv'
  BY <1>t, <1>2 DEF BeyondInv, statics
<1>3. CASE Begin \/ DeclineBlock \/ EmptyBlock \/ GiveUp
  BY <1>2, <1>3 DEF Begin, DeclineBlock, EmptyBlock, GiveUp
<1>4. CASE Reset
  BY <1>1, <1>4 DEF Reset
<1>5. ASSUME NEW last \in BOOLEAN, ReceiveBlock(last) PROVE BeyondInv'
  <2>1. CASE last
    BY <1>1, <1>5, <2>1 DEF ReceiveBlock
  <2>2. CASE ~last
    <3>1. /\ lastOffset' = EraseEnd
          /\ written' = Start + ToWrite(Len(Data), last)
          /\ Start + ToWrite(Len(Data), last) <= Bank
      BY <1>5, <2>2 DEF ReceiveBlock
    <3>2. EraseEnd <= Bank + Sector
      BY EraseEndBound
    <3>. QED
      BY <1>t, <3>1, <3>2, Zenon DEF BeyondInv
  <2>. QED
    BY <2>1, <2>2
<1>6. ASSUME NEW last \in BOOLEAN, BlockFails(last) PROVE BeyondInv'
  BY <1>1, <1>6 DEF BlockFails
<1>7. CASE UNCHANGED vars
  BY <1>2, <1>7 DEF vars
<1>. QED
  BY <1>3, <1>4, <1>5, <1>6, <1>7 DEF Next

(* What a step may do to the sector that follows the bank.                 *)
LEMMA BeyondChange ==
  ASSUME BeyondInv, [Next]_vars,
         NEW a \in Bank .. Bank + Sector - 1, flash'[a] # flash[a]
  PROVE  Progressive /\ flash'[a] = Erased /\ Start > Bank - Sector
<1>1. /\ Bank \in Nat \ {0} /\ Sector \in Nat \ {0} /\ Buf \in Nat \ {0}
      /\ flash \in [Addr -> Cell] /\ lastOffset \in Nat /\ AheadInv
  BY BlockAssumption DEF BlockAssumption, BeyondInv, AheadInv, TypeOK
<1>2. a \in Addr /\ a \in Nat /\ ~(a < Bank) /\ a # 0
  BY <1>1 DEF Addr
<1>3. /\ Start \in Nat /\ EraseEnd \in Nat
      /\ lastOffset < EraseEnd /\ Bank < EraseEnd =>
           Progressive /\ Start > Bank - Sector
  BY EraseEndBound
<1>4. Prepared[a] = flash[a]
  BY <1>1, <1>2 DEF Prepared
<1>5. ASSUME NEW end \in Nat, end <= EraseEnd, flash'[a] = ErasedTo(end)[a]
      PROVE  Progressive /\ flash'[a] = Erased /\ Start > Bank - Sector
  <2>1. lastOffset <= a /\ a < end /\ flash'[a] = Erased
    BY <1>2, <1>4, <1>5 DEF ErasedTo
  <2>2. lastOffset < EraseEnd /\ Bank < EraseEnd
    BY <1>1, <1>2, <1>3, <1>5, <2>1
  <2>. QED
    BY <1>3, <2>1, <2>2
<1>6. ASSUME NEW m \in Nat, Start + m <= Bank, flash' = Programmed(Data, m)
      PROVE  Progressive /\ flash'[a] = Erased /\ Start > Bank - Sector
  <2>1. ~(a < Start + m)
    BY <1>1, <1>2, <1>3, <1>6
  <2>2. flash'[a] = ErasedTo(EraseEnd)[a]
    BY <1>2, <1>6, <2>1 DEF Programmed
  <2>. QED
    BY <1>3, <1>5, <2>2
<1>7. ASSUME NEW last \in BOOLEAN, ReceiveBlock(last)
      PROVE  Progressive /\ flash'[a] = Erased /\ Start > Bank - Sector
  <2>1. /\ verdict = "running" /\ sent < size
        /\ Start + ToWrite(Len(Data), last) <= Bank
        /\ flash' = Programmed(Data, ToWrite(Len(Data), last))
    BY <1>7 DEF ReceiveBlock
  <2>2. ToWrite(Len(Data), last) \in Nat
    BY <1>1, <2>1, CallFacts, ToWriteFacts, BlockAssumption DEF BlockAssumption
  <2>. QED
    BY <1>6, <2>1, <2>2
<1>8. ASSUME NEW last \in BOOLEAN, BlockFails(last)
      PROVE  Progressive /\ flash'[a] = Erased /\ Start > Bank - Sector
  <2>1. /\ verdict = "running" /\ sent < size
        /\ \/ \E k \in 0 .. Bank \div Sector : flash' = PreparedTo(k)
           \/ \E k \in 0 .. (Bank + Sector) \div Sector :
                /\ lastOffset + Sector * k <= EraseEnd
                /\ flash' = ErasedTo(lastOffset + Sector * k)
           \/ \E k \in 0 .. ToWrite(Len(Data), last) \div Buf :
                /\ Start + Buf * k <= Bank
                /\ flash' = Programmed(Data, Buf * k)
    BY <1>8 DEF BlockFails
  <2>2. CASE \E k \in 0 .. Bank \div Sector : flash' = PreparedTo(k)
    BY <1>2, <1>4, <2>2 DEF PreparedTo
  <2>3. CASE \E k \in 0 .. (Bank + Sector) \div Sector :
               /\ lastOffset + Sector * k <= EraseEnd
               /\ flash' = ErasedTo(lastOffset + Sector * k)
    <3>1. PICK k \in 0 .. (Bank + Sector) \div Sector :
                 /\ lastOffset + Sector * k <= EraseEnd
                 /\ flash' = ErasedTo(lastOffset + Sector * k)
      BY <2>3
    <3>2. lastOffset + Sector * k \in Nat
      BY <1>1
    <3>. QED
      BY <1>5, <3>1, <3>2
  <2>4. CASE \E k \in 0 .. ToWrite(Len(Data), last) \div Buf :
               /\ Start + Buf * k <= Bank
               /\ flash' = Programmed(Data, Buf * k)
    <3>1. PICK k \in 0 .. ToWrite(Len(Data), last) \div Buf :
                 /\ Start + Buf * k <= Bank
                 /\ flash' = Programmed(Data, Buf * k)
      BY <2>4
    <3>2. ToWrite(Len(Data), last) \in Nat
      BY <2>1, CallFacts, ToWriteFacts, BlockAssumption DEF BlockAssumption
    <3>3. Buf * k \in Nat
      BY <1>1, <3>2
    <3>. QED
      BY <1>6, <3>1, <3>3
  <2>. QED
    BY <2>1, <2>2, <2>3, <2>4
<1>9. ~(Begin \/ DeclineBlock \/ EmptyBlock \/ GiveUp \/ Reset)
  BY DEF Begin, DeclineBlock, EmptyBlock, GiveUp, Reset
<1>10. ~(UNCHANGED vars)
  BY DEF vars
<1>. QED
  BY <1>7, <1>8, <1>9, <1>10 DEF Next

(* Progressive erasing may erase the sector that follows bank 1, and only  *)
(* when the writer has come to the bank's last sector; nothing else beyond *)
(* the bank is ever changed (the erasing loop of                           *)
(* firmware_block_received_cb).                                            *)
THEOREM ErasesAtMostOneMore == Spec => ErasesOneSectorMore
<1>1. BeyondInv => EraseEnd <= Bank + Sector
  BY EraseEndBound
<1>2. BeyondInv /\ [Next]_vars =>
        [/\ EraseEnd <= Bank + Sector
         /\ \A a \in Bank .. Bank + Sector - 1 :
              flash'[a] # flash[a] =>
                Progressive /\ flash'[a] = Erased /\ Start > Bank - Sector]_vars
  BY <1>1, BeyondChange
<1>. QED
  BY <1>2, BeyondInit, BeyondStep, PTL DEF Spec, ErasesOneSectorMore

=============================================================================
