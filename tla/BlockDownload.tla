---------------------------- MODULE BlockDownload ----------------------------
(***************************************************************************)
(* A firmware transfer, block by block: firmware_block_received_cb of      *)
(* src/lwm2m.c, with the statics that survive from one call to the next,   *)
(* the buffered writer of the flash_img library and the cells of bank 1.   *)
(* Flash is NOR: a cell must be erased before it is programmed, and is     *)
(* lost if it is programmed twice.                                         *)
(*                                                                         *)
(* The callback learns of a transfer only from the blocks it is given.  It *)
(* is not told that a transfer was given up, so its statics may belong to  *)
(* an older transfer than the block does.                                  *)
(***************************************************************************)
EXTENDS Integers, Sequences

CONSTANTS
  Bank,          \* cells of bank 1
  Sector,        \* cells of an erase block
  Buf,           \* cells the flash_img library collects before it writes
  Block,         \* cells of a full CoAP block
  Progressive,   \* CONFIG_FOTA_ERASE_PROGRESSIVELY
  MaxTransfers,  \* bound: transfers the server starts
  Faults         \* what may go wrong, see Fault

Fault == {"flash",    \* a flash operation returns an error
          "early",    \* the last-block flag comes before the end of the image
          "giveup",   \* a transfer stops before its last block
          "empty",    \* a block without data arrives
          "reset"}    \* the device restarts

ASSUME BlockAssumption ==
  /\ Bank \in Nat \ {0} /\ Sector \in Nat \ {0}
  /\ Buf \in Nat \ {0} /\ Block \in Nat \ {0}
  /\ Bank % Sector = 0 /\ Bank % Buf = 0
  /\ 2 * Buf + Block <= Sector + 2   \* 512, 256 and 4096 bytes on the nRF52840
  /\ Progressive \in BOOLEAN
  /\ MaxTransfers \in Nat
  /\ Faults \subseteq Fault

(* The flash addresses looked at: bank 1 and the sector that follows it.   *)
Addr == 0 .. Bank + Sector - 1

(* A cell holds byte i of transfer t, written <<t, i>>, or one of these.   *)
Erased      == <<0, 0>>
Old         == <<0, 1>>   \* something of before the first transfer
Torn        == <<0, 2>>   \* invalidated by boot_invalidate_slot1
Overwritten == <<0, 3>>   \* programmed without having been erased
Foreign     == <<0, 4>>   \* what the flash holds beyond bank 1

VARIABLES
  flash,       \* content of every address
  (* the statics of the callback, and dfu_ctx *)
  received,    \* bytes_downloaded
  lastOffset,  \* last_offset, relative to the start of bank 1
  written,     \* dfu_ctx.bytes_written
  buf,         \* the collected bytes of dfu_ctx.buf
  (* the transfer as the server and the engine know it *)
  xfer,        \* number of the transfer
  size,        \* its image has this many cells
  told,        \* total_size as given to the callback, 0 if it is absent
  sent,        \* cells delivered so far
  verdict,     \* "running", or how the transfer ended
  leftover,    \* history: statics of a transfer given up were still there
  ended        \* history: the last transfer that ended in the callback, or
               \* before a restart

statics  == <<received, lastOffset, written, buf>>
transfer == <<xfer, size, told, sent, leftover>>
vars     == <<flash, statics, transfer, verdict, ended>>

Verdict == {"running",
            "accepted", "refused",   \* by the test of the last block, or
                                     \* because the bank is full
            "failed",                \* by a flash operation
            "declined", "dropped",   \* it ended, the statics were left, after
                                     \* no block or after some
            "reset"}

Cell == (0..MaxTransfers) \X Int

TypeOK ==
  /\ flash \in [Addr -> Cell]
  /\ received \in Nat /\ lastOffset \in Nat /\ written \in Nat
  /\ buf \in Seq(Cell) /\ Len(buf) < Buf
  /\ xfer \in 0..MaxTransfers
  /\ size \in Nat /\ told \in Nat /\ sent \in Nat
  /\ verdict \in Verdict
  /\ leftover \in BOOLEAN
  /\ ended \in 0..MaxTransfers

Init ==
  /\ flash = [a \in Addr |-> IF a < Bank THEN Old ELSE Foreign]
  /\ received = 0 /\ lastOffset = 0 /\ written = 0 /\ buf = << >>
  /\ xfer = 0 /\ size = 0 /\ told = 0 /\ sent = 0
  /\ verdict = "accepted" /\ leftover = FALSE /\ ended = 0

-----------------------------------------------------------------------------
(* The parts of the callback.                                              *)

(* Where the writer stands when it is given the block: the first block, as *)
(* far as the statics tell, starts it over (flash_img_init).               *)
First   == received = 0
Start   == IF First THEN 0 ELSE written
Pending == IF First THEN << >> ELSE buf

Prepared_NotErased ==
  IF First /\ Progressive THEN [flash EXCEPT ![0] = Torn] ELSE flash

(* Bank 1 after the preparation of the first block.                        *)
Prepared ==
  IF ~First THEN flash
  ELSE IF Progressive THEN [flash EXCEPT ![0] = Torn]
  ELSE [a \in Addr |-> IF a < Bank THEN Erased ELSE flash[a]]

(* ... and if it stops after k sectors.                                    *)
PreparedTo(k) ==
  [a \in Addr |-> IF a < Sector * k THEN Prepared[a] ELSE flash[a]]

AlignUp(n, unit)   == unit * ((n + unit - 1) \div unit)
AlignDown(n, unit) == unit * (n \div unit)

EraseEnd_NoLookahead ==
  IF Progressive /\ lastOffset < Start THEN AlignUp(Start, Sector)
  ELSE lastOffset

EraseEnd_TwoAhead ==
  IF Progressive /\ lastOffset < Start + 2 * Sector
  THEN AlignUp(Start + 2 * Sector, Sector)
  ELSE lastOffset

(* Progressive erasing goes on, sector by sector, until a whole sector     *)
(* from the next address to write on is erased.                            *)
EraseEnd ==
  IF Progressive /\ lastOffset < Start + Sector
  THEN AlignUp(Start + Sector, Sector)
  ELSE lastOffset

(* The flash once the erasing loop has come to the offset end.             *)
ErasedTo(end) ==
  [a \in Addr |-> IF lastOffset <= a /\ a < end THEN Erased ELSE Prepared[a]]

(* The library writes full buffers, and pads the last one with 0xff.       *)
ToWrite(n, last) == IF last THEN AlignUp(n, Buf) ELSE AlignDown(n, Buf)

(* Programming 0xff changes nothing.                                       *)
Program(old, new) ==
  IF new = Erased THEN old ELSE IF old = Erased THEN new ELSE Overwritten

(* The flash after n cells of data, padded, are programmed from Start on.  *)
Programmed(data, n) ==
  LET before == ErasedTo(EraseEnd) IN
  [a \in Addr |->
     IF Start <= a /\ a < Start + n
     THEN Program(before[a],
                  IF a - Start < Len(data) THEN data[a - Start + 1] ELSE Erased)
     ELSE before[a]]

LengthMatches_Unchecked(n) == TRUE

(* A last block is only good if it completes the announced size.           *)
LengthMatches(n) == told = 0 \/ n = told

CleanUp_KeepReceived ==
  /\ received' = received /\ lastOffset' = 0 /\ written' = Start /\ buf' = << >>
  /\ ended' = xfer

(* last_offset set back to address 0 instead of the start of bank 1.       *)
CleanUp_ToBank0 ==
  /\ received' = 0 /\ lastOffset' = -Bank /\ written' = 0 /\ buf' = << >>
  /\ ended' = xfer

(* The cleanup label.  The next call starts dfu_ctx over.                  *)
CleanUp ==
  /\ received' = 0 /\ lastOffset' = 0 /\ written' = 0 /\ buf' = << >>
  /\ ended' = xfer

-----------------------------------------------------------------------------
(* What the server and the engine may do.                                  *)

(* A transfer begins.  The total size is absent only if one block holds    *)
(* the whole image.  An image may be one cell too large for the bank.      *)
Begin ==
  /\ verdict # "running" /\ xfer < MaxTransfers
  /\ xfer' = xfer + 1
  /\ size' \in 1 .. Bank + 1
  /\ told' \in {size'} \cup (IF size' <= Block THEN {0} ELSE {})
  /\ sent' = 0 /\ verdict' = "running"
  /\ leftover' = (\/ verdict = "dropped"
                  \/ verdict = "declined" /\ leftover)
  /\ UNCHANGED <<flash, statics, ended>>

(* "Artifact file size too big": refused before any static is touched.     *)
DeclineBlock ==
  /\ verdict = "running" /\ told > Bank
  /\ verdict' = "declined"
  /\ UNCHANGED <<flash, statics, transfer, ended>>

(* "Data len is zero": refused, and the statics keep what they had.        *)
EmptyBlock ==
  /\ "empty" \in Faults
  /\ verdict = "running" /\ told <= Bank
  /\ verdict' = IF sent = 0 THEN "declined" ELSE "dropped"
  /\ UNCHANGED <<flash, statics, transfer, ended>>

(* Blocks are full, save the last one.                                     *)
NextLen == IF size - sent < Block THEN size - sent ELSE Block
Data    == Pending \o [i \in 1..NextLen |-> <<xfer, sent + i - 1>>]

(* The last-block flag comes with the end of the image, or too early.      *)
Flagged(last) ==
  IF sent + NextLen = size THEN last ELSE last => "early" \in Faults

(* The flash operations of the call all succeed.                           *)
ReceiveBlock(last) ==
  LET n == ToWrite(Len(Data), last) IN
  /\ verdict = "running" /\ told <= Bank
  /\ sent < size /\ Start + n <= Bank
  /\ Flagged(last)
  /\ flash' = Programmed(Data, n)
  /\ sent' = sent + NextLen
  /\ \/ /\ ~last
        /\ received' = received + NextLen
        /\ lastOffset' = EraseEnd
        /\ written' = Start + n
        /\ buf' = SubSeq(Data, n + 1, Len(Data))
        /\ UNCHANGED <<verdict, ended>>
     \/ /\ last
        /\ verdict' = IF LengthMatches(received + NextLen)
                      THEN "accepted" ELSE "refused"
        /\ CleanUp
  /\ UNCHANGED <<xfer, size, told, leftover>>

(* A flash operation fails, for one because it would write beyond the      *)
(* bank; what was done before it stays.                                    *)
BlockFails(last) ==
  LET n == ToWrite(Len(Data), last) IN
  /\ verdict = "running" /\ told <= Bank /\ sent < size
  /\ Flagged(last)
  /\ "flash" \in Faults \/ Start + n > Bank
  /\ \/ /\ "flash" \in Faults /\ verdict' = "failed"
        /\ \/ \E k \in 0 .. Bank \div Sector : flash' = PreparedTo(k)
           \/ \E k \in 0 .. (Bank + Sector) \div Sector :
                /\ lastOffset + Sector * k <= EraseEnd
                /\ flash' = ErasedTo(lastOffset + Sector * k)
     \/ \E k \in 0 .. n \div Buf :
          /\ Buf * k < n /\ Start + Buf * k <= Bank
          /\ IF Start + Buf * k + Buf > Bank THEN verdict' = "refused"
             ELSE "flash" \in Faults /\ verdict' = "failed"
          /\ flash' = Programmed(Data, Buf * k)
  /\ sent' = sent + NextLen
  /\ CleanUp
  /\ UNCHANGED <<xfer, size, told, leftover>>

(* The transfer stops; nobody tells the callback.                          *)
GiveUp ==
  /\ "giveup" \in Faults
  /\ verdict = "running"
  /\ verdict' = IF sent = 0 THEN "declined" ELSE "dropped"
  /\ UNCHANGED <<flash, statics, transfer, ended>>

(* A restart loses the statics, and with them the memory of the transfer.  *)
(* One in the middle of a call leaves the flash as BlockFails does.        *)
Reset ==
  /\ "reset" \in Faults
  /\ verdict # "reset"
  /\ CleanUp
  /\ verdict' = "reset"
  /\ UNCHANGED <<flash, transfer>>

Next ==
  \/ Begin \/ DeclineBlock \/ EmptyBlock \/ GiveUp \/ Reset
  \/ \E last \in BOOLEAN : ReceiveBlock(last) \/ BlockFails(last)

Spec == Init /\ [][Next]_vars

-----------------------------------------------------------------------------
(* Properties.                                                             *)

(* No cell of bank 1 is programmed that was not erased since it was last   *)
(* programmed, whichever way bank 1 is erased and whatever an abandoned    *)
(* transfer left in the statics.                                           *)
NoOverwrite == \A a \in Addr : flash[a] # Overwritten

(* An image accepted against an announced size is in bank 1 byte for byte; *)
(* a block flagged as the last too early does not pass for a whole image.  *)
(* Not so if both go wrong, a transfer given up before and an early flag.  *)
AcceptedIsWhole ==
  verdict = "accepted" /\ told # 0 /\ (leftover => sent = size) =>
    \A i \in 0 .. size - 1 : flash[i] = <<xfer, i>>

(* What earlier transfers leave behind: a transfer of announced size that  *)
(* fits and delivers every block, without a failing flash operation of its *)
(* own, is accepted, its last, padded buffer included, after any number of *)
(* transfers that were accepted, refused or failed or that a restart cut   *)
(* off, and is refused right after one that was given up (the statics,     *)
(* lines 174-177): that costs one transfer, not more, and never makes an   *)
(* image out of two.  A size that is not announced cannot be compared.     *)
CompleteIsAccepted ==
  verdict \in {"accepted", "refused"} /\ size > 0 /\ sent = size =>
    IF leftover THEN verdict = "refused" \/ told = 0
                ELSE verdict = "accepted"

(* Once the first block of a transfer is in, what is erased of the bank    *)
(* holds nothing from before: no cell of an image that was accepted or     *)
(* refused, or of one that a restart cut off.  All that may be left are    *)
(* cells of transfers given up since.                                      *)
NothingOlder ==
  verdict = "running" /\ sent > 0 =>
    \A a \in 0 .. Bank - 1 :
      (Progressive => a < lastOffset) =>
        flash[a] = Erased \/ flash[a][1] > ended

(* How far erasing goes astray: never beyond the one sector that follows   *)
(* the bank, that one only by progressive erasing and only when the writer *)
(* has come to the last sector of the bank.                                *)
ErasesOneSectorMore ==
  [][/\ EraseEnd <= Bank + Sector
     /\ \A a \in Bank .. Bank + Sector - 1 :
          flash'[a] # flash[a] =>
            Progressive /\ flash'[a] = Erased /\ Start > Bank - Sector]_vars

(* "Erase bank 1 before starting the write process" (lwm2m.c:199): once    *)
(* the first block of a transfer is in, the bank holds nothing older.      *)
StartsErased ==
  ~Progressive /\ verdict = "running" /\ sent > 0 =>
    \A a \in 0 .. Bank - 1 : flash[a] = Erased \/ flash[a][1] = xfer

(* "Erase the sector that's going to be written to next" (lwm2m.c:236):    *)
(* nothing is ever written beyond bank 1, so nothing is erased there.      *)
ErasesOnlyBank == \A a \in Bank .. Bank + Sector - 1 : flash[a] = Foreign
=============================================================================
