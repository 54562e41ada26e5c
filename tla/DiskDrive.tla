----------------------------- MODULE DiskDrive -----------------------------
(***************************************************************************)
(* The 64DD's block manager (dd/dd_controller.c, dd/dd_disk.c) on one      *)
(* track of two blocks, behind the peripheral interface (PiController).    *)
(*                                                                         *)
(* One sector at a time passes through a buffer: the drive requests data,  *)
(* the guest acknowledges by writing PI_CART_ADDR, moves the sector by PI  *)
(* DMA, and the end of the DMA makes the drive go on to the next sector.   *)
(* After the sectors of a block come its C2 sectors and a gap; then the    *)
(* transfer ends or, as the guest may ask, goes on in the other block.     *)
(***************************************************************************)
EXTENDS PiController

CONSTANTS SECTORS_PER_BLOCK,  \* 85 in the code
          C2_SECTORS,         \* 4 in the code; sectors after the data of a block
          BmWrites            \* the writes of BM_STATUS_CTL, as sets of bits

\* The bits of a write of BM_STATUS_CTL.
BmBits == {"mecha_reset", "again", "reset", "start"}

ASSUME DiskAssumption ==
  /\ SECTORS_PER_BLOCK \in Nat \ {0} /\ C2_SECTORS \in Nat \ {0}
  /\ BmWrites \subseteq SUBSET BmBits

\* Sector numbers of the second block start at 0x5A.
Stride == SECTORS_PER_BLOCK + C2_SECTORS + 1

\* Where a sector can be stored; -1 lies before the track.
Places == -1 .. 2 * SECTORS_PER_BLOCK - 1

\* What a sector holds: when a transfer starts the name of its place, then the
\* number of the sector the guest sent.  What passes outside the protocol is
\* not told apart.
Labels == [p \in Places |-> <<"old", p>>]
Anything == <<"any", 0>>
Sectors ==
  ({"old"} \X Places) \cup ({"new"} \X (0 .. 2 * SECTORS_PER_BLOCK - 1)) \cup {Anything}

VARIABLE dd

\* run, again, error: bits of BM_STATUS_CTL (start, block transfer, micro
\* status); data, c2, bm, mecha: bits of CMD_STATUS (data request, C2 transfer,
\* BM and mecha interrupt); sector: CUR_SECTOR; block: CUR_BLOCK; hold:
\* dd_bm_reset_hold; read: dd_bm_mode_read; protected: the track is number 6;
\* cart_addr: PI_CART_ADDR.  History: first and moved, the block a transfer
\* started in and the sectors the guest has moved since; follows, the guest has
\* kept to the protocol.
Disk ==
  [run : BOOLEAN, again : BOOLEAN, error : BOOLEAN, data : BOOLEAN,
   c2 : BOOLEAN, bm : BOOLEAN, mecha : BOOLEAN, sector : 0 .. 2 * Stride - 1,
   block : {0, 1}, hold : BOOLEAN, read : BOOLEAN, protected : BOOLEAN,
   cart_addr : {"c2", "sector", "other"}, sec_buf : Sectors,
   disk : [Places -> Sectors], first : {0, 1},
   moved : 0 .. 2 * SECTORS_PER_BLOCK, follows : BOOLEAN]

DiskTypeOK == dd \in Disk

InBlock(s) == IF s >= Stride THEN s - Stride ELSE s

At(d, s) == [d EXCEPT !.sector = s + Stride * d.block]

-----------------------------------------------------------------------------
(* dd_disk.c *)

\* The buffer belongs to the sector before the current one.
dd_write_sector(d) ==
  [d EXCEPT !.disk[d.block * SECTORS_PER_BLOCK + InBlock(d.sector) - 1] = d.sec_buf]

dd_read_sector(d) ==
  [d EXCEPT !.sec_buf = d.disk[d.block * SECTORS_PER_BLOCK + InBlock(d.sector)]]

OtherBlock(d) == [d EXCEPT !.block = 1 - @, !.again = FALSE]

\* At the end of a block the sector is stored after the block has changed, or
\* not at all.
UpdateWrite(d, s) ==
  CASE s < SECTORS_PER_BLOCK -> At([dd_write_sector(d) EXCEPT !.data = TRUE], s + 1)
    [] s = SECTORS_PER_BLOCK /\ d.again ->
         At([dd_write_sector(OtherBlock(d)) EXCEPT !.data = TRUE], 1)
    [] s = SECTORS_PER_BLOCK /\ ~d.again -> At([d EXCEPT !.run = FALSE], s + 1)
    [] OTHER -> At(d, s)

\* Mutant: the same block is read again.
UpdateRead_same(d, s) ==
  LET last == SECTORS_PER_BLOCK + C2_SECTORS
  IN  IF d.protected /\ d.block = 0
      THEN At([d EXCEPT !.data = FALSE, !.error = TRUE], s)
      ELSE CASE s < SECTORS_PER_BLOCK ->
                  At([dd_read_sector(d) EXCEPT !.data = TRUE], s + 1)
             [] s \in SECTORS_PER_BLOCK .. last - 1 ->
                  At([d EXCEPT !.c2 = @ \/ s + 1 = last], s + 1)
             [] s = last /\ d.again -> At([d EXCEPT !.again = FALSE], 0)
             [] s = last /\ ~d.again -> At([d EXCEPT !.run = FALSE], s)
             [] OTHER -> At(d, s)

\* Track 6 is the one that proves a disk to be genuine by not being readable.
UpdateRead(d, s) ==
  LET last == SECTORS_PER_BLOCK + C2_SECTORS
  IN  IF d.protected /\ d.block = 0
      THEN At([d EXCEPT !.data = FALSE, !.error = TRUE], s)
      ELSE CASE s < SECTORS_PER_BLOCK ->
                  At([dd_read_sector(d) EXCEPT !.data = TRUE], s + 1)
             [] s \in SECTORS_PER_BLOCK .. last - 1 ->
                  At([d EXCEPT !.c2 = @ \/ s + 1 = last], s + 1)
             [] s = last /\ d.again -> At(OtherBlock(d), 0)
             [] s = last /\ ~d.again -> At([d EXCEPT !.run = FALSE], s)
             [] OTHER -> At(d, s)

\* Interrupt 3 of CP0.
Raise(s) == check_interrupt([s EXCEPT !.cause = @ \cup {"IP3"}])
Lower(s) == check_interrupt([s EXCEPT !.cause = @ \ {"IP3"}])

\* c: the machine and the drive.
dd_update_bm(c) ==
  LET d == [c.dd EXCEPT !.block = IF c.dd.sector >= Stride THEN 1 ELSE 0]
      s == InBlock(c.dd.sector)
      u == IF d.read THEN UpdateRead(d, s) ELSE UpdateWrite(d, s)
  IN  IF ~c.dd.run THEN c
      ELSE [m |-> Raise(c.m), dd |-> [u EXCEPT !.bm = TRUE]]

-----------------------------------------------------------------------------
(* dd_controller.c *)

\* The history of a transfer ends when the guest leaves the protocol.
Recorded(d) ==
  IF d.follows THEN d
  ELSE [d EXCEPT !.first = 0, !.moved = 0, !.sec_buf = Anything, !.disk = Labels]

DriveBecomes(c) == m' = c.m /\ dd' = Recorded(c.dd) /\ UNCHANGED cart

\* A read of CMD_STATUS acknowledges the interrupts of the C2 sectors and the
\* gap.
read_dd_regs ==
  /\ DriveBecomes(IF dd.bm /\ InBlock(dd.sector) > SECTORS_PER_BLOCK
             THEN dd_update_bm([m |-> Lower(m), dd |-> [dd EXCEPT !.bm = FALSE]])
             ELSE [m |-> m, dd |-> dd])
  /\ UNCHANGED pi

\* Releasing the reset of the block manager.
BmReset(d) ==
  [d EXCEPT !.hold = FALSE, !.data = FALSE, !.c2 = FALSE, !.bm = FALSE,
            !.run = FALSE, !.again = FALSE, !.error = FALSE,
            !.block = 0, !.sector = 0]

\* Mutant: a BM reset leaves the interrupt pending.
Acknowledge_mecha(s, d, w) ==
  IF ~d.mecha /\ ~d.bm /\ "mecha_reset" \in w THEN Lower(s) ELSE s

\* The interrupt is taken back when nothing asks for it.
Acknowledge(s, d, w) == IF ~d.mecha /\ ~d.bm THEN Lower(s) ELSE s

\* ASIC_BM_STATUS_CTL
WriteBmStatus(sector, w) ==
  LET b == [dd EXCEPT !.sector = sector, !.disk = Labels,
                      !.block = IF sector < Stride THEN 0 ELSE 1,
                      !.mecha = @ /\ "mecha_reset" \notin w,
                      !.again = @ \/ "again" \in w,
                      !.hold = @ \/ "reset" \in w,
                      !.first = IF sector < Stride THEN 0 ELSE 1, !.moved = 0,
                      !.follows = /\ w \cap {"start", "reset"} = {"start"}
                                  /\ InBlock(sector) = 0 /\ ~dd.hold /\ ~dd.data
                                  /\ m.queued["PI"] = 0]
      r == IF b.hold /\ "reset" \notin w THEN BmReset(b) ELSE b
      a == Acknowledge(m, r, w)
  IN  /\ DriveBecomes(IF "start" \in w
                 THEN dd_update_bm([m |-> a, dd |-> [r EXCEPT !.run = TRUE]])
                 ELSE [m |-> a, dd |-> r])
      /\ UNCHANGED pi

\* ASIC_CMD_STATUS: a seek selects a track and reading or writing; other
\* commands only answer.
WriteCmdStatus(command, track6) ==
  /\ DriveBecomes([m |-> Raise(m),
              dd |-> [dd EXCEPT
                        !.read = CASE command = "seek_read"  -> TRUE
                                   [] command = "seek_write" -> FALSE
                                   [] OTHER                  -> @,
                        !.protected = IF command = "other" THEN @ ELSE track6,
                        !.mecha = TRUE,
                        !.follows = @ /\ command = "other"]])
  /\ UNCHANGED pi

-----------------------------------------------------------------------------
(* pi_controller.c *)

\* A write of PI_CART_ADDR: the addresses of the buffers acknowledge.
WriteCartAddr(a) ==
  /\ DriveBecomes([m |-> IF a = "other" THEN m ELSE Lower(m),
              dd |-> [dd EXCEPT
                        !.cart_addr = a, !.data = @ /\ a # "sector",
                        !.c2 = @ /\ a # "c2", !.bm = @ /\ a = "other",
                        !.follows = @ /\ m.queued["PI"] = 0]])
  /\ UNCHANGED pi

\* dma_pi_read (send) and dma_pi_write for the drive's addresses.  The guest
\* waits for a DMA; PiController has the ones that overlap.
DiskDma(send) ==
  /\ ~Busy(pi)
  /\ StartDma(~send)
  /\ LET in_sectors == InBlock(dd.sector) \in 1 .. SECTORS_PER_BLOCK
         follows == /\ dd.follows /\ send = ~dd.read
                    /\ ~PoolEmpty(m)
                    /\ \/ /\ dd.cart_addr = "sector" /\ ~dd.data /\ in_sectors
                          /\ dd.moved < 2 * SECTORS_PER_BLOCK
                       \/ dd.cart_addr = "c2" /\ dd.read /\ ~in_sectors
     IN  dd' = Recorded([dd EXCEPT
                 !.sec_buf = IF send /\ dd.cart_addr = "sector" THEN <<"new", dd.moved>> ELSE @,
                 !.moved = IF follows /\ dd.cart_addr = "sector" THEN @ + 1 ELSE @,
                 !.follows = follows])
  /\ UNCHANGED cart

disk_end_of_dma_event ==
  /\ "PI" \in Due(m)
  /\ \E s \in Dispatch(m, "PI") :
       DriveBecomes(IF dd.cart_addr = "other" THEN [m |-> s, dd |-> dd]
               ELSE dd_update_bm([m |-> s, dd |-> dd]))
  /\ pi' = [pi EXCEPT !.dma_busy = FALSE, !.io_busy = FALSE]

-----------------------------------------------------------------------------
(* The rest of the machine *)

\* Resets come at any time here; their wait for a safe moment is in
\* RcpInterrupts.  An NMI forgets the DMA under way; nothing in it concerns
\* the drive.
DiskNmi ==
  /\ DriveBecomes([m |-> nmi_int_handler(m), dd |-> [dd EXCEPT !.follows = FALSE]])
  /\ pi' = Idle

\* poweron_dd and poweron_pi; CUR_BLOCK, dd_bm_mode_read and the disk stay, the
\* track is number 0.
DiskHardReset ==
  /\ m' = PowerOn
  /\ poweron_pi
  /\ pi' = Idle
  /\ dd' = Recorded([BmReset(dd) EXCEPT !.block = dd.block, !.mecha = FALSE,
               !.protected = FALSE, !.cart_addr = "other", !.follows = FALSE])

DiskInit ==
  /\ PiInit
  /\ dd = [run |-> FALSE, again |-> FALSE, error |-> FALSE, data |-> FALSE,
           c2 |-> FALSE, bm |-> FALSE, mecha |-> FALSE, sector |-> 0,
           block |-> 0, hold |-> FALSE, read |-> FALSE, protected |-> FALSE,
           cart_addr |-> "other", sec_buf |-> Anything, disk |-> Labels,
           first |-> 0, moved |-> 0, follows |-> FALSE]

DiskNext ==
  \/ read_dd_regs
  \/ \E sector \in {0, Stride}, w \in BmWrites : WriteBmStatus(sector, w)
  \/ \E command \in {"seek_read", "seek_write"}, track6 \in BOOLEAN :
       WriteCmdStatus(command, track6)
  \/ WriteCmdStatus("other", FALSE)
  \/ \E a \in {"c2", "sector", "other"} : WriteCartAddr(a)
  \/ \E send \in BOOLEAN : DiskDma(send)
  \/ disk_end_of_dma_event
  \/ DiskNmi
  \/ DiskHardReset

DiskSpec == DiskInit /\ [][DiskNext]_<<m, cart, pi, dd>>

-----------------------------------------------------------------------------
(* Properties *)

\* The drive's interrupt is pending in Cause only while CMD_STATUS gives a
\* reason for it, whichever of the four ways to acknowledge was taken last and
\* whatever was reset: a handler always finds something to acknowledge.
InterruptHasReason == "IP3" \in m.cause => dd.bm \/ dd.mecha

\* To a guest that keeps to the protocol the drive offers the sectors of the
\* two blocks one after the other, none twice and none left out, over the C2
\* sectors, the gap and the change of block, however often it polls
\* CMD_STATUS and its DMAs end early or late.
ReadsInOrder ==
  dd.follows /\ dd.read /\ dd.data =>
    LET place == (dd.first * SECTORS_PER_BLOCK + dd.moved) % (2 * SECTORS_PER_BLOCK)
    IN  dd.sec_buf = dd.disk[place] /\ dd.moved < 2 * SECTORS_PER_BLOCK

\* The sectors such a guest sends are on the disk in their places once their
\* DMAs have ended.  Excepted is the last sector of a block: UpdateWrite stores
\* it in the other block, or not at all, and the start of a transfer stores the
\* old buffer over the last sector of the block before.
SectorsInPlace ==
  dd.follows /\ ~dd.read /\ dd.run /\ m.queued["PI"] = 0 =>
    \A j \in 0 .. dd.moved - 1 :
      (j + 1) % SECTORS_PER_BLOCK # 0 =>
        dd.disk[(dd.first * SECTORS_PER_BLOCK + j) % (2 * SECTORS_PER_BLOCK)] = <<"new", j>>

\* The order of sectors in both directions.
SectorsInOrder == DiskTypeOK /\ ReadsInOrder /\ SectorsInPlace

=============================================================================
