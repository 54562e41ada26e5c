---------------------------- MODULE PiController ----------------------------
(***************************************************************************)
(* DMA of the peripheral interface (pi/pi_controller.c) between RDRAM and  *)
(* the cartridge, with its interrupt (RcpInterrupts) and the save memory   *)
(* (SaveMedia).                                                            *)
(*                                                                         *)
(* The data moves inside the register write; PI_STATUS then says busy      *)
(* until the queued PI_INT is dispatched.  A write of a length register is *)
(* not refused while busy.  The 64DD's part is in DiskDrive.               *)
(***************************************************************************)
EXTENDS RcpInterrupts, SaveMedia

CONSTANTS GuestCommands  \* FlashRAM commands the guest uses

ASSUME PiAssumption == "PI" \in Lines /\ GuestCommands \subseteq Commands

VARIABLE pi

\* dma_busy, io_busy: bits of PI_STATUS.  History: dropped, the queue had no
\* node for a PI_INT; overlapped, a DMA was started while one was under way.
Pi == [dma_busy : BOOLEAN, io_busy : BOOLEAN,
       dropped : BOOLEAN, overlapped : BOOLEAN]

PiTypeOK == TypeOK /\ CartTypeOK /\ pi \in Pi

piVars == <<m, cart, pi>>

Busy(p) == p.dma_busy \/ p.io_busy

-----------------------------------------------------------------------------
\* The end of dma_pi_read and dma_pi_write: busy, and PI_INT is queued.
StartDma(io) ==
  /\ m.queued["PI"] < MaxQueued
  /\ m' = add_interrupt_event(m, "PI")
  /\ pi' = [pi EXCEPT !.dma_busy = TRUE, !.io_busy = @ \/ io,
                      !.dropped = @ \/ PoolEmpty(m),
                      !.overlapped = @ \/ Busy(pi)]

\* PI_RD_LEN: the save domain, or an address the code does not know.
dma_pi_read ==
  /\ SendToCart \/ UNCHANGED cart
  /\ StartDma(FALSE)

\* PI_WR_LEN: the save domain, the ROM (its data does not concern cart), an
\* unknown address, or one above 0x1fc00000, which does not set io_busy.
dma_pi_write ==
  \/ (\E row \in Rows : FetchFromCart(row)) /\ StartDma(TRUE)
  \/ UNCHANGED cart /\ \E io \in BOOLEAN : StartDma(io)

\* Mutant: the end of a DMA is put off once more.
pi_end_of_dma_event_retry ==
  /\ ~m.reset_hard_job /\ "PI" \in Due(m)
  /\ \E s \in Dispatch(m, "PI") : m' = add_interrupt_event(s, "PI")
  /\ UNCHANGED <<cart, pi>>

pi_end_of_dma_event ==
  /\ TakeEvent("PI")
  /\ pi' = [pi EXCEPT !.dma_busy = FALSE, !.io_busy = FALSE]
  /\ UNCHANGED cart

\* PI_STATUS: acknowledge the interrupt.
WritePiStatus == ClearLine("PI") /\ UNCHANGED <<cart, pi>>

\* The other events of the queue.
PiOtherEvent ==
  /\ \E e \in {"CHECK"} \cup (Events \ {"PI", "NMI"}) : TakeEvent(e)
  /\ UNCHANGED <<cart, pi>>

\* MTC0 Status, a write of MI_INTR_MASK (which ends in PiHardReset when that is
\* asked for), the reset buttons.
PiCpu ==
  /\ \/ \E v \in StatusValues :
          m' = Settle(check_interrupt([m EXCEPT !.status = v]))
     \/ /\ ~m.reset_hard_job
        /\ m' = Settle(check_interrupt(update_mi_intr_mask(m, {}, {"PI"})))
     \/ reset_soft
     \/ reset_hard
  /\ UNCHANGED <<cart, pi>>

FlashCommands ==
  /\ \/ read_flashram_status
     \/ \E command \in GuestCommands, row \in Rows :
          write_flashram_command(command, row)
  /\ UNCHANGED <<m, pi>>

\* PI_DRAM_ADDR, and the guest's stores to the pages.
DramWrites ==
  /\ \/ \E p \in Pages : WriteDramAddr(p)
     \/ \E p \in Pages, d \in Data : StoreRdram(p, d)
  /\ UNCHANGED <<m, pi>>

Idle == [dma_busy |-> FALSE, io_busy |-> FALSE,
         dropped |-> FALSE, overlapped |-> FALSE]

\* Mutant: the boot code leaves PI_STATUS.
PiNmi_status == TakeEvent("NMI") /\ UNCHANGED <<cart, pi>>

\* nmi_int_handler forgets the queued PI_INT; pifbootrom_hle_execute clears
\* PI_STATUS.
PiNmi == TakeEvent("NMI") /\ pi' = Idle /\ UNCHANGED cart

\* gen_interrupt with a hard reset asked for: poweron_device.
PiHardReset ==
  /\ m.reset_hard_job
  /\ m' = PowerOn
  /\ poweron_pi
  /\ pi' = Idle

PiInit == Init /\ CartInit /\ pi = Idle

PiNext ==
  \/ dma_pi_read
  \/ dma_pi_write
  \/ pi_end_of_dma_event
  \/ WritePiStatus
  \/ PiOtherEvent
  \/ PiCpu
  \/ FlashCommands
  \/ DramWrites
  \/ PiNmi
  \/ PiHardReset

PiSafeSpec == PiInit /\ [][PiNext]_piVars

\* The guest keeps running, so that Count passes every event in the queue
\* (EventQueue shows that none is passed over), and resets are carried out.
PiFairness ==
  /\ SF_piVars(pi_end_of_dma_event)
  /\ WF_piVars(TakeEvent("CHECK") /\ UNCHANGED <<cart, pi>>)
  /\ WF_piVars(PiHardReset)

PiSpec == PiSafeSpec /\ PiFairness

-----------------------------------------------------------------------------
(* Properties *)

\* PI_STATUS says busy exactly while a PI_INT is queued, across both kinds of
\* reset, for a guest that waits for the end of a DMA before the next one, as
\* long as the event queue is not full: a guest that polls PI_STATUS is never
\* left waiting, and is not told too early that the data is there.
BusyUntilInterrupt ==
  /\ PiTypeOK
  /\ ~pi.dropped => (Busy(pi) => m.queued["PI"] > 0)
  /\ ~pi.overlapped => (m.queued["PI"] > 0 => Busy(pi))

\* A busy PI becomes idle, however often the guest starts another DMA, changes
\* the interrupt mask or is reset.
DmaEnds == Busy(pi) /\ ~pi.dropped ~> ~Busy(pi) \/ pi.dropped

=============================================================================
