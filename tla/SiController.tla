---------------------------- MODULE SiController ----------------------------
(***************************************************************************)
(* The serial interface (si/si_controller.c) and the PIF behind it         *)
(* (si/pif.c), with the interrupt logic of RcpInterrupts.                  *)
(*                                                                         *)
(* The guest sends 64 bytes to the PIF by DMA, which processes them at     *)
(* once, and fetches them back by DMA, when the buttons are filled in.     *)
(* The last byte says what the bytes are: joybus commands, a challenge to  *)
(* the CIC, or a command to the PIF itself.  With delay_si a DMA ends with *)
(* a queued SI_INT, otherwise inside the register write.                   *)
(***************************************************************************)
EXTENDS RcpInterrupts

ASSUME SiAssumption == "SI" \in Lines

\* The last byte of PIF RAM: none or joybus commands (0 and 1), a challenge,
\* terminate boot, and any other value.
ControlBytes == {"0", "1", "2", "8", "other"}

\* The other bytes: zeros, joybus commands as sent, with their answers, with
\* the buttons filled in, the answer to a challenge, or that answer taken for
\* commands.
RamContents == {"zeros", "sent", "processed", "buttons", "response", "garbled"}

VARIABLE si

\* delay: g_delay_si, a setting of the frontend; dma_busy, interrupt: bits of
\* SI_STATUS; ram, control, cic_challenge: PIF.
\* History: abandoned, an NMI came while a DMA was under way; dropped, the
\* event queue had no node for an SI_INT; poked, the CPU wrote the last word
\* of PIF RAM since the last DMA to the PIF.
Si == [delay : BOOLEAN, dma_busy : BOOLEAN, interrupt : BOOLEAN,
       ram : RamContents, control : ControlBytes, cic_challenge : BOOLEAN,
       abandoned : BOOLEAN, dropped : BOOLEAN, poked : BOOLEAN]

SiTypeOK == TypeOK /\ si \in Si

siVars == <<m, si>>

-----------------------------------------------------------------------------
(* pif.c *)

\* The loop of update_pif_write over the commands.
ProcessCommands(s) ==
  [s EXCEPT !.ram = IF @ \in {"response", "garbled"} THEN "garbled"
                    ELSE IF @ = "zeros" THEN "zeros" ELSE "processed"]

update_pif_write(s) ==
  LET c == [s EXCEPT !.cic_challenge = FALSE]
  IN  CASE c.control = "2"     -> [c EXCEPT !.ram = "response", !.control = "0",
                                            !.cic_challenge = TRUE]
        [] c.control = "8"     -> [c EXCEPT !.control = "0"]
        [] c.control = "other" -> c
        [] OTHER               -> ProcessCommands(c)

\* Mutant: a challenge result is processed as if it were commands.
update_pif_read_any(s) ==
  [s EXCEPT !.ram = CASE @ = "processed" -> "buttons"
                      [] @ = "response"  -> "garbled"
                      [] OTHER           -> @]

\* The buttons are filled in; commands that were never processed are too.
update_pif_read(s) ==
  IF s.cic_challenge THEN s
  ELSE [s EXCEPT !.ram = CASE @ \in {"sent", "processed"} -> "buttons"
                           [] @ = "response"  -> "garbled"
                           [] OTHER           -> @]

-----------------------------------------------------------------------------
(* si_controller.c *)

\* The end of dma_si_write and dma_si_read, c: SI after the transfer.
EndOfTransfer(c) ==
  IF c.delay
  THEN /\ m' = add_interrupt_event(m, "SI")
       /\ si' = [c EXCEPT !.dma_busy = TRUE, !.dropped = @ \/ PoolEmpty(m)]
  ELSE /\ m' = signal_rcp_interrupt(m, "SI")
       /\ si' = [c EXCEPT !.interrupt = TRUE]

\* SI_PIF_ADDR_WR64B: RDRAM to the PIF.
dma_si_write(control) ==
  /\ m.queued["SI"] < MaxQueued
  /\ EndOfTransfer(update_pif_write(
       [si EXCEPT !.ram = "sent", !.control = control, !.poked = FALSE]))

\* SI_PIF_ADDR_RD64B: the PIF to RDRAM.
dma_si_read ==
  /\ m.queued["SI"] < MaxQueued
  /\ EndOfTransfer(update_pif_read(si))

\* Mutant: the bit of SI_STATUS is left.
WriteSiStatus_mi == ClearLine("SI") /\ UNCHANGED si

\* A write of SI_STATUS acknowledges the interrupt.
WriteSiStatus ==
  /\ ClearLine("SI")
  /\ si' = [si EXCEPT !.interrupt = FALSE]

\* The CPU writes the last word of PIF RAM.  The assignment to ram[addr] stores
\* one byte, that of the address: the last byte keeps its value.
write_pif_ram ==
  /\ m.queued["SI"] < MaxQueued
  /\ LET s == [si EXCEPT !.poked = TRUE]
     IN  IF s.control = "8"
         THEN /\ m' = add_interrupt_event(m, "SI")
              /\ si' = [s EXCEPT !.control = "0"]
         ELSE /\ si' = update_pif_write(s)
              /\ UNCHANGED m

si_end_of_dma_event ==
  /\ TakeEvent("SI")
  /\ si' = [si EXCEPT !.control = "0", !.dma_busy = FALSE, !.interrupt = TRUE,
                      !.abandoned = FALSE]

-----------------------------------------------------------------------------
(* The rest of the machine *)

SiOtherEvent ==
  /\ \E e \in {"CHECK"} \cup (Events \ {"SI", "NMI"}) : TakeEvent(e)
  /\ UNCHANGED si

\* MTC0 Status, a write of MI_INTR_MASK (which ends in SiHardReset when that is
\* asked for), the reset buttons.
SiCpu ==
  /\ \/ \E v \in StatusValues :
          m' = Settle(check_interrupt([m EXCEPT !.status = v]))
     \/ /\ ~m.reset_hard_job
        /\ m' = Settle(check_interrupt(update_mi_intr_mask(m, {}, {"SI"})))
     \/ reset_soft
     \/ reset_hard
  /\ UNCHANGED si

\* nmi_int_handler forgets a queued SI_INT; nothing in it or in
\* pifbootrom_hle_execute concerns the SI.
SiNmi ==
  /\ TakeEvent("NMI")
  /\ si' = [si EXCEPT !.abandoned = @ \/ si.dma_busy]

\* poweron_si clears the registers and PIF RAM, not cic_challenge.
PoweredOn(s) ==
  [s EXCEPT !.dma_busy = FALSE, !.interrupt = FALSE, !.ram = "zeros",
            !.control = "0", !.abandoned = FALSE, !.dropped = FALSE,
            !.poked = FALSE]

SiHardReset ==
  /\ m.reset_hard_job
  /\ m' = PowerOn
  /\ si' = PoweredOn(si)

SiInit ==
  /\ Init
  /\ \E d \in BOOLEAN :
       si = [delay |-> d, dma_busy |-> FALSE, interrupt |-> FALSE,
             ram |-> "zeros", control |-> "0", cic_challenge |-> FALSE,
             abandoned |-> FALSE, dropped |-> FALSE, poked |-> FALSE]

SiNext ==
  \/ \E control \in ControlBytes : dma_si_write(control)
  \/ dma_si_read
  \/ WriteSiStatus
  \/ write_pif_ram
  \/ si_end_of_dma_event
  \/ SiOtherEvent
  \/ SiCpu
  \/ SiNmi
  \/ SiHardReset

SiSpec == SiInit /\ [][SiNext]_siVars

-----------------------------------------------------------------------------
(* Properties *)

\* SI_STATUS tells the truth, in both DMA modes, when an acknowledgement races a
\* completion, and after both resets: it agrees with MI_INTR about the interrupt,
\* whichever of the two the guest polls, and says busy only while the SI_INT that
\* ends the transfer is queued, unless an NMI threw that away or the queue was
\* full.
SiStatusTrue ==
  /\ SiTypeOK
  /\ si.interrupt <=> "SI" \in m.intr
  /\ si.dma_busy /\ ~si.abandoned /\ ~si.dropped => m.queued["SI"] > 0

\* The answer to a CIC challenge is never processed "as if it were normal
\* commands" (update_pif_read) before the guest sends something else, unless
\* it pokes the last word of PIF RAM; and an earlier challenge never keeps the
\* buttons from being filled in.
ResponseIntact ==
  /\ si.ram = "response" => si.cic_challenge
  /\ si.ram = "garbled" => si.poked
  /\ si.cic_challenge => si.ram \in {"response", "zeros"}

=============================================================================
