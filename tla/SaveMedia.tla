----------------------------- MODULE SaveMedia -----------------------------
(***************************************************************************)
(* The save memory of a cartridge behind the peripheral interface          *)
(* (pi/flashram.c, pi/sram.c and the save domain of pi_controller.c).      *)
(*                                                                         *)
(* Nothing says whether a cartridge has SRAM or FlashRAM: the first use    *)
(* decides.  FlashRAM is a command machine: to program a row the guest     *)
(* selects write mode, sends a page by DMA, names the row and executes.    *)
(* The code keeps only the address of the page and copies it when the      *)
(* command is executed.                                                    *)
(***************************************************************************)
EXTENDS Integers

CONSTANTS Pages,    \* pages of RDRAM the guest uses for saving
          FirstPage,\* the page at address 0
          Rows,     \* rows of the FlashRAM (1024 of 128 bytes in the code)
          FirstRow, \* the row at offset 0
          Data      \* contents of a page the guest writes

Modes == {"NOPES", "ERASE", "WRITE", "READ", "STATUS"}

\* What a page, a row or the SRAM can hold: data, 0xff after an erase, 0 in a
\* new SRAM, or the status register.
Erased == "erased"
Zeros == "zeros"
StatusWord == "status"
Contents == Data \cup {Erased, Zeros, StatusWord}

ASSUME SaveAssumption ==
  /\ FirstPage \in Pages /\ FirstRow \in Rows
  /\ Data # {} /\ Data \cap {Erased, Zeros, StatusWord} = {}

VARIABLE cart

\* The FlashRAM chip the guest believes it talks to, which sees the guest's
\* operations and nothing of the code's registers.  intent: what executing will
\* do; row: the row named last; page: the page sent last; buffer: what that page
\* has held since it was sent; rows: what each row may hold.
Chip == [intent : {"none", "erase", "program"}, row : Rows, page : Pages,
         buffer : SUBSET Contents, rows : [Rows -> SUBSET Contents]]

\* dram_addr: PI_DRAM_ADDR; use_flashram: 0 undecided, 1 FlashRAM, -1 SRAM;
\* ram: the pages.  History: chip, see Chip.
Cart ==
  [use_flashram : {-1, 0, 1}, mode : Modes,
   erase_offset : Rows, write_pointer : Pages, dram_addr : Pages,
   flash : [Rows -> Contents], sram : Contents, ram : [Pages -> Contents],
   chip : Chip]

CartTypeOK == cart \in Cart

-----------------------------------------------------------------------------
(* flashram.c *)

\* Execute in write mode: the row gets what the page holds now.
ProgramRow(c) ==
  [c EXCEPT !.flash[c.erase_offset] = c.ram[c.write_pointer]]

EraseRow(c) == [c EXCEPT !.flash[c.erase_offset] = Erased]

Execute(c) ==
  [(CASE c.mode = "ERASE" -> EraseRow(c)
      [] c.mode = "WRITE" -> ProgramRow(c)
      [] OTHER            -> c) EXCEPT !.mode = "NOPES"]

\* Commands by the value of their first byte; 0x4b and 0xa5 name a row.
flashram_command(c, command, row) ==
  CASE command \in {"4b", "a5"} -> [c EXCEPT !.erase_offset = row]
    [] command = "78"           -> [c EXCEPT !.mode = "ERASE"]
    [] command = "b4"           -> [c EXCEPT !.mode = "WRITE"]
    [] command = "d2"           -> Execute(c)
    [] command = "e1"           -> [c EXCEPT !.mode = "STATUS"]
    [] command = "f0"           -> [c EXCEPT !.mode = "READ"]

Commands == {"4b", "78", "a5", "b4", "d2", "e1", "f0"}

\* Mutant: the pointer is not taken.
dma_write_flashram_late(c) == c

dma_write_flashram(c) ==
  IF c.mode # "WRITE" THEN c ELSE [c EXCEPT !.write_pointer = c.dram_addr]

\* row: from PI_CART_ADDR.
dma_read_flashram(c, row) ==
  CASE c.mode = "STATUS" -> [c EXCEPT !.ram[c.dram_addr] = StatusWord]
    [] c.mode = "READ"   -> [c EXCEPT !.ram[c.dram_addr] = c.flash[row]]
    [] OTHER             -> c

poweron_flashram(c) ==
  [c EXCEPT !.mode = "NOPES", !.erase_offset = FirstRow,
            !.write_pointer = FirstPage]

-----------------------------------------------------------------------------
(* sram.c, and the save domain of dma_pi_read and dma_pi_write *)

dma_write_sram(c) == [c EXCEPT !.sram = c.ram[c.dram_addr]]

dma_read_sram(c) == [c EXCEPT !.ram[c.dram_addr] = c.sram]

\* Mutant: a write to SRAM does not decide.
SaveDmaRead_undecided(c) ==
  IF c.use_flashram # 1 THEN dma_write_sram(c) ELSE dma_write_flashram(c)

\* dma_pi_read, RDRAM to the save domain.
SaveDmaRead(c) ==
  IF c.use_flashram # 1
  THEN [dma_write_sram(c) EXCEPT !.use_flashram = -1]
  ELSE dma_write_flashram(c)

\* dma_pi_write, the save domain to RDRAM.
SaveDmaWrite(c, row) ==
  IF c.use_flashram # 1
  THEN [dma_read_sram(c) EXCEPT !.use_flashram = -1]
  ELSE dma_read_flashram(c, row)

-----------------------------------------------------------------------------
(* The chip of the history *)

\* Before the first DMA its buffer may hold anything.
ChipReset(k) ==
  [k EXCEPT !.intent = "none", !.row = FirstRow, !.page = FirstPage,
            !.buffer = Contents]

ChipCommand(k, command, row) ==
  [k EXCEPT
    !.row = IF command \in {"4b", "a5"} THEN row ELSE @,
    !.intent = CASE command = "78"                 -> "erase"
                 [] command = "b4"                 -> "program"
                 [] command \in {"d2", "e1", "f0"} -> "none"
                 [] OTHER                          -> @,
    !.rows = IF command # "d2" \/ k.intent = "none" THEN @
             ELSE [@ EXCEPT ![k.row] = IF k.intent = "erase" THEN {Erased}
                                       ELSE k.buffer]]

\* A DMA of the page p, which holds d.
ChipSend(k, p, d) ==
  IF k.intent # "program" THEN k ELSE [k EXCEPT !.page = p, !.buffer = {d}]

\* RDRAM has changed.
Watched(c) == [c EXCEPT !.chip.buffer = @ \cup {c.ram[c.chip.page]}]

-----------------------------------------------------------------------------
CartInit ==
  \E d \in Data :
    cart = [use_flashram |-> 0, mode |-> "NOPES", erase_offset |-> FirstRow,
            write_pointer |-> FirstPage, dram_addr |-> FirstPage,
            flash |-> [r \in Rows |-> Erased], sram |-> Zeros,
            ram |-> [p \in Pages |-> d],
            chip |-> [intent |-> "none", row |-> FirstRow, page |-> FirstPage,
                      buffer |-> Contents, rows |-> [r \in Rows |-> {Erased}]]]

\* PI_RD_LEN and PI_WR_LEN with the save domain in PI_CART_ADDR; the busy bits
\* and the interrupt are in PiController.
SendToCart ==
  cart' = [SaveDmaRead(cart) EXCEPT
             !.chip = ChipSend(cart.chip, cart.dram_addr,
                               cart.ram[cart.dram_addr])]

FetchFromCart(row) == cart' = Watched(SaveDmaWrite(cart, row))

read_flashram_status ==
  /\ cart.use_flashram # -1
  /\ cart' = [cart EXCEPT !.use_flashram = 1]

write_flashram_command(command, row) ==
  /\ cart.use_flashram # -1
  /\ cart' = [flashram_command([cart EXCEPT !.use_flashram = 1], command, row)
                EXCEPT !.chip = ChipCommand(cart.chip, command, row)]

WriteDramAddr(p) == cart' = [cart EXCEPT !.dram_addr = p]

\* The guest stores to RDRAM.
StoreRdram(p, d) == cart' = Watched([cart EXCEPT !.ram[p] = d])

\* poweron_pi: the registers and the FlashRAM, not use_flashram.  RDRAM is
\* filled again before the guest uses it.
poweron_pi ==
  cart' = poweron_flashram([cart EXCEPT !.dram_addr = FirstPage,
                                        !.chip = ChipReset(@)])

CartNext ==
  \/ SendToCart
  \/ \E row \in Rows : FetchFromCart(row)
  \/ read_flashram_status
  \/ \E command \in Commands, row \in Rows : write_flashram_command(command, row)
  \/ \E p \in Pages : WriteDramAddr(p)
  \/ \E p \in Pages, d \in Data : StoreRdram(p, d)
  \/ poweron_pi

CartSpec == CartInit /\ [][CartNext]_cart

-----------------------------------------------------------------------------
(* Properties *)

\* A row holds what the guest last asked for: the chip's rows are erased and
\* programmed where and when the guest's commands say, and from the page it sent,
\* although flashram_command keeps no more of the page than its address and reads
\* it when the command is executed.  Commands, DMAs, stores, changes of
\* PI_DRAM_ADDR and resets come in between.  The hardware copies the page when it
\* is sent; here the row may also get what the guest has put there since.
RowsHoldRequested ==
  /\ CartTypeOK
  /\ \A r \in Rows : cart.flash[r] \in cart.chip.rows[r]

\* The first use decides between SRAM and FlashRAM for good, across resets,
\* and from then on no operation changes the other memory.
MediumDecidedOnce ==
  [][/\ cart.use_flashram # 0 => cart'.use_flashram = cart.use_flashram
     /\ cart'.use_flashram # -1 => cart'.sram = cart.sram
     /\ cart.use_flashram = -1 => cart'.flash = cart.flash]_cart

=============================================================================
