---------------------------- MODULE PiBus_proofs ----------------------------
(***************************************************************************)
(* What hangs on the peripheral interface: the save memory, the interface  *)
(* itself and the 64DD.  The save memory holds what the guest asked for,   *)
(* and the choice between SRAM and FlashRAM is made once, for any numbers  *)
(* of pages, rows and data.  PI_STATUS says busy exactly while a PI_INT is *)
(* queued, and the save memory is right behind the peripheral interface    *)
(* too, for any set of interrupt lines, any size of the event pool and any *)
(* bound on the queued completions.  The drive's interrupt always has a    *)
(* reason, and a guest that keeps to the protocol gets the sectors of a    *)
(* transfer in order and finds those it sent in their places, for any      *)
(* number of sectors in a block and of C2 sectors after it.                *)
(***************************************************************************)
EXTENDS DiskDrive, RcpInterrupts_proofs

-----------------------------------------------------------------------------
(* The save memory *)

\* What the code keeps agrees with what the chip knows: what RowsHoldRequested
\* needs to be inductive.  A mode other than NOPES means that the medium is
\* decided, so no DMA goes to the SRAM that the chip takes for its own.
Agrees(c, k) ==
  /\ c.mode = "ERASE" <=> k.intent = "erase"
  /\ c.mode = "WRITE" <=> k.intent = "program"
  /\ c.mode # "NOPES" => c.use_flashram = 1
  /\ c.erase_offset = k.row
  /\ c.write_pointer = k.page
  /\ c.ram[k.page] \in k.buffer

RowsRight(c, k) == \A r \in Rows : c.flash[r] \in k.rows[r]

CartOK(c) == c \in Cart /\ Agrees(c, c.chip) /\ RowsRight(c, c.chip)

\* The inductive invariant.
CartInv == CartOK(cart)

LEMMA CartFields ==
  ASSUME NEW c \in Cart
  PROVE  /\ c.use_flashram \in {-1, 0, 1} /\ c.mode \in Modes
         /\ c.erase_offset \in Rows /\ c.write_pointer \in Pages
         /\ c.dram_addr \in Pages /\ c.flash \in [Rows -> Contents]
         /\ c.sram \in Contents /\ c.ram \in [Pages -> Contents]
         /\ c.chip \in Chip
BY DEF Cart

LEMMA ContentsOK == {Erased, Zeros, StatusWord} \subseteq Contents
BY DEF Contents

\* A step that gives the cartridge a chip k.
LEMMA WithChipOK ==
  ASSUME NEW c \in Cart, NEW k \in Chip, Agrees(c, k), RowsRight(c, k)
  PROVE  CartOK([c EXCEPT !.chip = k])
<1> DEFINE d == [c EXCEPT !.chip = k]
<1>1. /\ d \in Cart /\ d.chip = k /\ d.mode = c.mode
      /\ d.use_flashram = c.use_flashram /\ d.erase_offset = c.erase_offset
      /\ d.write_pointer = c.write_pointer /\ d.ram = c.ram /\ d.flash = c.flash
  BY DEF Cart
<1> HIDE DEF d
<1>2. CartOK(d)
  BY <1>1 DEF CartOK, Agrees, RowsRight
<1> QED BY <1>2 DEF d

-----------------------------------------------------------------------------
(* Commands *)

\* What flashram_command changes.
Commanded(c, command, row, d) ==
  /\ d \in Cart /\ d.chip = c.chip /\ d.use_flashram = c.use_flashram
  /\ d.write_pointer = c.write_pointer /\ d.ram = c.ram
  /\ d.sram = c.sram
  /\ command \in {"4b", "a5"} => d.erase_offset = row /\ d.mode = c.mode
  /\ command \notin {"4b", "a5"} => d.erase_offset = c.erase_offset
  /\ command = "78" => d.mode = "ERASE"
  /\ command = "b4" => d.mode = "WRITE"
  /\ command = "d2" => d.mode = "NOPES"
  /\ command = "e1" => d.mode = "STATUS"
  /\ command = "f0" => d.mode = "READ"
  /\ command # "d2" \/ c.mode \notin {"ERASE", "WRITE"} => d.flash = c.flash
  /\ command = "d2" /\ c.mode = "ERASE" =>
       d.flash = [c.flash EXCEPT ![c.erase_offset] = Erased]
  /\ command = "d2" /\ c.mode = "WRITE" =>
       d.flash = [c.flash EXCEPT ![c.erase_offset] = c.ram[c.write_pointer]]

LEMMA CommandIs ==
  ASSUME NEW c \in Cart, NEW command \in Commands, NEW row \in Rows
  PROVE  Commanded(c, command, row, flashram_command(c, command, row))
<1> DEFINE d == flashram_command(c, command, row)
<1>0. c.ram[c.write_pointer] \in Contents /\ Erased \in Contents
  BY CartFields, ContentsOK
<1>1. CASE command \in {"4b", "a5"}
  <2>1. d = [c EXCEPT !.erase_offset = row]
    BY <1>1 DEF flashram_command
  <2> HIDE DEF d
  <2>2. Commanded(c, command, row, d)
    BY <1>1, <2>1 DEF Commanded, Cart
  <2> QED BY <2>2 DEF d
<1>2. CASE command = "d2"
  <2> DEFINE x == CASE c.mode = "ERASE" -> EraseRow(c)
                    [] c.mode = "WRITE" -> ProgramRow(c)
                    [] OTHER            -> c
  <2>1. d = [x EXCEPT !.mode = "NOPES"]
    BY <1>2 DEF flashram_command, Execute
  <2>2. PICK f \in [Rows -> Contents] :
          /\ x = [c EXCEPT !.flash = f]
          /\ c.mode \notin {"ERASE", "WRITE"} => f = c.flash
          /\ c.mode = "ERASE" => f = [c.flash EXCEPT ![c.erase_offset] = Erased]
          /\ c.mode = "WRITE" =>
               f = [c.flash EXCEPT ![c.erase_offset] = c.ram[c.write_pointer]]
    <3>1. CASE c.mode = "ERASE"
      <4> DEFINE f == [c.flash EXCEPT ![c.erase_offset] = Erased]
      <4>1. x = [c EXCEPT !.flash = f] /\ f \in [Rows -> Contents]
        BY <1>0, <3>1, CartFields DEF EraseRow
      <4> QED BY <3>1, <4>1
    <3>2. CASE c.mode = "WRITE"
      <4> DEFINE f == [c.flash EXCEPT ![c.erase_offset] = c.ram[c.write_pointer]]
      <4>1. x = [c EXCEPT !.flash = f] /\ f \in [Rows -> Contents]
        BY <1>0, <3>2, CartFields DEF ProgramRow
      <4> QED BY <3>2, <4>1
    <3>3. CASE c.mode \notin {"ERASE", "WRITE"}
      <4>1. x = c /\ c = [c EXCEPT !.flash = c.flash]
        BY <3>3 DEF Cart
      <4> QED BY <3>3, <4>1, CartFields
    <3> QED BY <3>1, <3>2, <3>3
  <2> HIDE DEF x
  <2>3. d = [c EXCEPT !.flash = f, !.mode = "NOPES"]
    BY <2>1, <2>2 DEF Cart
  <2>4. /\ d \in Cart /\ d.chip = c.chip /\ d.use_flashram = c.use_flashram
        /\ d.write_pointer = c.write_pointer /\ d.ram = c.ram
        /\ d.sram = c.sram /\ d.erase_offset = c.erase_offset
        /\ d.mode = "NOPES" /\ d.flash = f
    BY <2>3 DEF Cart, Modes
  <2> HIDE DEF d
  <2>5. Commanded(c, command, row, d)
    BY <1>2, <2>2, <2>4 DEF Commanded
  <2> QED BY <2>5 DEF d
<1>3. CASE command \in {"78", "b4", "e1", "f0"}
  <2>1. PICK mode \in Modes :
          /\ d = [c EXCEPT !.mode = mode]
          /\ command = "78" => mode = "ERASE"
          /\ command = "b4" => mode = "WRITE"
          /\ command = "e1" => mode = "STATUS"
          /\ command = "f0" => mode = "READ"
    BY <1>3 DEF flashram_command, Modes
  <2>2. /\ d \in Cart /\ d.chip = c.chip /\ d.use_flashram = c.use_flashram
        /\ d.write_pointer = c.write_pointer /\ d.ram = c.ram
        /\ d.sram = c.sram /\ d.erase_offset = c.erase_offset
        /\ d.flash = c.flash /\ d.mode = mode
    BY <2>1 DEF Cart
  <2> HIDE DEF d
  <2>3. Commanded(c, command, row, d)
    BY <1>3, <2>1, <2>2 DEF Commanded
  <2> QED BY <2>3 DEF d
<1> QED BY <1>1, <1>2, <1>3 DEF Commands

\* And what it means to the chip.
ChipCommanded(k, command, row, n) ==
  /\ n \in Chip /\ n.page = k.page /\ n.buffer = k.buffer
  /\ command \in {"4b", "a5"} => n.row = row /\ n.intent = k.intent
  /\ command \notin {"4b", "a5"} => n.row = k.row
  /\ command = "78" => n.intent = "erase"
  /\ command = "b4" => n.intent = "program"
  /\ command \in {"d2", "e1", "f0"} => n.intent = "none"
  /\ command # "d2" \/ k.intent = "none" => n.rows = k.rows
  /\ command = "d2" /\ k.intent = "erase" =>
       n.rows = [k.rows EXCEPT ![k.row] = {Erased}]
  /\ command = "d2" /\ k.intent = "program" =>
       n.rows = [k.rows EXCEPT ![k.row] = k.buffer]

LEMMA ChipCommandIs ==
  ASSUME NEW k \in Chip, NEW command \in Commands, NEW row \in Rows
  PROVE  ChipCommanded(k, command, row, ChipCommand(k, command, row))
<1> DEFINE w == IF command \in {"4b", "a5"} THEN row ELSE k.row
           i == CASE command = "78"                 -> "erase"
                  [] command = "b4"                 -> "program"
                  [] command \in {"d2", "e1", "f0"} -> "none"
                  [] OTHER                          -> k.intent
           q == IF command # "d2" \/ k.intent = "none" THEN k.rows
                ELSE [k.rows EXCEPT ![k.row] = IF k.intent = "erase" THEN {Erased}
                                               ELSE k.buffer]
           n == ChipCommand(k, command, row)
<1>1. n = [k EXCEPT !.row = w, !.intent = i, !.rows = q]
  BY DEF ChipCommand
<1>2. w \in Rows /\ i \in {"none", "erase", "program"}
  BY DEF Commands, Chip
<1>3. q \in [Rows -> SUBSET Contents]
  BY ContentsOK DEF Chip
<1>4. /\ command \in {"4b", "a5"} => w = row /\ i = k.intent
      /\ command \notin {"4b", "a5"} => w = k.row
      /\ command = "78" => i = "erase"
      /\ command = "b4" => i = "program"
      /\ command \in {"d2", "e1", "f0"} => i = "none"
  BY DEF Commands
<1>5. /\ command # "d2" \/ k.intent = "none" => q = k.rows
      /\ command = "d2" /\ k.intent = "erase" =>
           q = [k.rows EXCEPT ![k.row] = {Erased}]
      /\ command = "d2" /\ k.intent = "program" =>
           q = [k.rows EXCEPT ![k.row] = k.buffer]
  OBVIOUS
<1> HIDE DEF w, i, q, n
<1>6. /\ n \in Chip /\ n.page = k.page /\ n.buffer = k.buffer
      /\ n.row = w /\ n.intent = i /\ n.rows = q
  BY <1>1, <1>2, <1>3 DEF Chip
<1>7. ChipCommanded(k, command, row, n)
  BY <1>4, <1>5, <1>6 DEF ChipCommanded
<1> QED BY <1>7 DEF n

LEMMA CommandOK ==
  ASSUME CartOK(cart), NEW command \in Commands, NEW row \in Rows,
         write_flashram_command(command, row)
  PROVE  CartOK(cart')
<1> DEFINE u == [cart EXCEPT !.use_flashram = 1]
           k == cart.chip
<1>1. /\ u \in Cart /\ u.use_flashram = 1 /\ u.mode = cart.mode
      /\ u.erase_offset = cart.erase_offset /\ u.ram = cart.ram
      /\ u.write_pointer = cart.write_pointer /\ u.flash = cart.flash
  BY DEF CartOK, Cart
<1>2. /\ k \in Chip /\ Agrees(cart, k) /\ RowsRight(cart, k)
      /\ cart.flash \in [Rows -> Contents] /\ cart.erase_offset \in Rows
      /\ k.rows \in [Rows -> SUBSET Contents] /\ cart.mode \in Modes
  BY CartFields DEF CartOK, Chip
<1>3. cart' = [flashram_command(u, command, row) EXCEPT
                 !.chip = ChipCommand(k, command, row)]
  BY DEF write_flashram_command
<1> HIDE DEF u, k
<1> DEFINE d == flashram_command(u, command, row)
           n == ChipCommand(k, command, row)
<1>d. Commanded(u, command, row, d)
  BY <1>1, CommandIs
<1>n. ChipCommanded(k, command, row, n)
  BY <1>2, ChipCommandIs
<1>x. cart' = [d EXCEPT !.chip = n]
  BY <1>3
<1> HIDE DEF d, n
<1>4. n \in Chip /\ n.page = k.page /\ n.buffer = k.buffer
  BY <1>2, <1>n DEF ChipCommanded
<1>5. /\ d \in Cart /\ d.use_flashram = 1 /\ d.ram = cart.ram
      /\ d.write_pointer = cart.write_pointer
  BY <1>1, <1>d DEF Commanded
<1>6. /\ command \in {"4b", "a5"} => d.erase_offset = row /\ d.mode = cart.mode
      /\ command \notin {"4b", "a5"} => d.erase_offset = cart.erase_offset
      /\ command = "78" => d.mode = "ERASE"
      /\ command = "b4" => d.mode = "WRITE"
      /\ command = "d2" => d.mode = "NOPES"
      /\ command = "e1" => d.mode = "STATUS"
      /\ command = "f0" => d.mode = "READ"
  BY <1>1, <1>d DEF Commanded
<1>7. /\ command \in {"4b", "a5"} => n.row = row /\ n.intent = k.intent
      /\ command \notin {"4b", "a5"} => n.row = k.row
      /\ command = "78" => n.intent = "erase"
      /\ command = "b4" => n.intent = "program"
      /\ command \in {"d2", "e1", "f0"} => n.intent = "none"
  BY <1>2, <1>n DEF ChipCommanded
<1>8. Agrees(d, n)
  <2>1. /\ d.erase_offset = n.row /\ d.write_pointer = n.page
        /\ d.ram[n.page] \in n.buffer
    BY <1>2, <1>4, <1>5, <1>6, <1>7 DEF Agrees
  <2>2. /\ d.mode = "ERASE" <=> n.intent = "erase"
        /\ d.mode = "WRITE" <=> n.intent = "program"
    BY <1>2, <1>6, <1>7 DEF Agrees, Commands
  <2> QED BY <1>5, <2>1, <2>2 DEF Agrees
<1>9. RowsRight(d, n)
  <2>1. CASE command = "d2" /\ cart.mode = "ERASE"
    <3>1. d.flash = [cart.flash EXCEPT ![cart.erase_offset] = Erased]
      BY <1>1, <2>1, <1>d DEF Commanded
    <3>2. n.rows = [k.rows EXCEPT ![cart.erase_offset] = {Erased}]
      BY <1>2, <2>1, <1>n DEF ChipCommanded, Agrees
    <3> QED BY <1>2, <3>1, <3>2 DEF RowsRight
  <2>2. CASE command = "d2" /\ cart.mode = "WRITE"
    <3>1. d.flash = [cart.flash EXCEPT ![cart.erase_offset] = cart.ram[k.page]]
      BY <1>1, <1>2, <2>2, <1>d DEF Commanded, Agrees
    <3>2. n.rows = [k.rows EXCEPT ![cart.erase_offset] = k.buffer]
      BY <1>2, <2>2, <1>n DEF ChipCommanded, Agrees
    <3> QED BY <1>2, <3>1, <3>2 DEF RowsRight, Agrees
  <2>3. CASE command # "d2" \/ cart.mode \notin {"ERASE", "WRITE"}
    <3>1. d.flash = cart.flash
      BY <1>1, <2>3, <1>d DEF Commanded
    <3>2. command # "d2" \/ k.intent = "none"
      BY <1>2, <2>3 DEF Agrees, Chip
    <3>3. n.rows = k.rows
      BY <1>2, <3>2, <1>n DEF ChipCommanded
    <3> QED BY <1>2, <3>1, <3>3 DEF RowsRight
  <2> QED BY <2>1, <2>2, <2>3
<1> QED BY <1>x, <1>4, <1>5, <1>8, <1>9, WithChipOK

-----------------------------------------------------------------------------
(* DMA, RDRAM and the rest *)

LEMMA UseOK ==
  ASSUME CartOK(cart), read_flashram_status
  PROVE  CartOK(cart')
<1>1. /\ cart' \in Cart /\ cart'.chip = cart.chip /\ cart'.mode = cart.mode
      /\ cart'.use_flashram = 1 /\ cart'.erase_offset = cart.erase_offset
      /\ cart'.write_pointer = cart.write_pointer /\ cart'.ram = cart.ram
      /\ cart'.flash = cart.flash
  BY DEF read_flashram_status, CartOK, Cart
<1> QED BY <1>1 DEF CartOK, Agrees, RowsRight

\* RDRAM changes under the chip's eyes.
LEMMA WatchedOK ==
  ASSUME CartOK(cart), NEW c \in Cart, c.chip = cart.chip, c.mode = cart.mode,
         cart.use_flashram = 1 => c.use_flashram = 1,
         c.erase_offset = cart.erase_offset,
         c.write_pointer = cart.write_pointer, c.flash = cart.flash
  PROVE  CartOK(Watched(c))
<1> DEFINE k == cart.chip
           n == [k EXCEPT !.buffer = @ \cup {c.ram[k.page]}]
<1>1. k \in Chip /\ Agrees(cart, k) /\ RowsRight(cart, k) /\ k.page \in Pages
  BY CartFields DEF CartOK, Chip
<1>2. c.ram[k.page] \in Contents
  BY <1>1, CartFields
<1>3. /\ n \in Chip /\ n.intent = k.intent /\ n.row = k.row /\ n.page = k.page
      /\ n.rows = k.rows /\ c.ram[n.page] \in n.buffer
  BY <1>1, <1>2 DEF Chip
<1>4. Watched(c) = [c EXCEPT !.chip = n]
  BY DEF Watched, Cart
<1> HIDE DEF n, k
<1>5. Agrees(c, n) /\ RowsRight(c, n)
  BY <1>1, <1>3 DEF Agrees, RowsRight
<1> QED BY <1>3, <1>4, <1>5, WithChipOK

\* dma_pi_read into the save domain.
LEMMA SendOK == ASSUME CartOK(cart), SendToCart PROVE CartOK(cart')
<1> DEFINE d == SaveDmaRead(cart)
           k == cart.chip
           n == ChipSend(k, cart.dram_addr, cart.ram[cart.dram_addr])
<1>1. /\ k \in Chip /\ Agrees(cart, k) /\ RowsRight(cart, k) /\ cart \in Cart
      /\ cart.dram_addr \in Pages /\ cart.ram[cart.dram_addr] \in Contents
  BY CartFields DEF CartOK
<1>2. cart' = [d EXCEPT !.chip = n]
  BY DEF SendToCart
<1>3. CASE cart.mode = "WRITE"
  <2>1. k.intent = "program" /\ cart.use_flashram = 1
    BY <1>1, <1>3 DEF Agrees
  <2>2. d = [cart EXCEPT !.write_pointer = cart.dram_addr]
    BY <1>3, <2>1 DEF SaveDmaRead, dma_write_flashram
  <2>3. n = [k EXCEPT !.page = cart.dram_addr,
                      !.buffer = {cart.ram[cart.dram_addr]}]
    BY <2>1 DEF ChipSend
  <2> HIDE DEF d, n, k
  <2>4. /\ d \in Cart /\ d.mode = cart.mode /\ d.ram = cart.ram
        /\ d.use_flashram = cart.use_flashram /\ d.flash = cart.flash
        /\ d.erase_offset = cart.erase_offset
        /\ d.write_pointer = cart.dram_addr
    BY <1>1, <2>2 DEF Cart
  <2>5. /\ n \in Chip /\ n.intent = k.intent /\ n.row = k.row
        /\ n.page = cart.dram_addr /\ n.rows = k.rows
        /\ n.buffer = {cart.ram[cart.dram_addr]}
    BY <1>1, <2>3 DEF Chip
  <2>6. Agrees(d, n) /\ RowsRight(d, n)
    BY <1>1, <2>4, <2>5 DEF Agrees, RowsRight
  <2> QED BY <1>2, <2>4, <2>5, <2>6, WithChipOK
<1>4. CASE cart.mode # "WRITE"
  <2>1. n = k
    BY <1>1, <1>4 DEF ChipSend, Agrees
  <2>2. d = cart \/ /\ d = [cart EXCEPT !.sram = cart.ram[cart.dram_addr],
                                        !.use_flashram = -1]
                    /\ cart.use_flashram # 1
    BY <1>4, CartFields DEF SaveDmaRead, dma_write_flashram, dma_write_sram
  <2> HIDE DEF d, n, k
  <2>3. /\ d \in Cart /\ d.mode = cart.mode /\ d.ram = cart.ram
        /\ cart.use_flashram = 1 => d.use_flashram = 1
        /\ d.flash = cart.flash /\ d.erase_offset = cart.erase_offset
        /\ d.write_pointer = cart.write_pointer
    BY <1>1, <2>2 DEF Cart
  <2>4. Agrees(d, n) /\ RowsRight(d, n)
    BY <1>1, <2>1, <2>3 DEF Agrees, RowsRight
  <2> QED BY <1>1, <1>2, <2>1, <2>3, <2>4, WithChipOK
<1> QED BY <1>3, <1>4

\* dma_pi_write from the save domain.
LEMMA FetchOK ==
  ASSUME CartOK(cart), NEW row \in Rows, FetchFromCart(row)
  PROVE  CartOK(cart')
<1> DEFINE c == SaveDmaWrite(cart, row)
<1>1. /\ cart \in Cart /\ cart.dram_addr \in Pages /\ cart.sram \in Contents
      /\ cart.flash[row] \in Contents /\ StatusWord \in Contents
  BY CartFields, ContentsOK DEF CartOK
<1>2. /\ c \in Cart /\ c.chip = cart.chip /\ c.mode = cart.mode
      /\ cart.use_flashram = 1 => c.use_flashram = 1
      /\ c.erase_offset = cart.erase_offset
      /\ c.write_pointer = cart.write_pointer /\ c.flash = cart.flash
  <2>1. CASE cart.use_flashram # 1
    BY <1>1, <2>1 DEF SaveDmaWrite, dma_read_sram, Cart
  <2>2. CASE cart.use_flashram = 1
    <3>1. c = cart \/ \E x \in Contents : c = [cart EXCEPT !.ram[cart.dram_addr] = x]
      BY <1>1, <2>2 DEF SaveDmaWrite, dma_read_flashram
    <3> HIDE DEF c
    <3> QED BY <1>1, <2>2, <3>1 DEF Cart
  <2> QED BY <2>1, <2>2
<1>3. cart' = Watched(c)
  BY DEF FetchFromCart
<1> HIDE DEF c
<1> QED BY <1>2, <1>3, WatchedOK

LEMMA CartInitOK == CartInit => CartOK(cart)
<1> SUFFICES ASSUME CartInit PROVE CartOK(cart)
  OBVIOUS
<1> DEFINE k == [intent |-> "none", row |-> FirstRow, page |-> FirstPage,
                 buffer |-> Contents, rows |-> [r \in Rows |-> {Erased}]]
<1>1. PICK d \in Data :
        cart = [use_flashram |-> 0, mode |-> "NOPES", erase_offset |-> FirstRow,
                write_pointer |-> FirstPage, dram_addr |-> FirstPage,
                flash |-> [r \in Rows |-> Erased], sram |-> Zeros,
                ram |-> [p \in Pages |-> d], chip |-> k]
  BY DEF CartInit
<1>2. /\ k \in Chip /\ k.intent = "none" /\ k.row = FirstRow
      /\ k.page = FirstPage /\ k.buffer = Contents
      /\ k.rows = [r \in Rows |-> {Erased}]
  BY SaveAssumption, ContentsOK DEF Chip
<1> HIDE DEF k
<1>3. d \in Contents /\ "NOPES" \in Modes
  BY DEF Contents, Modes
<1>4. cart \in Cart
  BY <1>1, <1>2, <1>3, SaveAssumption, ContentsOK DEF Cart
<1>5. Agrees(cart, k) /\ RowsRight(cart, k) /\ cart.chip = k
  BY <1>1, <1>2, <1>3, SaveAssumption DEF Agrees, RowsRight
<1> QED BY <1>4, <1>5 DEF CartOK

LEMMA PoweronOK == ASSUME CartOK(cart), poweron_pi PROVE CartOK(cart')
<1> DEFINE k == cart.chip
           n == ChipReset(k)
           d == [cart EXCEPT !.mode = "NOPES", !.erase_offset = FirstRow,
                             !.write_pointer = FirstPage, !.dram_addr = FirstPage]
<1>1. /\ cart \in Cart /\ k \in Chip /\ RowsRight(cart, k)
      /\ cart.ram \in [Pages -> Contents]
  BY CartFields DEF CartOK
<1>2. /\ n \in Chip /\ n.intent = "none" /\ n.row = FirstRow
      /\ n.page = FirstPage /\ n.buffer = Contents /\ n.rows = k.rows
  BY <1>1, SaveAssumption DEF ChipReset, Chip
<1>3. cart' = [d EXCEPT !.chip = n]
  BY <1>1 DEF poweron_pi, poweron_flashram, Cart
<1>4. /\ d \in Cart /\ d.mode = "NOPES" /\ d.erase_offset = FirstRow
      /\ d.write_pointer = FirstPage /\ d.ram = cart.ram /\ d.flash = cart.flash
  BY <1>1, SaveAssumption DEF Cart, Modes
<1> HIDE DEF d, n, k
<1>5. Agrees(d, n) /\ RowsRight(d, n)
  BY <1>1, <1>2, <1>4, SaveAssumption DEF Agrees, RowsRight
<1> QED BY <1>2, <1>3, <1>4, <1>5, WithChipOK

LEMMA CartStepOK == CartOK(cart) /\ [CartNext]_cart => CartOK(cart')
<1> SUFFICES ASSUME CartOK(cart), [CartNext]_cart PROVE CartOK(cart')
  OBVIOUS
<1>1. CASE SendToCart
  BY <1>1, SendOK
<1>2. CASE \E row \in Rows : FetchFromCart(row)
  BY <1>2, FetchOK
<1>3. CASE read_flashram_status
  BY <1>3, UseOK
<1>4. CASE \E command \in Commands, row \in Rows :
             write_flashram_command(command, row)
  BY <1>4, CommandOK
<1>5. CASE \E p \in Pages : WriteDramAddr(p)
  <2>1. /\ cart' \in Cart /\ cart'.chip = cart.chip /\ cart'.mode = cart.mode
        /\ cart'.use_flashram = cart.use_flashram
        /\ cart'.erase_offset = cart.erase_offset
        /\ cart'.write_pointer = cart.write_pointer /\ cart'.ram = cart.ram
        /\ cart'.flash = cart.flash
    BY <1>5 DEF WriteDramAddr, CartOK, Cart
  <2> QED BY <2>1 DEF CartOK, Agrees, RowsRight
<1>6. CASE \E p \in Pages, d \in Data : StoreRdram(p, d)
  <2>1. PICK p \in Pages, d \in Data : StoreRdram(p, d)
    BY <1>6
  <2> DEFINE c == [cart EXCEPT !.ram[p] = d]
  <2>2. d \in Contents /\ cart \in Cart
    BY DEF Contents, CartOK
  <2>3. /\ c \in Cart /\ c.chip = cart.chip /\ c.mode = cart.mode
        /\ c.use_flashram = cart.use_flashram
        /\ c.erase_offset = cart.erase_offset
        /\ c.write_pointer = cart.write_pointer /\ c.flash = cart.flash
    BY <2>2 DEF Cart
  <2>4. cart' = Watched(c)
    BY <2>1 DEF StoreRdram
  <2> HIDE DEF c
  <2> QED BY <2>3, <2>4, WatchedOK
<1>7. CASE poweron_pi
  BY <1>7, PoweronOK
<1>8. CASE UNCHANGED cart
  BY <1>8
<1> QED
  BY <1>1, <1>2, <1>3, <1>4, <1>5, <1>6, <1>7, <1>8 DEF CartNext

LEMMA CartInvariant == CartSpec => []CartInv
<1>1. CartInit => CartInv
  BY CartInitOK DEF CartInv
<1>2. CartInv /\ [CartNext]_cart => CartInv'
  BY CartStepOK DEF CartInv
<1> QED BY <1>1, <1>2, PTL DEF CartSpec

\* Whatever commands, DMAs, stores and resets come in between, every row of the
\* FlashRAM holds what a chip driven by the guest's operations would, up to what
\* the guest itself did to the page it sent (flashram_command,
\* dma_write_flashram), for any numbers of pages and rows.
THEOREM RowsHoldRequestedAlways == CartSpec => []RowsHoldRequested
<1>1. CartInv => RowsHoldRequested
  BY DEF CartInv, CartOK, RowsRight, RowsHoldRequested, CartTypeOK
<1> QED BY <1>1, CartInvariant, PTL

\* What a single operation may do to the choice and to the memory not chosen.
DecidedStep ==
  /\ cart.use_flashram # 0 => cart'.use_flashram = cart.use_flashram
  /\ cart'.use_flashram # -1 => cart'.sram = cart.sram
  /\ cart.use_flashram = -1 => cart'.flash = cart.flash

LEMMA Decided == CartOK(cart) /\ [CartNext]_cart => DecidedStep \/ UNCHANGED cart
<1> SUFFICES ASSUME CartOK(cart), CartNext PROVE DecidedStep
  OBVIOUS
<1> USE DEF DecidedStep, CartOK, Cart
<1>1. CASE SendToCart
  BY <1>1 DEF SendToCart, SaveDmaRead, dma_write_sram, dma_write_flashram
<1>2. CASE \E row \in Rows : FetchFromCart(row)
  BY <1>2
  DEF FetchFromCart, Watched, SaveDmaWrite, dma_read_sram, dma_read_flashram
<1>3. CASE read_flashram_status
  BY <1>3 DEF read_flashram_status
<1>4. CASE \E command \in Commands, row \in Rows :
             write_flashram_command(command, row)
  <2> DEFINE c == [cart EXCEPT !.use_flashram = 1]
  <2>1. /\ c \in Cart /\ c.use_flashram = 1 /\ c.sram = cart.sram
        /\ cart.use_flashram \in {0, 1}
    BY <1>4 DEF write_flashram_command
  <2>2. PICK command \in Commands, row \in Rows :
          cart' = [flashram_command(c, command, row) EXCEPT
                     !.chip = ChipCommand(cart.chip, command, row)]
    BY <1>4 DEF write_flashram_command
  <2> HIDE DEF c
  <2>3. cart'.use_flashram = 1 /\ cart'.sram = cart.sram
    <3> DEFINE d == flashram_command(c, command, row)
    <3>1. Commanded(c, command, row, d)
      BY <2>1, CommandIs
    <3>2. cart' = [d EXCEPT !.chip = ChipCommand(cart.chip, command, row)]
      BY <2>2
    <3> HIDE DEF d
    <3> QED BY <2>1, <3>1, <3>2 DEF Commanded
  <2> QED BY <2>1, <2>3
<1>5. CASE \E p \in Pages : WriteDramAddr(p)
  BY <1>5 DEF WriteDramAddr
<1>6. CASE \E p \in Pages, d \in Data : StoreRdram(p, d)
  BY <1>6 DEF StoreRdram, Watched
<1>7. CASE poweron_pi
  BY <1>7 DEF poweron_pi, poweron_flashram
<1> QED BY <1>1, <1>2, <1>3, <1>4, <1>5, <1>6, <1>7 DEF CartNext

\* The first use decides between SRAM and FlashRAM for good, across resets, and
\* no operation changes the other memory (dma_pi_read, dma_pi_write and the
\* FlashRAM registers).
THEOREM MediumDecidedAlways == CartSpec => MediumDecidedOnce
<1>1. CartInv /\ [CartNext]_cart => [DecidedStep]_cart
  BY Decided DEF CartInv
<1> QED BY <1>1, CartInvariant, PTL DEF CartSpec, MediumDecidedOnce, DecidedStep

-----------------------------------------------------------------------------
(* The peripheral interface *)

\* A guest that waits for the end of each DMA never has two PI_INTs queued: what
\* BusyUntilInterrupt needs to be inductive.
PiAgree(s, p) ==
  /\ ~p.dropped /\ Busy(p) => s.queued["PI"] > 0
  /\ ~p.overlapped => s.queued["PI"] <= 1 /\ (s.queued["PI"] > 0 => Busy(p))

\* The inductive invariant.
PiInv == StateOK(m) /\ CartOK(cart) /\ pi \in Pi /\ PiAgree(m, pi)

LEMMA PiIsEvent == "PI" \in Lines /\ "PI" \in Events
BY PiAssumption DEF Events

\* What a step of the PI does to the save memory.
LEMMA PiCartStep == PiNext \/ UNCHANGED piVars => [CartNext]_cart
<1> SUFFICES ASSUME PiNext \/ UNCHANGED piVars PROVE CartNext \/ UNCHANGED cart
  OBVIOUS
<1>1. CASE dma_pi_read
  BY <1>1 DEF dma_pi_read, CartNext
<1>2. CASE dma_pi_write
  BY <1>2 DEF dma_pi_write, CartNext
<1>3. CASE FlashCommands
  BY <1>3, PiAssumption DEF FlashCommands, CartNext
<1>4. CASE PiHardReset \/ DramWrites
  BY <1>4 DEF PiHardReset, DramWrites, CartNext
<1>5. CASE \/ pi_end_of_dma_event \/ WritePiStatus \/ PiOtherEvent \/ PiCpu
           \/ PiNmi
  BY <1>5
  DEF pi_end_of_dma_event, WritePiStatus, PiOtherEvent, PiCpu, PiNmi
<1>6. CASE UNCHANGED piVars
  BY <1>6 DEF piVars
<1> QED BY <1>1, <1>2, <1>3, <1>4, <1>5, <1>6 DEF PiNext

\* The end of dma_pi_read and dma_pi_write.
LEMMA StartDmaOK ==
  ASSUME StateOK(m), pi \in Pi, PiAgree(m, pi),
         NEW io \in BOOLEAN, StartDma(io)
  PROVE  StateOK(m') /\ pi' \in Pi /\ PiAgree(m', pi')
<1>0. m \in Machine /\ m.queued["PI"] \in Nat
  BY PiIsEvent DEF StateOK, MachineOK, Machine
<1>1. /\ m' = add_interrupt_event(m, "PI")
      /\ pi' = [pi EXCEPT !.dma_busy = TRUE, !.io_busy = @ \/ io,
                          !.dropped = @ \/ PoolEmpty(m),
                          !.overlapped = @ \/ Busy(pi)]
  BY DEF StartDma
<1>2. /\ StateOK(m')
      /\ m'.queued["PI"] = IF PoolEmpty(m) THEN m.queued["PI"]
                           ELSE m.queued["PI"] + 1
  BY <1>0, <1>1, AddEventOK, AddKeeps, PiIsEvent
<1>3. PoolEmpty(m) \in BOOLEAN /\ Busy(pi) \in BOOLEAN
  BY DEF PoolEmpty, Busy, Pi
<1>4. /\ pi' \in Pi /\ pi'.dma_busy
      /\ pi'.dropped = (pi.dropped \/ PoolEmpty(m))
      /\ pi'.overlapped = (pi.overlapped \/ Busy(pi))
  BY <1>1, <1>3 DEF Pi
<1>5. ~pi'.dropped => m'.queued["PI"] > 0
  BY <1>0, <1>2, <1>3, <1>4
<1>6. ~pi'.overlapped => m'.queued["PI"] <= 1
  <2>1. ~pi'.overlapped => ~pi.overlapped /\ ~Busy(pi)
    BY <1>3, <1>4 DEF Pi
  <2>2. ~pi'.overlapped => ~(m.queued["PI"] > 0)
    BY <2>1 DEF PiAgree
  <2> QED BY <1>0, <1>2, <2>2
<1> QED BY <1>2, <1>4, <1>5, <1>6 DEF PiAgree, Busy

\* A step of the rest of the machine.
LEMMA PiMachineStepOK ==
  ASSUME PiAgree(m, pi), UNCHANGED pi, m'.queued["PI"] = m.queued["PI"]
  PROVE  PiAgree(m', pi')
BY DEF PiAgree

LEMMA PiInitOK == PiInit => PiInv
<1> SUFFICES ASSUME PiInit PROVE PiInv
  OBVIOUS
<1>1. StateOK(m) /\ CartOK(cart)
  BY InitOK, CartInitOK DEF PiInit, Inv
<1>2. m.queued["PI"] = 0
  BY PiIsEvent DEF PiInit, Init, PowerOn, RestartQueue
<1>3. pi \in Pi /\ ~Busy(pi)
  BY DEF PiInit, Idle, Pi, Busy
<1> QED BY <1>1, <1>2, <1>3 DEF PiInv, PiAgree

LEMMA PiStepOK == PiInv /\ [PiNext]_piVars => PiInv'
<1> SUFFICES ASSUME PiInv, [PiNext]_piVars
             PROVE  StateOK(m') /\ pi' \in Pi /\ PiAgree(m', pi')
  BY PiCartStep, CartStepOK DEF PiInv
<1>0. /\ StateOK(m) /\ m \in Machine /\ m.queued["PI"] \in Nat
      /\ pi \in Pi /\ PiAgree(m, pi)
  BY PiIsEvent DEF PiInv, StateOK, MachineOK, Machine
<1>1. CASE dma_pi_read
  BY <1>0, <1>1, StartDmaOK DEF dma_pi_read
<1>2. CASE dma_pi_write
  BY <1>0, <1>2, StartDmaOK DEF dma_pi_write
<1>3. CASE pi_end_of_dma_event
  <2>1. /\ "PI" \in Due(m) /\ m' \in Dispatch(m, "PI")
        /\ pi' = [pi EXCEPT !.dma_busy = FALSE, !.io_busy = FALSE]
    BY <1>3 DEF pi_end_of_dma_event, TakeEvent
  <2>2. StateOK(m') /\ m'.queued["PI"] = m.queued["PI"] - 1
    BY <1>0, <2>1, DispatchOK, DispatchKeeps, PiIsEvent
  <2>3. pi' \in Pi /\ ~Busy(pi') /\ pi'.overlapped = pi.overlapped
    BY <1>0, <2>1 DEF Pi, Busy
  <2> QED BY <1>0, <2>2, <2>3 DEF PiAgree
<1>4. CASE WritePiStatus
  <2> DEFINE t == [m EXCEPT !.intr = @ \ {"PI"}]
  <2>1. m' = check_interrupt(t) /\ UNCHANGED pi
    BY <1>4 DEF WritePiStatus, ClearLine, clear_rcp_interrupt
  <2>2. /\ t \in Machine /\ t.queued = m.queued /\ t.checks = m.checks
        /\ t.index = m.index
    BY <1>0 DEF Machine
  <2> HIDE DEF t
  <2>3. StateOK(m') /\ m'.queued = m.queued
    BY <1>0, <2>1, <2>2, SameCounts, CheckKeeps
  <2> QED BY <1>0, <2>1, <2>3, PiMachineStepOK
<1>5. CASE PiOtherEvent
  <2>1. PICK e \in {"CHECK"} \cup (Events \ {"PI", "NMI"}) : TakeEvent(e)
    BY <1>5 DEF PiOtherEvent
  <2>2. e # "NMI" /\ e # "PI" /\ e \in Due(m) /\ m' \in Dispatch(m, e)
    BY <2>1 DEF TakeEvent
  <2>3. StateOK(m')
    BY <1>0, <2>2, DispatchOK
  <2>4. m'.queued["PI"] = m.queued["PI"] /\ UNCHANGED pi
    BY <1>0, <1>5, <2>2, DispatchKeeps, PiIsEvent DEF PiOtherEvent
  <2> QED BY <1>0, <2>3, <2>4, PiMachineStepOK
<1>6. CASE PiCpu
  <2>1. StateOK(m') /\ m'.queued["PI"] = m.queued["PI"]
    <3>1. ASSUME NEW t \in Machine, t.queued = m.queued, t.checks = m.checks,
                 t.index = m.index, m' = Settle(check_interrupt(t))
          PROVE  StateOK(m') /\ m'.queued = m.queued
      BY <1>0, <3>1, SameCounts, CheckKeeps, SettleOK
    <3>2. CASE \E v \in StatusValues :
                 m' = Settle(check_interrupt([m EXCEPT !.status = v]))
      <4>1. PICK v \in StatusValues :
              m' = Settle(check_interrupt([m EXCEPT !.status = v]))
        BY <3>2
      <4> DEFINE t == [m EXCEPT !.status = v]
      <4>2. /\ t \in Machine /\ t.queued = m.queued /\ t.checks = m.checks
            /\ t.index = m.index
        BY <1>0, ConstantsAssumption DEF Machine
      <4>3. m' = Settle(check_interrupt(t))
        BY <4>1
      <4> HIDE DEF t
      <4> QED BY <3>1, <4>2, <4>3
    <3>3. CASE m' = Settle(check_interrupt(update_mi_intr_mask(m, {}, {"PI"})))
      <4> DEFINE t == update_mi_intr_mask(m, {}, {"PI"})
      <4>1. /\ t \in Machine /\ t.queued = m.queued /\ t.checks = m.checks
            /\ t.index = m.index
        BY <1>0, PiIsEvent DEF Machine, update_mi_intr_mask
      <4>2. m' = Settle(check_interrupt(t))
        BY <3>3
      <4> HIDE DEF t
      <4> QED BY <3>1, <4>1, <4>2
    <3>4. CASE reset_soft
      <4> DEFINE a == add_interrupt_event(m, "HW2")
      <4>1. "HW2" \in Events /\ "NMI" \in Events
        BY DEF Events, Internal
      <4>2. StateOK(a) /\ a \in Machine /\ a.queued["PI"] = m.queued["PI"]
        BY <1>0, <4>1, AddEventOK, AddKeeps, PiIsEvent
      <4>3. m' = add_interrupt_event(a, "NMI")
        BY <3>4 DEF reset_soft
      <4> HIDE DEF a
      <4> QED BY <4>1, <4>2, <4>3, AddEventOK, AddKeeps, PiIsEvent
    <3>5. CASE reset_hard
      <4>1. Inv'
        BY <1>0, <3>5, ResetHardOK DEF Inv
      <4> QED BY <1>0, <3>5, <4>1 DEF reset_hard, Inv, Machine
    <3> QED BY <1>6, <3>2, <3>3, <3>4, <3>5 DEF PiCpu
  <2> QED BY <1>0, <1>6, <2>1, PiMachineStepOK DEF PiCpu
<1>7. CASE FlashCommands \/ DramWrites
  BY <1>0, <1>7 DEF FlashCommands, DramWrites
<1>8. CASE PiNmi
  <2>1. "NMI" \in Due(m) /\ m' \in Dispatch(m, "NMI") /\ pi' = Idle
    BY <1>8 DEF PiNmi, TakeEvent
  <2>2. StateOK(m')
    BY <1>0, <2>1, DispatchOK
  <2>3. m'.queued["PI"] = 0
    <3>1. m' = nmi_int_handler(remove_event(m, "NMI"))
      BY <2>1 DEF Dispatch
    <3>2. remove_event(m, "NMI") \in Machine
      BY <1>0, <2>1, RemoveEventOK
      DEF StateOK, MachineOK, Due, Events, Internal
    <3> QED BY <3>1, <3>2, PiIsEvent
      DEF nmi_int_handler, RestartQueue, pifbootrom_hle_execute, Machine
  <2>4. pi' \in Pi /\ ~Busy(pi')
    BY <2>1 DEF Idle, Pi, Busy
  <2> QED BY <2>2, <2>3, <2>4 DEF PiAgree
<1>9. CASE PiHardReset
  <2>1. StateOK(m') /\ m'.queued["PI"] = 0
    BY <1>9, PowerOnOK, PiIsEvent DEF PiHardReset, PowerOn, RestartQueue
  <2>2. pi' \in Pi /\ ~Busy(pi')
    BY <1>9 DEF PiHardReset, Idle, Pi, Busy
  <2> QED BY <2>1, <2>2 DEF PiAgree
<1>10. CASE UNCHANGED piVars
  BY <1>0, <1>10 DEF piVars
<1> QED
  BY <1>1, <1>2, <1>3, <1>4, <1>5, <1>6, <1>7, <1>8, <1>9, <1>10 DEF PiNext

LEMMA PiInvariance == PiSafeSpec => []PiInv
BY PiInitOK, PiStepOK, PTL DEF PiSafeSpec

\* PI_STATUS says busy exactly while a PI_INT is queued, across both kinds of
\* reset, for a guest that waits for the end of a DMA before the next one
\* (dma_pi_read, dma_pi_write, pi_end_of_dma_event).
THEOREM BusyUntilInterruptAlways == PiSafeSpec => []BusyUntilInterrupt
<1>1. PiInv => BusyUntilInterrupt
  <2> SUFFICES ASSUME PiInv PROVE BusyUntilInterrupt
    OBVIOUS
  <2>1. PiTypeOK
    BY DEF PiInv, StateOK, MachineOK, TypeOK, CartOK, CartTypeOK, PiTypeOK
  <2> QED BY <2>1 DEF PiInv, PiAgree, BusyUntilInterrupt
<1> QED BY <1>1, PiInvariance, PTL

\* The rows of the FlashRAM hold what the guest asked for behind the peripheral
\* interface too: with PI_DRAM_ADDR written and pages stored to while a DMA is
\* under way, with NMIs that leave the chip in the middle of a command, and with
\* hard resets (dma_pi_read, dma_pi_write, flashram_command).
THEOREM PiRowsHoldRequested == PiSafeSpec => []RowsHoldRequested
<1>1. PiInv => RowsHoldRequested
  BY DEF PiInv, CartOK, RowsRight, RowsHoldRequested, CartTypeOK
<1> QED BY <1>1, PiInvariance, PTL

-----------------------------------------------------------------------------
(* The 64DD *)

S == SECTORS_PER_BLOCK

LEMMA SizesOK ==
  /\ S \in Nat /\ S >= 1 /\ C2_SECTORS \in Nat /\ C2_SECTORS >= 1
  /\ Stride \in Nat /\ Stride = S + C2_SECTORS + 1
BY DiskAssumption DEF S, Stride

-----------------------------------------------------------------------------
(* The invariant *)

\* The interrupt of the drive has a reason.
Reason(s, d) == "IP3" \in s.cause => d.bm \/ d.mecha

\* The sectors of the blocks before the current one.
Before(d) == IF d.block = d.first THEN 0 ELSE S

\* How far the guest is, the drive being at sector s of the block and q DMAs
\* under way: before the first sector, in the middle of them, behind them.
Transferred(d, s, q) ==
  CASE s = 0      -> Before(d)
    [] s \in 1 .. S -> Before(d) + s - 1 + q
    [] OTHER      -> Before(d) + S

\* Registers and guest agree.  While a sector is under way the drive requests
\* nothing, and what else may be under way is a read of the C2 sectors.
Protocol(d, s, q) ==
  /\ d.block = IF d.sector >= Stride THEN 1 ELSE 0
  /\ d.block # d.first => ~d.again
  /\ d.moved = Transferred(d, s, q)
  /\ d.data => s \in 1 .. S
  /\ s \in 1 .. S =>
       /\ d.run
       /\ q > 0 => d.cart_addr = "sector" /\ ~d.data
       /\ ~(d.read /\ d.protected /\ d.block = 0)
  /\ s \notin 1 .. S /\ q > 0 => d.read
  /\ s = 0 => d.read

\* The buffer holds the sector that is offered.
Offered(d, s) == d.data => d.sec_buf = d.disk[d.block * S + s - 1]

\* Where the j-th sector of a transfer belongs.
PlaceOf(d, j) == (d.first * S + j) % (2 * S)

\* The buffer holds the sector under way, the disk those before it.
Stored(d, q) ==
  /\ q > 0 => d.sec_buf = <<"new", d.moved - 1>>
  /\ \A j \in 0 .. d.moved - 1 - q :
       (j + 1) % S # 0 => d.disk[PlaceOf(d, j)] = <<"new", j>>

Tracked(d, q) ==
  /\ Protocol(d, InBlock(d.sector), q)
  /\ IF d.read THEN Offered(d, InBlock(d.sector)) ELSE Stored(d, q)

DriveOK(d, q) == d \in Disk /\ (d.follows => Tracked(d, q))

\* The inductive invariant.  The guest never overlaps DMAs here, so that at
\* most one PI_INT is queued.
DiskInv ==
  /\ StateOK(m) /\ pi \in Pi /\ PiAgree(m, pi) /\ ~pi.overlapped
  /\ Reason(m, dd) /\ DriveOK(dd, m.queued["PI"])

-----------------------------------------------------------------------------
(* The interrupt *)

LEMMA CheckKeepsDisk ==
  ASSUME NEW s \in Machine
  PROVE  "IP3" \in check_interrupt(s).cause <=> "IP3" \in s.cause
<1> DEFINE c == UpdateIP2(s)
<1>1. c \in Machine /\ ("IP3" \in c.cause <=> "IP3" \in s.cause)
  BY DEF Machine, UpdateIP2, IP
<1>2. check_interrupt(s) \in
        {c, [c EXCEPT !.refused = TRUE],
         [c EXCEPT !.checks = @ + 1, !.index = @ + 1]}
  BY DEF check_interrupt
<1> HIDE DEF c
<1> QED BY <1>1, <1>2 DEF Machine

LEMMA RaiseLowerOK ==
  ASSUME NEW s, StateOK(s)
  PROVE  /\ StateOK(Raise(s)) /\ Raise(s).queued = s.queued
         /\ StateOK(Lower(s)) /\ Lower(s).queued = s.queued
         /\ "IP3" \notin Lower(s).cause
<1>0. s \in Machine
  BY DEF StateOK, MachineOK
<1>1. ASSUME NEW c \in SUBSET IP
      PROVE  LET t == check_interrupt([s EXCEPT !.cause = c])
             IN  /\ StateOK(t) /\ t.queued = s.queued
                 /\ "IP3" \in t.cause <=> "IP3" \in c
  <2> DEFINE t == [s EXCEPT !.cause = c]
  <2>1. /\ t \in Machine /\ t.queued = s.queued /\ t.checks = s.checks
        /\ t.index = s.index /\ t.cause = c
    BY <1>0 DEF Machine
  <2> HIDE DEF t
  <2>2. /\ StateOK(check_interrupt(t)) /\ check_interrupt(t).queued = s.queued
        /\ "IP3" \in check_interrupt(t).cause <=> "IP3" \in c
    BY <2>1, SameCounts, CheckKeeps, CheckKeepsDisk
  <2> QED BY <2>2 DEF t
<1>2. s.cause \cup {"IP3"} \in SUBSET IP /\ s.cause \ {"IP3"} \in SUBSET IP
  BY <1>0 DEF Machine, IP
<1> QED BY <1>1, <1>2 DEF Raise, Lower

LEMMA DispatchPiKeepsDisk ==
  ASSUME NEW s, StateOK(s), "PI" \in Due(s), NEW t \in Dispatch(s, "PI")
  PROVE  "IP3" \in t.cause <=> "IP3" \in s.cause
<1> DEFINE r == remove_event(s, "PI")
           w == [r EXCEPT !.intr = @ \cup {"PI"}]
<1>1. "PI" \in Events /\ s.queued["PI"] > 0
  BY PiIsEvent DEF Due
<1>2. r \in Machine /\ r.cause = s.cause
  <2>1. r \in Machine
    BY <1>1, RemoveKeeps
  <2> QED BY <2>1, <1>1 DEF remove_event, StateOK, MachineOK, Machine
<1>3. t = raise_rcp_interrupt(r, "PI")
  BY DEF Dispatch
<1> HIDE DEF r
<1>4. w \in Machine /\ w.cause = s.cause
  BY <1>2, PiIsEvent DEF Machine
<1>5. t \in {w, raise_maskable_interrupt(w, "IP2")}
  BY <1>3 DEF raise_rcp_interrupt
<1> HIDE DEF w
<1>6. "IP3" \in raise_maskable_interrupt(w, "IP2").cause <=> "IP3" \in s.cause
  BY <1>4 DEF raise_maskable_interrupt, exception_general, Machine
<1> QED BY <1>4, <1>5, <1>6

-----------------------------------------------------------------------------
(* Sectors and places *)

LEMMA ModuloFacts ==
  ASSUME NEW n \in Nat \ {0}, NEW x \in 0 .. n - 1
  PROVE  x % n = x /\ (n + x) % n = x
OBVIOUS

\* The last sectors of the blocks, which SectorsInPlace excepts.
LEMMA LastSectors == S % S = 0 /\ (2 * S) % S = 0
<1>1. (S + 0) % S = 0 /\ 0 % S = 0
  BY SizesOK, ModuloFacts
<1>2. (2 * S) % S = 0
  BY SizesOK
<1> QED BY <1>1, <1>2, SizesOK

\* A block, its sectors and their places.
LEMMA PlaceIs ==
  ASSUME NEW d \in Disk, NEW j \in 0 .. 2 * S - 1
  PROVE  PlaceOf(d, j) = IF d.first = 0 THEN j
                         ELSE IF j < S THEN S + j ELSE j - S
<1> DEFINE n == 2 * S
<1>1. n \in Nat \ {0}
  BY SizesOK
<1>2. d.first \in {0, 1} /\ 0 * S = 0 /\ 1 * S = S
  BY SizesOK DEF Disk
<1>3. CASE d.first = 0
  <2>1. PlaceOf(d, j) = j % n
    BY <1>2, <1>3, SizesOK DEF PlaceOf
  <2> HIDE DEF n
  <2>2. j % n = j
    BY <1>1, ModuloFacts DEF n
  <2> QED BY <1>3, <2>1, <2>2
<1>4. CASE d.first = 1 /\ j < S
  <2>1. PlaceOf(d, j) = (S + j) % n /\ S + j \in 0 .. n - 1
    BY <1>2, <1>4, SizesOK DEF PlaceOf
  <2> HIDE DEF n
  <2>2. (S + j) % n = S + j
    BY <1>1, <2>1, ModuloFacts
  <2> QED BY <1>4, <2>1, <2>2
<1>5. CASE d.first = 1 /\ j >= S
  <2>1. PlaceOf(d, j) = (n + (j - S)) % n /\ j - S \in 0 .. n - 1
    BY <1>2, <1>5, SizesOK DEF PlaceOf
  <2> HIDE DEF n
  <2>2. (n + (j - S)) % n = j - S
    BY <1>1, <2>1, ModuloFacts
  <2> QED BY <1>5, <2>1, <2>2, SizesOK
<1> QED BY <1>2, <1>3, <1>4, <1>5, SizesOK

LEMMA BlockBase ==
  ASSUME NEW b \in {0, 1}
  PROVE  /\ b * S = IF b = 1 THEN S ELSE 0
         /\ b * SECTORS_PER_BLOCK = IF b = 1 THEN S ELSE 0
         /\ Stride * b = IF b = 1 THEN Stride ELSE 0
         /\ b * S \in Nat
BY SizesOK DEF S

\* Where the drive is after At.
LEMMA AtOK ==
  ASSUME NEW d \in Disk, NEW s \in 0 .. S + C2_SECTORS
  PROVE  /\ At(d, s) \in Disk
         /\ InBlock(At(d, s).sector) = s
         /\ d.block = IF At(d, s).sector >= Stride THEN 1 ELSE 0
         /\ At(d, s) = [d EXCEPT !.sector = At(d, s).sector]
<1>1. d.block \in {0, 1} /\ Stride * d.block = IF d.block = 1 THEN Stride ELSE 0
  BY BlockBase DEF Disk
<1>2. s + Stride * d.block \in 0 .. 2 * Stride - 1
  BY <1>1, SizesOK
<1>3. At(d, s) \in Disk /\ At(d, s).sector = s + Stride * d.block
  BY <1>2 DEF At, Disk
<1> QED BY <1>1, <1>3, SizesOK DEF InBlock, At

LEMMA InBlockRange ==
  ASSUME NEW x \in 0 .. 2 * Stride - 1
  PROVE  InBlock(x) \in 0 .. S + C2_SECTORS
BY SizesOK DEF InBlock

-----------------------------------------------------------------------------
(* The drive goes on *)

\* What dd_update_bm makes of a drive that runs.
Advanced(d) ==
  LET b == [d EXCEPT !.block = IF d.sector >= Stride THEN 1 ELSE 0]
      s == InBlock(d.sector)
      u == IF d.read THEN UpdateRead(b, s) ELSE UpdateWrite(b, s)
  IN  [u EXCEPT !.bm = TRUE]

LEMMA UpdateBmIs ==
  ASSUME NEW s, NEW d
  PROVE  dd_update_bm([m |-> s, dd |-> d]) =
           IF ~d.run THEN [m |-> s, dd |-> d]
           ELSE [m |-> Raise(s), dd |-> Advanced(d)]
BY DEF dd_update_bm, Advanced

LEMMA ReadSectorOK ==
  ASSUME NEW d \in Disk, InBlock(d.sector) < S
  PROVE  /\ dd_read_sector(d) \in Disk
         /\ dd_read_sector(d) =
              [d EXCEPT !.sec_buf = d.disk[d.block * S + InBlock(d.sector)]]
<1>1. /\ d.block \in {0, 1} /\ InBlock(d.sector) \in 0 .. S - 1
      /\ d.block * SECTORS_PER_BLOCK = IF d.block = 1 THEN S ELSE 0
  BY InBlockRange, BlockBase, SizesOK DEF Disk
<1>2. d.block * SECTORS_PER_BLOCK + InBlock(d.sector) \in Places
  BY <1>1, SizesOK DEF Places, S
<1>3. d.disk[d.block * SECTORS_PER_BLOCK + InBlock(d.sector)] \in Sectors
  BY <1>2 DEF Disk
<1> QED BY <1>3 DEF dd_read_sector, Disk, S

LEMMA WriteSectorOK ==
  ASSUME NEW d \in Disk
  PROVE  /\ dd_write_sector(d) \in Disk
         /\ dd_write_sector(d) =
              [d EXCEPT !.disk = [d.disk EXCEPT ![d.block * S + InBlock(d.sector) - 1] = d.sec_buf]]
<1>1. [d.disk EXCEPT ![d.block * S + InBlock(d.sector) - 1] = d.sec_buf]
        \in [Places -> Sectors]
  BY DEF Disk
<1> QED BY <1>1 DEF dd_write_sector, Disk, S

\* OtherBlock, with what Disk says of the result.
LEMMA OtherBlockOK ==
  ASSUME NEW d \in Disk
  PROVE  /\ OtherBlock(d) \in Disk
         /\ OtherBlock(d) = [d EXCEPT !.block = 1 - d.block, !.again = FALSE]
<1>1. 1 - d.block \in {0, 1}
  BY DEF Disk
<1> QED BY <1>1 DEF OtherBlock, Disk

\* The registers a step of the drive does not touch.
Untouched(d, e) ==
  /\ e.mecha = d.mecha /\ e.hold = d.hold /\ e.read = d.read
  /\ e.protected = d.protected /\ e.cart_addr = d.cart_addr
  /\ e.first = d.first /\ e.moved = d.moved /\ e.follows = d.follows

\* From sector s of a block when it reads: refused, to the next sector, over
\* the C2 sectors, to the other block, or to the end.
ReadMove(d, s, e) ==
  \/ /\ d.protected /\ d.block = 0
     /\ InBlock(e.sector) = s /\ e.block = d.block
     /\ e.again = d.again /\ e.run = d.run /\ ~e.data
  \/ /\ ~(d.protected /\ d.block = 0) /\ s < S
     /\ InBlock(e.sector) = s + 1 /\ e.block = d.block
     /\ e.again = d.again /\ e.run = d.run /\ e.data
     /\ e.sec_buf = d.disk[d.block * S + s]
  \/ /\ s >= S /\ s < S + C2_SECTORS
     /\ InBlock(e.sector) = s + 1 /\ e.block = d.block
     /\ e.again = d.again /\ e.run = d.run /\ e.data = d.data
     /\ e.sec_buf = d.sec_buf
  \/ /\ s = S + C2_SECTORS /\ d.again
     /\ InBlock(e.sector) = 0 /\ e.block = 1 - d.block
     /\ ~e.again /\ e.run = d.run /\ e.data = d.data
     /\ e.sec_buf = d.sec_buf
  \/ /\ s = S + C2_SECTORS /\ ~d.again
     /\ InBlock(e.sector) = s /\ e.block = d.block
     /\ ~e.again /\ ~e.run /\ e.data = d.data
     /\ e.sec_buf = d.sec_buf

\* What a step of the drive does when it reads.
LEMMA ReadStep ==
  ASSUME NEW d \in Disk, NEW s \in 0 .. S + C2_SECTORS, InBlock(d.sector) = s,
         NEW e, e = UpdateRead(d, s)
  PROVE  /\ e \in Disk /\ Untouched(d, e) /\ e.disk = d.disk
         /\ InBlock(e.sector) \in 0 .. S + C2_SECTORS
         /\ e.block = IF e.sector >= Stride THEN 1 ELSE 0
         /\ ReadMove(d, s, e)
<1> USE DEF Untouched, ReadMove
<1>1. CASE d.protected /\ d.block = 0
  <2> DEFINE f == [d EXCEPT !.data = FALSE, !.error = TRUE]
  <2>1. f \in Disk /\ e = At(f, s)
    <3>1. e = At(f, s)
      BY <1>1 DEF UpdateRead
    <3> QED BY <3>1 DEF Disk
  <2>2. /\ Untouched(d, f) /\ f.disk = d.disk /\ f.block = d.block
        /\ f.again = d.again /\ f.run = d.run /\ ~f.data
    BY DEF Disk
  <2> HIDE DEF f
  <2>3. /\ e \in Disk /\ e = [f EXCEPT !.sector = e.sector]
        /\ InBlock(e.sector) = s
        /\ f.block = IF e.sector >= Stride THEN 1 ELSE 0
    BY <2>1, AtOK
  <2>4. /\ Untouched(f, e) /\ e.disk = f.disk /\ e.block = f.block
        /\ e.again = f.again /\ e.run = f.run /\ e.data = f.data
        /\ e.sec_buf = f.sec_buf
    BY <2>1, <2>3 DEF Disk
  <2> QED BY <1>1, <2>2, <2>3, <2>4, SizesOK
<1>2. CASE ~(d.protected /\ d.block = 0) /\ s < S
  <2> DEFINE f == [dd_read_sector(d) EXCEPT !.data = TRUE]
  <2>1. f \in Disk /\ e = At(f, s + 1) /\ s + 1 \in 0 .. S + C2_SECTORS
    <3>1. e = At(f, s + 1)
      BY <1>2, SizesOK DEF UpdateRead, S
    <3>2. f \in Disk
      BY <1>2, ReadSectorOK DEF Disk
    <3> QED BY <1>2, <3>1, <3>2, SizesOK
  <2>2. /\ Untouched(d, f) /\ f.disk = d.disk /\ f.block = d.block
        /\ f.again = d.again /\ f.run = d.run /\ f.data
        /\ f.sec_buf = d.disk[d.block * S + s]
    BY <1>2, ReadSectorOK DEF Disk
  <2> HIDE DEF f
  <2> QED BY <1>2, <2>1, <2>2, AtOK DEF Disk
<1>3. CASE ~(d.protected /\ d.block = 0) /\ s >= S /\ s < S + C2_SECTORS
  <2> DEFINE f == [d EXCEPT !.c2 = @ \/ s + 1 = SECTORS_PER_BLOCK + C2_SECTORS]
  <2>1. f \in Disk /\ e = At(f, s + 1) /\ s + 1 \in 0 .. S + C2_SECTORS
    <3>1. e = At(f, s + 1)
      BY <1>3, SizesOK DEF UpdateRead, S
    <3>2. f \in Disk
      BY DEF Disk
    <3> QED BY <1>3, <3>1, <3>2, SizesOK
  <2>2. /\ Untouched(d, f) /\ f.disk = d.disk /\ f.block = d.block
        /\ f.again = d.again /\ f.run = d.run /\ f.data = d.data
        /\ f.sec_buf = d.sec_buf
    BY DEF Disk
  <2> HIDE DEF f
  <2> QED BY <1>3, <2>1, <2>2, AtOK DEF Disk
<1>4. CASE ~(d.protected /\ d.block = 0) /\ s = S + C2_SECTORS /\ d.again
  <2> DEFINE f == OtherBlock(d)
  <2>1. f \in Disk /\ e = At(f, 0) /\ 0 \in 0 .. S + C2_SECTORS
    <3>1. e = At(f, 0)
      BY <1>4, SizesOK DEF UpdateRead, S, Disk
    <3>2. f \in Disk
      BY OtherBlockOK
    <3> QED BY <3>1, <3>2, SizesOK
  <2>2. /\ Untouched(d, f) /\ f.disk = d.disk /\ f.block = 1 - d.block
        /\ ~f.again /\ f.run = d.run /\ f.data = d.data
        /\ f.sec_buf = d.sec_buf
    <3>1. f = [d EXCEPT !.block = 1 - d.block, !.again = FALSE]
      BY OtherBlockOK
    <3> HIDE DEF f
    <3> QED BY <3>1 DEF Disk
  <2> HIDE DEF f
  <2>3. /\ e \in Disk /\ e = [f EXCEPT !.sector = e.sector]
        /\ InBlock(e.sector) = 0
        /\ f.block = IF e.sector >= Stride THEN 1 ELSE 0
    BY <2>1, AtOK
  <2>4. /\ Untouched(f, e) /\ e.disk = f.disk /\ e.block = f.block
        /\ e.again = f.again /\ e.run = f.run /\ e.data = f.data
        /\ e.sec_buf = f.sec_buf
    BY <2>1, <2>3 DEF Disk
  <2>5. Untouched(d, e) /\ e.disk = d.disk /\ e.block = f.block
    BY <2>2, <2>4
  <2>6. /\ e.block = 1 - d.block /\ ~e.again /\ e.run = d.run
        /\ e.data = d.data /\ e.sec_buf = d.sec_buf
    BY <2>2, <2>4
  <2>7. InBlock(e.sector) \in 0 .. S + C2_SECTORS
    BY <2>3, SizesOK
  <2> QED BY <1>4, <2>3, <2>5, <2>6, <2>7
<1>5. CASE ~(d.protected /\ d.block = 0) /\ s = S + C2_SECTORS /\ ~d.again
  <2> DEFINE f == [d EXCEPT !.run = FALSE]
  <2>1. f \in Disk /\ e = At(f, s)
    <3>1. e = At(f, s)
      BY <1>5, SizesOK DEF UpdateRead, S
    <3> QED BY <3>1 DEF Disk
  <2>2. /\ Untouched(d, f) /\ f.disk = d.disk /\ f.block = d.block
        /\ f.again = d.again /\ ~f.run /\ f.data = d.data
        /\ f.sec_buf = d.sec_buf
    BY DEF Disk
  <2> HIDE DEF f
  <2> QED BY <1>5, <2>1, <2>2, AtOK DEF Disk
<1> QED BY <1>1, <1>2, <1>3, <1>4, <1>5, SizesOK

\* When it writes: to the next sector, to the other block, to the end, or
\* nowhere.
WriteMove(d, s, e) ==
  \/ /\ s < S
     /\ InBlock(e.sector) = s + 1 /\ e.block = d.block
     /\ e.again = d.again /\ e.run = d.run /\ e.data
     /\ e.disk = [d.disk EXCEPT ![d.block * S + s - 1] = d.sec_buf]
  \/ /\ s = S /\ d.again
     /\ InBlock(e.sector) = 1 /\ e.block = 1 - d.block
     /\ ~e.again /\ e.run = d.run /\ e.data
     /\ e.disk = [d.disk EXCEPT ![e.block * S + s - 1] = d.sec_buf]
  \/ /\ s = S /\ ~d.again
     /\ InBlock(e.sector) = s + 1 /\ e.block = d.block
     /\ ~e.again /\ ~e.run /\ e.data = d.data
     /\ e.disk = d.disk
  \/ /\ s > S
     /\ InBlock(e.sector) = s /\ e.block = d.block
     /\ e.again = d.again /\ e.run = d.run /\ e.data = d.data
     /\ e.disk = d.disk

\* What a step of the drive does when it writes.
LEMMA WriteStep ==
  ASSUME NEW d \in Disk, NEW s \in 0 .. S + C2_SECTORS, InBlock(d.sector) = s,
         NEW e, e = UpdateWrite(d, s)
  PROVE  /\ e \in Disk /\ Untouched(d, e) /\ e.sec_buf = d.sec_buf
         /\ InBlock(e.sector) \in 0 .. S + C2_SECTORS
         /\ e.block = IF e.sector >= Stride THEN 1 ELSE 0
         /\ WriteMove(d, s, e)
<1> USE DEF Untouched, WriteMove
<1>1. CASE s < S
  <2> DEFINE f == [dd_write_sector(d) EXCEPT !.data = TRUE]
  <2>1. f \in Disk /\ e = At(f, s + 1) /\ s + 1 \in 0 .. S + C2_SECTORS
    <3>1. e = At(f, s + 1)
      BY <1>1, SizesOK DEF UpdateWrite, S
    <3>2. f \in Disk
      BY WriteSectorOK DEF Disk
    <3> QED BY <1>1, <3>1, <3>2, SizesOK
  <2>2. /\ Untouched(d, f) /\ f.sec_buf = d.sec_buf /\ f.block = d.block
        /\ f.again = d.again /\ f.run = d.run /\ f.data
        /\ f.disk = [d.disk EXCEPT ![d.block * S + s - 1] = d.sec_buf]
    BY WriteSectorOK DEF Disk
  <2> HIDE DEF f
  <2> QED BY <1>1, <2>1, <2>2, AtOK DEF Disk
<1>2. CASE s = S /\ d.again
  <2> DEFINE o == OtherBlock(d)
             f == [dd_write_sector(o) EXCEPT !.data = TRUE]
  <2>1. /\ o \in Disk /\ Untouched(d, o) /\ o.sec_buf = d.sec_buf
        /\ o.block = 1 - d.block /\ o.sector = d.sector /\ o.disk = d.disk
        /\ ~o.again /\ o.run = d.run
    <3>1. o \in Disk /\ o = [d EXCEPT !.block = 1 - d.block, !.again = FALSE]
      BY OtherBlockOK
    <3> HIDE DEF o
    <3> QED BY <3>1 DEF Disk
  <2>2. e = At(f, 1)
    BY <1>2, SizesOK DEF UpdateWrite, S
  <2> HIDE DEF o
  <2>3. f \in Disk
    <3> DEFINE v == dd_write_sector(o)
    <3>1. v \in Disk /\ f = [v EXCEPT !.data = TRUE]
      BY <2>1, WriteSectorOK
    <3> HIDE DEF v, f
    <3> QED BY <3>1, ZenonT(60) DEF Disk
  <2>4. /\ Untouched(d, f) /\ f.sec_buf = d.sec_buf /\ f.block = 1 - d.block
        /\ ~f.again /\ f.run = d.run /\ f.data
        /\ f.disk = [d.disk EXCEPT ![f.block * S + s - 1] = d.sec_buf]
    BY <2>1, WriteSectorOK DEF Disk
  <2> HIDE DEF f
  <2>5. 1 \in 0 .. S + C2_SECTORS
    BY SizesOK
  <2>6. /\ e \in Disk /\ e = [f EXCEPT !.sector = e.sector]
        /\ InBlock(e.sector) = 1
        /\ f.block = IF e.sector >= Stride THEN 1 ELSE 0
    BY <2>2, <2>3, <2>5, AtOK
  <2>7. /\ Untouched(f, e) /\ e.disk = f.disk /\ e.block = f.block
        /\ e.again = f.again /\ e.run = f.run /\ e.data = f.data
        /\ e.sec_buf = f.sec_buf
    BY <2>3, <2>6 DEF Disk
  <2>8. Untouched(d, e) /\ e.sec_buf = d.sec_buf /\ e.block = f.block
    BY <2>4, <2>7
  <2>9. /\ e.block = 1 - d.block /\ ~e.again /\ e.run = d.run /\ e.data
        /\ e.disk = [d.disk EXCEPT ![e.block * S + s - 1] = d.sec_buf]
    BY <2>4, <2>7
  <2> QED BY <1>2, <2>5, <2>6, <2>8, <2>9
<1>3. CASE s = S /\ ~d.again
  <2> DEFINE f == [d EXCEPT !.run = FALSE]
  <2>1. f \in Disk /\ e = At(f, s + 1) /\ s + 1 \in 0 .. S + C2_SECTORS
    <3>1. e = At(f, s + 1)
      BY <1>3, SizesOK DEF UpdateWrite, S
    <3>2. f \in Disk
      BY DEF Disk
    <3> QED BY <1>3, <3>1, <3>2, SizesOK
  <2>2. /\ Untouched(d, f) /\ f.disk = d.disk /\ f.block = d.block
        /\ f.again = d.again /\ ~f.run /\ f.data = d.data
        /\ f.sec_buf = d.sec_buf
    BY DEF Disk
  <2> HIDE DEF f
  <2> QED BY <1>3, <2>1, <2>2, AtOK DEF Disk
<1>4. CASE s > S
  <2>1. e = At(d, s)
    BY <1>4, SizesOK DEF UpdateWrite, S
  <2> QED BY <1>4, <2>1, AtOK DEF Disk
<1> QED BY <1>1, <1>2, <1>3, <1>4, SizesOK

\* The two kinds of step as they are made: dd_update_bm sets the block by the
\* sector first and the interrupt last.
LEMMA AdvancedOK ==
  ASSUME NEW d \in Disk
  PROVE  Advanced(d) \in Disk /\ Advanced(d).bm /\ Untouched(d, Advanced(d))
<1> DEFINE b == [d EXCEPT !.block = IF d.sector >= Stride THEN 1 ELSE 0]
           s == InBlock(d.sector)
           u == IF d.read THEN UpdateRead(b, s) ELSE UpdateWrite(b, s)
<1>1. s \in 0 .. S + C2_SECTORS
  BY InBlockRange DEF Disk
<1>2. b \in Disk /\ Untouched(d, b) /\ InBlock(b.sector) = s
  BY DEF Disk, Untouched
<1>3. Advanced(d) = [u EXCEPT !.bm = TRUE]
  BY DEF Advanced
<1> HIDE DEF b, s
<1>4. u \in Disk /\ Untouched(b, u)
  <2>1. UpdateRead(b, s) \in Disk /\ Untouched(b, UpdateRead(b, s))
    BY <1>1, <1>2, ReadStep
  <2>2. UpdateWrite(b, s) \in Disk /\ Untouched(b, UpdateWrite(b, s))
    BY <1>1, <1>2, WriteStep
  <2> QED BY <2>1, <2>2
<1> HIDE DEF u
<1>5. Advanced(d) \in Disk /\ Advanced(d).bm /\ Untouched(u, Advanced(d))
  BY <1>3, <1>4 DEF Disk, Untouched
<1> QED BY <1>2, <1>4, <1>5 DEF Untouched

\* A drive whose block agrees with its sector.
LEMMA AdvancedIs ==
  ASSUME NEW d \in Disk, d.block = IF d.sector >= Stride THEN 1 ELSE 0,
         NEW u, u = IF d.read THEN UpdateRead(d, InBlock(d.sector))
                    ELSE UpdateWrite(d, InBlock(d.sector)),
         u \in Disk
  PROVE  LET e == Advanced(d)
         IN  /\ e.sector = u.sector /\ e.block = u.block /\ e.again = u.again
             /\ e.run = u.run /\ e.data = u.data /\ e.sec_buf = u.sec_buf
             /\ e.disk = u.disk
<1>1. [d EXCEPT !.block = IF d.sector >= Stride THEN 1 ELSE 0] = d
  BY DEF Disk
<1>2. Advanced(d) = [u EXCEPT !.bm = TRUE]
  BY <1>1 DEF Advanced
<1> QED BY <1>2 DEF Disk

-----------------------------------------------------------------------------
(* The sectors in order *)

\* The end of a DMA, or a poll behind the sectors, with q DMAs under way before
\* and r after: reading.
LEMMA TrackRead ==
  ASSUME NEW d \in Disk, d.read, d.run, NEW q \in {0, 1}, NEW r \in {0, 1},
         Tracked(d, q), r <= q,
         InBlock(d.sector) \in 1 .. S => q = 1 /\ r = 0,
         InBlock(d.sector) = 0 => r = 0
  PROVE  Tracked(Advanced(d), r)
<1> DEFINE e == Advanced(d)
           u == UpdateRead(d, InBlock(d.sector))
           s == InBlock(d.sector)
           t == InBlock(e.sector)
<1>1. /\ Protocol(d, s, q) /\ Offered(d, s) /\ s \in 0 .. S + C2_SECTORS
      /\ d.block = IF d.sector >= Stride THEN 1 ELSE 0
  BY InBlockRange DEF Tracked, Protocol, Disk
<1>2. /\ u \in Disk /\ u.disk = d.disk /\ InBlock(u.sector) \in 0 .. S + C2_SECTORS
      /\ u.block = IF u.sector >= Stride THEN 1 ELSE 0
  BY <1>1, ReadStep
<1>3. /\ e.sector = u.sector /\ e.block = u.block /\ e.again = u.again
      /\ e.run = u.run /\ e.data = u.data /\ e.sec_buf = u.sec_buf
      /\ e.disk = d.disk
  BY <1>1, <1>2, AdvancedIs
<1>4. Untouched(d, e)
  BY AdvancedOK
<1>5. ReadMove(d, s, e)
  <2>1. ReadMove(d, s, u)
    BY <1>1, ReadStep
  <2> HIDE DEF e, u, s
  <2> QED BY <1>2, <1>3, <2>1 DEF ReadMove
<1>6. /\ e.block = IF e.sector >= Stride THEN 1 ELSE 0
      /\ t \in 0 .. S + C2_SECTORS
  BY <1>2, <1>3
<1>7. d.block \in {0, 1} /\ d.first \in {0, 1} /\ d.moved \in Nat
  BY DEF Disk
<1> HIDE DEF e, u, s, t
<1>8. /\ e.read /\ e.protected = d.protected /\ e.cart_addr = d.cart_addr
      /\ e.first = d.first /\ e.moved = d.moved
  BY <1>4 DEF Untouched
<1> SUFFICES Protocol(e, t, r) /\ Offered(e, t)
  BY <1>8 DEF Tracked, e, t
<1>9. /\ ~d.data
      /\ d.block # d.first => ~d.again
      /\ s <= S => r = 0
      /\ s \in 1 .. S => d.run /\ ~(d.protected /\ d.block = 0)
  BY <1>1, SizesOK DEF Protocol, s
<1>10. /\ Before(d) \in {0, S}
       /\ s = 0 => d.moved = Before(d)
       /\ s \in 1 .. S => d.moved = Before(d) + s
       /\ s > S => d.moved = Before(d) + S
  <2>1. Before(d) \in {0, S}
    BY DEF Before
  <2>2. d.moved = Transferred(d, s, q)
    BY <1>1 DEF Protocol
  <2>3. s \in 1 .. S => q = 1
    BY DEF s
  <2> QED BY <1>1, <2>1, <2>2, <2>3, SizesOK DEF Transferred
<1>11. ASSUME e.block = d.block, t = s, s \notin 1 .. S, ~e.data,
              e.again = d.again \/ ~e.again
       PROVE  Protocol(e, t, r) /\ Offered(e, t)
  <2>1. e.moved = Transferred(e, t, r)
    BY <1>1, <1>8, <1>10, <1>11, SizesOK DEF Transferred, Before
  <2>2. e.block # e.first => ~e.again
    BY <1>8, <1>9, <1>11
  <2> QED BY <1>6, <1>8, <1>11, <2>1, <2>2 DEF Protocol, Offered
<1>12. CASE /\ d.protected /\ d.block = 0
            /\ t = s /\ e.block = d.block
            /\ e.again = d.again /\ e.run = d.run /\ ~e.data
  <2>1. s \notin 1 .. S
    BY <1>9, <1>12
  <2> QED BY <1>11, <1>12, <2>1
<1>13. CASE /\ ~(d.protected /\ d.block = 0) /\ s < S
            /\ t = s + 1 /\ e.block = d.block
            /\ e.again = d.again /\ e.run = d.run /\ e.data
            /\ e.sec_buf = d.disk[d.block * S + s]
  <2>1. t \in 1 .. S /\ r = 0
    BY <1>1, <1>9, <1>13, SizesOK
  <2>2. e.moved = Transferred(e, t, r)
    <3>1. Before(e) = Before(d)
      BY <1>8, <1>13 DEF Before
    <3>2. d.moved = Before(d) + s
      BY <1>1, <1>10, <1>13, SizesOK
    <3> QED
      BY <1>1, <1>8, <1>10, <1>13, <2>1, <3>1, <3>2, SizesOK DEF Transferred
  <2>3. e.block # e.first => ~e.again
    BY <1>8, <1>9, <1>13
  <2>4. Protocol(e, t, r)
    BY <1>6, <1>8, <1>13, <2>1, <2>2, <2>3, SizesOK DEF Protocol
  <2>5. e.block * S + t - 1 = d.block * S + s
    <3>1. d.block * S \in Nat
      BY <1>7, BlockBase
    <3> QED BY <1>1, <1>13, <3>1
  <2>6. Offered(e, t)
    BY <1>3, <1>13, <2>5 DEF Offered
  <2> QED BY <2>4, <2>6
<1>14. CASE /\ s >= S /\ s < S + C2_SECTORS
            /\ t = s + 1 /\ e.block = d.block
            /\ e.again = d.again /\ e.run = d.run /\ e.data = d.data
            /\ e.sec_buf = d.sec_buf
  <2>1. t > S /\ ~e.data
    BY <1>1, <1>9, <1>14, SizesOK
  <2>2. e.moved = Transferred(e, t, r)
    <3>1. Before(e) = Before(d)
      BY <1>8, <1>14 DEF Before
    <3>2. d.moved = Before(d) + S
      BY <1>1, <1>10, <1>14, SizesOK
    <3> QED
      BY <1>1, <1>8, <1>10, <2>1, <3>1, <3>2, SizesOK DEF Transferred
  <2>3. e.block # e.first => ~e.again
    BY <1>8, <1>9, <1>14
  <2>4. t \notin 1 .. S /\ t # 0
    BY <1>1, <2>1, SizesOK
  <2> QED BY <1>6, <1>8, <2>1, <2>2, <2>3, <2>4 DEF Protocol, Offered
<1>15. CASE /\ s = S + C2_SECTORS /\ d.again
            /\ t = 0 /\ e.block = 1 - d.block
            /\ ~e.again /\ e.run = d.run /\ e.data = d.data
            /\ e.sec_buf = d.sec_buf
  <2>1. d.block = d.first /\ e.block # e.first /\ s > S
    BY <1>7, <1>8, <1>9, <1>15, SizesOK
  <2>2. e.moved = Transferred(e, t, r)
    BY <1>8, <1>10, <1>15, <2>1, SizesOK DEF Transferred, Before
  <2>3. t \notin 1 .. S /\ ~e.data
    BY <1>9, <1>15
  <2> QED BY <1>6, <1>8, <1>15, <2>2, <2>3 DEF Protocol, Offered
<1>16. CASE /\ s = S + C2_SECTORS /\ ~d.again
            /\ t = s /\ e.block = d.block
            /\ ~e.again /\ ~e.run /\ e.data = d.data
            /\ e.sec_buf = d.sec_buf
  <2>1. s \notin 1 .. S
    BY <1>16, SizesOK
  <2> QED BY <1>9, <1>11, <1>16, <2>1
<1> QED
  BY <1>5, <1>12, <1>13, <1>14, <1>15, <1>16 DEF ReadMove, t

\* The place of the sector the drive is at.
LEMMA CurrentPlace ==
  ASSUME NEW d \in Disk, NEW s \in 1 .. S
  PROVE  /\ Before(d) + s - 1 \in 0 .. 2 * S - 1
         /\ PlaceOf(d, Before(d) + s - 1) = d.block * S + s - 1
         /\ d.block * S + s - 1 \in Places
<1> DEFINE j == Before(d) + s - 1
<1>1. /\ d.block \in {0, 1} /\ d.first \in {0, 1}
      /\ d.block * S = IF d.block = 1 THEN S ELSE 0
  BY BlockBase DEF Disk
<1>2. /\ j \in 0 .. 2 * S - 1
      /\ j = IF d.block = d.first THEN s - 1 ELSE S + s - 1
  <2>1. CASE d.block = d.first
    <3>1. Before(d) = 0
      BY <2>1 DEF Before
    <3> QED BY <2>1, <3>1, SizesOK
  <2>2. CASE d.block # d.first
    <3>1. Before(d) = S
      BY <2>2 DEF Before
    <3> QED BY <2>2, <3>1, SizesOK
  <2> QED BY <2>1, <2>2
<1> HIDE DEF j
<1>3. PlaceOf(d, j) = IF d.first = 0 THEN j ELSE IF j < S THEN S + j ELSE j - S
  BY <1>2, PlaceIs
<1>4. d.block * S + s - 1 \in Places
  BY <1>1, SizesOK DEF Places, S
<1>5. PlaceOf(d, j) = d.block * S + s - 1
  BY <1>1, <1>2, <1>3, SizesOK
<1> QED BY <1>2, <1>4, <1>5 DEF j

LEMMA PlacesDiffer ==
  ASSUME NEW d \in Disk, NEW i \in 0 .. 2 * S - 1, NEW j \in 0 .. 2 * S - 1, i # j
  PROVE  PlaceOf(d, i) # PlaceOf(d, j) /\ PlaceOf(d, i) \in Places
<1>1. /\ PlaceOf(d, i) = IF d.first = 0 THEN i
                         ELSE IF i < S THEN S + i ELSE i - S
      /\ PlaceOf(d, j) = IF d.first = 0 THEN j
                         ELSE IF j < S THEN S + j ELSE j - S
  BY PlaceIs
<1> QED BY <1>1, SizesOK DEF Places, S

\* Writing.
LEMMA TrackWrite ==
  ASSUME NEW d \in Disk, ~d.read, d.run, NEW q \in {0, 1}, NEW r \in {0, 1},
         Tracked(d, q), r <= q,
         InBlock(d.sector) \in 1 .. S => q = 1 /\ r = 0
  PROVE  Tracked(Advanced(d), r)
<1> DEFINE e == Advanced(d)
           u == UpdateWrite(d, InBlock(d.sector))
           s == InBlock(d.sector)
           t == InBlock(e.sector)
<1>1. /\ Protocol(d, s, q) /\ Stored(d, q) /\ s \in 0 .. S + C2_SECTORS
      /\ d.block = IF d.sector >= Stride THEN 1 ELSE 0
  BY InBlockRange DEF Tracked, Protocol, Disk
<1>2. /\ u \in Disk /\ u.sec_buf = d.sec_buf
      /\ InBlock(u.sector) \in 0 .. S + C2_SECTORS
      /\ u.block = IF u.sector >= Stride THEN 1 ELSE 0
  BY <1>1, WriteStep
<1>3. /\ e.sector = u.sector /\ e.block = u.block /\ e.again = u.again
      /\ e.run = u.run /\ e.data = u.data /\ e.sec_buf = d.sec_buf
      /\ e.disk = u.disk
  BY <1>1, <1>2, AdvancedIs
<1>4. e \in Disk /\ Untouched(d, e)
  BY AdvancedOK
<1>5. WriteMove(d, s, e)
  <2>1. WriteMove(d, s, u)
    BY <1>1, WriteStep
  <2> HIDE DEF e, u, s
  <2> QED BY <1>2, <1>3, <2>1 DEF WriteMove
<1>6. /\ e.block = IF e.sector >= Stride THEN 1 ELSE 0
      /\ t \in 0 .. S + C2_SECTORS
  BY <1>2, <1>3
<1>7. /\ d.block \in {0, 1} /\ d.first \in {0, 1} /\ d.moved \in Nat
      /\ d.disk \in [Places -> Sectors]
  BY DEF Disk
<1>8. s \in 1 .. S => q = 1 /\ r = 0
  OBVIOUS
<1> HIDE DEF e, u, s, t
<1>9. /\ ~e.read /\ e.protected = d.protected /\ e.cart_addr = d.cart_addr
      /\ e.first = d.first /\ e.moved = d.moved
      /\ \A j : PlaceOf(e, j) = PlaceOf(d, j)
  BY <1>4 DEF Untouched, PlaceOf
<1> SUFFICES Protocol(e, t, r) /\ Stored(e, r)
  BY <1>9 DEF Tracked, e, t
<1>10. /\ ~d.data /\ r = 0 /\ s # 0
       /\ d.block # d.first => ~d.again
       /\ s > S => q = 0
       /\ s \in 1 .. S => d.run
  BY <1>1, <1>8, SizesOK DEF Protocol
<1>11. /\ Before(d) \in {0, S}
       /\ s \in 1 .. S => d.moved = Before(d) + s
       /\ s > S => d.moved = Before(d) + S
  <2>1. Before(d) \in {0, S}
    BY DEF Before
  <2>2. d.moved = Transferred(d, s, q)
    BY <1>1 DEF Protocol
  <2> QED BY <1>1, <1>8, <2>1, <2>2, SizesOK DEF Transferred
<1>12. s \in 1 .. S =>
         /\ d.sec_buf = <<"new", d.moved - 1>>
         /\ \A j \in 0 .. d.moved - 2 :
              (j + 1) % S # 0 => d.disk[PlaceOf(d, j)] = <<"new", j>>
  <2> SUFFICES ASSUME s \in 1 .. S
               PROVE  /\ d.sec_buf = <<"new", d.moved - 1>>
                      /\ \A j \in 0 .. d.moved - 2 :
                           (j + 1) % S # 0 => d.disk[PlaceOf(d, j)] = <<"new", j>>
    OBVIOUS
  <2>1. d.moved - 1 - q = d.moved - 2
    BY <1>7, <1>8
  <2> QED BY <1>1, <1>8, <2>1 DEF Stored
<1>same. e.moved - 1 - r = e.moved - 1
  BY <1>7, <1>9, <1>10
<1>13. CASE /\ s < S
            /\ t = s + 1 /\ e.block = d.block
            /\ e.again = d.again /\ e.run = d.run /\ e.data
            /\ e.disk = [d.disk EXCEPT ![d.block * S + s - 1] = d.sec_buf]
  <2>1. s \in 1 .. S /\ t \in 1 .. S
    BY <1>1, <1>10, <1>13, SizesOK
  <2>2. e.moved = Transferred(e, t, r)
    <3>1. Before(e) = Before(d)
      BY <1>9, <1>13 DEF Before
    <3> QED
      BY <1>9, <1>10, <1>11, <1>13, <2>1, <3>1, SizesOK DEF Transferred
  <2>3. e.block # e.first => ~e.again
    BY <1>9, <1>10, <1>13
  <2>4. Protocol(e, t, r)
    BY <1>6, <1>9, <1>10, <1>13, <2>1, <2>2, <2>3, SizesOK DEF Protocol
  <2>5. /\ d.moved - 1 \in 0 .. 2 * S - 1
        /\ PlaceOf(d, d.moved - 1) = d.block * S + s - 1
        /\ d.block * S + s - 1 \in Places
    <3>1. d.moved - 1 = Before(d) + s - 1
      BY <1>11, <2>1, SizesOK
    <3> QED BY <2>1, <3>1, CurrentPlace
  <2>6. ASSUME NEW j \in 0 .. e.moved - 1, (j + 1) % S # 0
        PROVE  e.disk[PlaceOf(e, j)] = <<"new", j>>
    <3>1. CASE j = d.moved - 1
      BY <1>7, <1>9, <1>12, <1>13, <2>1, <2>5, <3>1
    <3>2. CASE j # d.moved - 1
      <4>1. j \in 0 .. d.moved - 2 /\ j \in 0 .. 2 * S - 1
        BY <1>7, <1>9, <2>5, <3>2, SizesOK
      <4>2. PlaceOf(d, j) # d.block * S + s - 1 /\ PlaceOf(d, j) \in Places
        BY <2>5, <3>2, <4>1, PlacesDiffer
      <4>3. d.disk[PlaceOf(d, j)] = <<"new", j>>
        BY <1>12, <2>1, <2>6, <4>1
      <4> QED BY <1>7, <1>9, <1>13, <4>2, <4>3
    <3> QED BY <3>1, <3>2
  <2> QED BY <1>10, <1>same, <2>4, <2>6 DEF Stored
<1>14. CASE /\ s = S /\ d.again
            /\ t = 1 /\ e.block = 1 - d.block
            /\ ~e.again /\ e.run = d.run /\ e.data
            /\ e.disk = [d.disk EXCEPT ![e.block * S + s - 1] = d.sec_buf]
  <2>1. s \in 1 .. S /\ t \in 1 .. S /\ d.block = d.first /\ e.block # e.first
    BY <1>7, <1>9, <1>10, <1>14, SizesOK
  <2>2. Before(d) = 0 /\ Before(e) = S /\ d.moved = S
    BY <1>11, <1>14, <2>1, SizesOK DEF Before
  <2>3. e.moved = Transferred(e, t, r)
    BY <1>9, <1>10, <1>14, <2>1, <2>2, SizesOK DEF Transferred
  <2>4. Protocol(e, t, r)
    BY <1>6, <1>9, <1>10, <1>14, <2>1, <2>3 DEF Protocol
  <2>5. /\ 2 * S - 1 \in 0 .. 2 * S - 1
        /\ PlaceOf(e, 2 * S - 1) = e.block * S + s - 1
    <3>1. Before(e) + s - 1 = 2 * S - 1
      BY <1>14, <2>2, SizesOK
    <3> QED BY <1>4, <2>1, <3>1, CurrentPlace
  <2>6. ASSUME NEW j \in 0 .. e.moved - 1, (j + 1) % S # 0
        PROVE  e.disk[PlaceOf(e, j)] = <<"new", j>>
    <3>1. j # S - 1
      BY <2>6, LastSectors, SizesOK
    <3>2. j \in 0 .. d.moved - 2 /\ j \in 0 .. 2 * S - 1 /\ j # 2 * S - 1
      BY <1>9, <2>2, <3>1, SizesOK
    <3>3. PlaceOf(d, j) # e.block * S + s - 1 /\ PlaceOf(d, j) \in Places
      BY <1>9, <2>5, <3>2, PlacesDiffer
    <3>4. d.disk[PlaceOf(d, j)] = <<"new", j>>
      BY <1>12, <2>1, <2>6, <3>2
    <3> QED BY <1>7, <1>9, <1>14, <3>3, <3>4
  <2> QED BY <1>10, <1>same, <2>4, <2>6 DEF Stored
<1>15. CASE /\ s = S /\ ~d.again
            /\ t = s + 1 /\ e.block = d.block
            /\ ~e.again /\ ~e.run /\ e.data = d.data
            /\ e.disk = d.disk
  <2>1. s \in 1 .. S /\ t \notin 1 .. S /\ t # 0 /\ ~e.data
    BY <1>10, <1>15, SizesOK
  <2>2. d.moved = Before(d) + S /\ Before(e) = Before(d)
    BY <1>9, <1>11, <1>15, <2>1 DEF Before
  <2>3. e.moved = Transferred(e, t, r)
    BY <1>9, <2>1, <2>2 DEF Transferred
  <2>4. Protocol(e, t, r)
    BY <1>6, <1>9, <1>10, <1>15, <2>1, <2>3 DEF Protocol
  <2>5. ASSUME NEW j \in 0 .. e.moved - 1, (j + 1) % S # 0
        PROVE  e.disk[PlaceOf(e, j)] = <<"new", j>>
    <3>1. j # d.moved - 1
      <4>1. SUFFICES ASSUME j = d.moved - 1 PROVE FALSE
        OBVIOUS
      <4>2. j + 1 = S \/ j + 1 = 2 * S
        BY <1>11, <2>2, <4>1, SizesOK
      <4> QED BY <2>5, <4>2, LastSectors
    <3>2. j \in 0 .. d.moved - 2
      BY <1>7, <1>9, <3>1
    <3> QED BY <1>9, <1>12, <1>15, <2>1, <2>5, <3>2
  <2> QED BY <1>10, <1>same, <2>4, <2>5 DEF Stored
<1>16. CASE /\ s > S
            /\ t = s /\ e.block = d.block
            /\ e.again = d.again /\ e.run = d.run /\ e.data = d.data
            /\ e.disk = d.disk
  <2>1. q = 0 /\ t \notin 1 .. S /\ t # 0 /\ ~e.data
    BY <1>10, <1>16, SizesOK
  <2>2. d.moved = Before(d) + S /\ Before(e) = Before(d)
    BY <1>9, <1>11, <1>16 DEF Before
  <2>3. e.moved = Transferred(e, t, r)
    BY <1>9, <2>1, <2>2 DEF Transferred
  <2>4. Protocol(e, t, r)
    BY <1>6, <1>9, <1>10, <1>16, <2>1, <2>3 DEF Protocol
  <2> QED BY <1>1, <1>9, <1>10, <1>16, <2>1, <2>4 DEF Stored
<1> QED
  BY <1>5, <1>13, <1>14, <1>15, <1>16 DEF WriteMove, t

-----------------------------------------------------------------------------
(* The operations *)

\* The registers and the history that Tracked is about.
SameTransfer(d, e) ==
  /\ e.sector = d.sector /\ e.block = d.block /\ e.again = d.again
  /\ e.run = d.run /\ e.data = d.data /\ e.cart_addr = d.cart_addr
  /\ e.read = d.read /\ e.protected = d.protected /\ e.sec_buf = d.sec_buf
  /\ e.disk = d.disk /\ e.first = d.first /\ e.moved = d.moved

LEMMA TrackedSame ==
  ASSUME NEW d, NEW e, NEW q, SameTransfer(d, e), Tracked(d, q)
  PROVE  Tracked(e, q)
<1>1. Before(e) = Before(d) /\ \A j : PlaceOf(e, j) = PlaceOf(d, j)
  BY DEF SameTransfer, Before, PlaceOf
<1>2. \A s : Transferred(e, s, q) = Transferred(d, s, q)
  BY <1>1 DEF Transferred
<1>3. \A s : Protocol(d, s, q) => Protocol(e, s, q)
  BY <1>2 DEF SameTransfer, Protocol
<1>4. Stored(d, q) => Stored(e, q)
  BY <1>1 DEF SameTransfer, Stored
<1>5. \A s : Offered(d, s) => Offered(e, s)
  BY DEF SameTransfer, Offered
<1> QED BY <1>3, <1>4, <1>5 DEF SameTransfer, Tracked

LEMMA RecordedOK ==
  ASSUME NEW d, NEW q, DriveOK(d, q)
  PROVE  /\ DriveOK(Recorded(d), q)
         /\ Recorded(d).bm = d.bm /\ Recorded(d).mecha = d.mecha
<1>1. CASE d.follows
  BY <1>1 DEF Recorded
<1>2. CASE ~d.follows
  <2>1. Labels \in [Places -> Sectors] /\ Anything \in Sectors
    BY DEF Labels, Sectors
  <2>2. 0 \in 0 .. 2 * SECTORS_PER_BLOCK
    BY SizesOK DEF S
  <2>3. Recorded(d) = [d EXCEPT !.first = 0, !.moved = 0, !.sec_buf = Anything,
                                !.disk = Labels]
    BY <1>2 DEF Recorded
  <2>4. Recorded(d) \in Disk
    BY <2>1, <2>2, <2>3 DEF DriveOK, Disk
  <2>5. /\ ~Recorded(d).follows /\ Recorded(d).bm = d.bm
        /\ Recorded(d).mecha = d.mecha
    BY <1>2, <2>3 DEF DriveOK, Disk
  <2> QED BY <2>4, <2>5 DEF DriveOK
<1> QED BY <1>1, <1>2

\* Nothing but the C2 sectors was under way.
LEMMA TrackedEnd ==
  ASSUME NEW d \in Disk, Tracked(d, 1), InBlock(d.sector) \notin 1 .. S
  PROVE  Tracked(d, 0)
<1> DEFINE s == InBlock(d.sector)
<1>1. Protocol(d, s, 1) /\ d.read /\ Offered(d, s)
  BY DEF Tracked, Protocol
<1>2. Transferred(d, s, 0) = Transferred(d, s, 1)
  BY DEF Transferred
<1> HIDE DEF s
<1>3. Protocol(d, s, 0)
  BY <1>1, <1>2 DEF Protocol
<1> QED BY <1>1, <1>3 DEF Tracked, s

\* dd_update_bm, called with a transfer of the guest under way or with none.
LEMMA UpdateBmOK ==
  ASSUME NEW s, StateOK(s), NEW d \in Disk, NEW q \in {0, 1}, NEW r \in {0, 1},
         Reason(s, d), r <= q,
         d.follows => Tracked(d, q),
         d.follows /\ InBlock(d.sector) \in 1 .. S => q = 1 /\ r = 0,
         d.follows /\ InBlock(d.sector) = 0 => r = 0,
         NEW c, c = dd_update_bm([m |-> s, dd |-> d])
  PROVE  /\ StateOK(c.m) /\ c.m.queued = s.queued
         /\ Reason(c.m, c.dd) /\ DriveOK(c.dd, r)
<1>1. CASE ~d.run
  <2>1. c.m = s /\ c.dd = d
    <3>1. c = [m |-> s, dd |-> d]
      BY <1>1, UpdateBmIs
    <3> QED BY <3>1
  <2>2. d.follows => Tracked(d, r)
    <3> SUFFICES ASSUME d.follows PROVE Tracked(d, r)
      OBVIOUS
    <3>1. InBlock(d.sector) \notin 1 .. S
      BY <1>1 DEF Tracked, Protocol
    <3>2. r = q \/ (q = 1 /\ r = 0)
      OBVIOUS
    <3> QED BY <3>1, <3>2, TrackedEnd
  <2> QED BY <2>1, <2>2 DEF DriveOK
<1>2. CASE d.run
  <2>1. c.m = Raise(s) /\ c.dd = Advanced(d)
    <3>1. c = [m |-> Raise(s), dd |-> Advanced(d)]
      BY <1>2, UpdateBmIs
    <3> QED BY <3>1
  <2>2. c.dd \in Disk /\ c.dd.bm /\ c.dd.follows = d.follows
    BY <2>1, AdvancedOK DEF Untouched
  <2>3. d.follows => Tracked(Advanced(d), r)
    <3>1. CASE d.read
      BY <1>2, <3>1, TrackRead
    <3>2. CASE ~d.read
      BY <1>2, <3>2, TrackWrite
    <3> QED BY <3>1, <3>2
  <2> QED BY <2>1, <2>2, <2>3, RaiseLowerOK DEF DriveOK, Reason
<1> QED BY <1>1, <1>2

\* The start of a transfer that the guest means to follow.
LEMMA StartTracked ==
  ASSUME NEW d \in Disk, d.run, ~d.data, InBlock(d.sector) = 0,
         d.block = IF d.sector >= Stride THEN 1 ELSE 0,
         d.first = d.block, d.moved = 0
  PROVE  Tracked(Advanced(d), 0)
<1>1. Before(d) = 0
  BY DEF Before
<1>2. CASE d.read
  <2>1. 0 \notin 1 .. S
    BY SizesOK
  <2>2. Protocol(d, 0, 0)
    BY <1>1, <1>2, <2>1 DEF Protocol, Transferred
  <2>3. Tracked(d, 0)
    BY <1>2, <2>2 DEF Tracked, Offered
  <2> QED BY <1>2, <2>1, <2>3, TrackRead
<1>3. CASE ~d.read
  <2> DEFINE e == Advanced(d)
             u == UpdateWrite(d, 0)
  <2>1. u \in Disk /\ WriteMove(d, 0, u)
    BY WriteStep, SizesOK
  <2>2. /\ InBlock(u.sector) = 1 /\ u.block = d.block /\ u.again = d.again
        /\ u.run = d.run
    <3>1. 0 < S /\ 0 # S /\ ~(0 > S) /\ 0 + 1 = 1
      BY SizesOK
    <3> HIDE DEF u
    <3> QED BY <2>1, <3>1 DEF WriteMove
  <2>3. u.block = IF u.sector >= Stride THEN 1 ELSE 0
    BY WriteStep, SizesOK
  <2>4. /\ e.sector = u.sector /\ e.block = u.block /\ e.again = u.again
        /\ e.run = u.run
    BY <1>3, <2>1, AdvancedIs
  <2>5. Untouched(d, e)
    BY AdvancedOK
  <2> HIDE DEF e, u
  <2>6. 1 \in 1 .. S /\ Before(e) = 0 /\ e.moved = 0 /\ ~e.read
    BY <1>3, <2>2, <2>4, <2>5, SizesOK DEF Before, Untouched
  <2>7. Protocol(e, 1, 0)
    BY <2>2, <2>3, <2>4, <2>5, <2>6 DEF Protocol, Transferred, Untouched
  <2>8. Stored(e, 0)
    BY <2>6 DEF Stored
  <2> QED BY <2>2, <2>4, <2>6, <2>7, <2>8 DEF Tracked, e
<1> QED BY <1>2, <1>3

\* What the invariant says of the state before a step.
LEMMA DiskFacts ==
  ASSUME DiskInv
  PROVE  /\ StateOK(m) /\ m \in Machine /\ pi \in Pi /\ PiAgree(m, pi)
         /\ ~pi.overlapped /\ m.queued["PI"] \in {0, 1}
         /\ dd \in Disk /\ Reason(m, dd)
         /\ dd.follows => Tracked(dd, m.queued["PI"])
<1>1. m \in Machine /\ m.queued["PI"] \in Nat
  BY PiIsEvent DEF DiskInv, StateOK, MachineOK, Machine
<1> QED BY <1>1 DEF DiskInv, DriveOK, PiAgree

\* An access to the drive's registers ends here.
LEMMA BecomesOK ==
  ASSUME DiskInv, NEW c, DriveBecomes(c), UNCHANGED pi,
         StateOK(c.m), c.m.queued = m.queued,
         Reason(c.m, c.dd), DriveOK(c.dd, m.queued["PI"])
  PROVE  DiskInv'
<1>1. m' = c.m /\ dd' = Recorded(c.dd)
  BY DEF DriveBecomes
<1>2. DriveOK(dd', m.queued["PI"]) /\ Reason(m', dd')
  BY <1>1, RecordedOK DEF Reason
<1>3. PiAgree(m', pi')
  BY <1>1, DiskFacts, PiMachineStepOK
<1> QED BY <1>1, <1>2, <1>3, DiskFacts DEF DiskInv

LEMMA ReadRegsOK == DiskInv /\ read_dd_regs => DiskInv'
<1> SUFFICES ASSUME DiskInv, read_dd_regs PROVE DiskInv'
  OBVIOUS
<1> DEFINE f == [dd EXCEPT !.bm = FALSE]
           s == InBlock(dd.sector)
           q == m.queued["PI"]
           u == dd_update_bm([m |-> Lower(m), dd |-> f])
<1>1. CASE dd.bm /\ s > SECTORS_PER_BLOCK
  <2>1. DriveBecomes(u) /\ UNCHANGED pi
    BY <1>1 DEF read_dd_regs
  <2>2. f \in Disk /\ SameTransfer(dd, f) /\ f.follows = dd.follows
    BY DiskFacts DEF Disk, SameTransfer
  <2>3. /\ StateOK(Lower(m)) /\ Lower(m).queued = m.queued
        /\ "IP3" \notin Lower(m).cause
    BY DiskFacts, RaiseLowerOK
  <2>4. f.follows => Tracked(f, q)
    BY <2>2, DiskFacts, TrackedSame
  <2>5. InBlock(f.sector) \notin 1 .. S /\ InBlock(f.sector) # 0
    BY <1>1, <2>2, SizesOK DEF S, SameTransfer
  <2>6. q \in {0, 1} /\ q <= q /\ Reason(Lower(m), f)
    BY <2>3, DiskFacts DEF Reason
  <2> HIDE DEF f, q
  <2>7. /\ StateOK(u.m) /\ u.m.queued = m.queued
        /\ Reason(u.m, u.dd) /\ DriveOK(u.dd, q)
    BY <2>2, <2>3, <2>4, <2>5, <2>6, UpdateBmOK
  <2> HIDE DEF u
  <2> QED BY <2>1, <2>7, BecomesOK DEF q
<1>2. CASE ~(dd.bm /\ s > SECTORS_PER_BLOCK)
  <2> DEFINE c == [m |-> m, dd |-> dd]
  <2>1. DriveBecomes(c) /\ UNCHANGED pi
    BY <1>2 DEF read_dd_regs
  <2>2. c.m = m /\ c.dd = dd
    OBVIOUS
  <2> HIDE DEF c
  <2> QED BY <2>1, <2>2, DiskFacts, BecomesOK DEF DriveOK
<1> QED BY <1>1, <1>2

LEMMA CmdStatusOK ==
  ASSUME DiskInv, NEW command \in {"seek_read", "seek_write", "other"},
         NEW track6 \in BOOLEAN, WriteCmdStatus(command, track6)
  PROVE  DiskInv'
<1> DEFINE e == [dd EXCEPT
                   !.read = CASE command = "seek_read"  -> TRUE
                              [] command = "seek_write" -> FALSE
                              [] OTHER                  -> @,
                   !.protected = IF command = "other" THEN @ ELSE track6,
                   !.mecha = TRUE,
                   !.follows = @ /\ command = "other"]
           c == [m |-> Raise(m), dd |-> e]
<1>1. DriveBecomes(c) /\ UNCHANGED pi /\ c.m = Raise(m) /\ c.dd = e
  BY DEF WriteCmdStatus
<1>2. CASE command = "other"
  <2>1. e = [dd EXCEPT !.mecha = TRUE, !.follows = dd.follows]
    BY <1>2, DiskFacts, Zenon DEF Disk
  <2> HIDE DEF e
  <2>2. e \in Disk /\ SameTransfer(dd, e) /\ e.mecha /\ e.follows = dd.follows
    BY <2>1, DiskFacts DEF Disk, SameTransfer
  <2>3. DriveOK(e, m.queued["PI"])
    BY <2>2, DiskFacts, TrackedSame DEF DriveOK
  <2> HIDE DEF c
  <2> QED BY <1>1, <2>2, <2>3, DiskFacts, RaiseLowerOK, BecomesOK DEF Reason
<1>3. CASE command # "other"
  <2>1. \E r \in BOOLEAN : e = [dd EXCEPT !.read = r, !.protected = track6,
                                           !.mecha = TRUE, !.follows = FALSE]
    <3>1. CASE command = "seek_read"
      <4>1. e = [dd EXCEPT !.read = TRUE, !.protected = track6,
                           !.mecha = TRUE, !.follows = FALSE]
        BY <3>1
      <4> QED BY <4>1
    <3>2. CASE command = "seek_write"
      <4>1. e = [dd EXCEPT !.read = FALSE, !.protected = track6,
                           !.mecha = TRUE, !.follows = FALSE]
        BY <3>2
      <4> QED BY <4>1
    <3> QED BY <1>3, <3>1, <3>2
  <2> HIDE DEF e
  <2>2. e \in Disk /\ e.mecha /\ ~e.follows
    <3>1. dd \in Disk
      BY DiskFacts
    <3>2. PICK r \in BOOLEAN : e = [dd EXCEPT !.read = r, !.protected = track6,
                                             !.mecha = TRUE, !.follows = FALSE]
      BY <2>1
    <3>3. e \in Disk
      BY <3>1, <3>2, ZenonT(60) DEF Disk
    <3> QED BY <3>1, <3>2, <3>3 DEF Disk
  <2> HIDE DEF c
  <2> QED BY <1>1, <2>2, DiskFacts, RaiseLowerOK, BecomesOK DEF Reason, DriveOK
<1> QED BY <1>2, <1>3

LEMMA CartAddrOK ==
  ASSUME DiskInv, NEW a \in {"c2", "sector", "other"}, WriteCartAddr(a)
  PROVE  DiskInv'
<1> DEFINE e == [dd EXCEPT
                   !.cart_addr = a, !.data = @ /\ a # "sector",
                   !.c2 = @ /\ a # "c2", !.bm = @ /\ a = "other",
                   !.follows = @ /\ m.queued["PI"] = 0]
           t == IF a = "other" THEN m ELSE Lower(m)
           c == [m |-> t, dd |-> e]
<1>1. DriveBecomes(c) /\ UNCHANGED pi /\ c.m = t /\ c.dd = e
  BY DEF WriteCartAddr
<1>2. /\ e \in Disk
      /\ e.sector = dd.sector /\ e.block = dd.block /\ e.again = dd.again
      /\ e.run = dd.run /\ e.read = dd.read /\ e.protected = dd.protected
      /\ e.sec_buf = dd.sec_buf /\ e.disk = dd.disk /\ e.first = dd.first
      /\ e.moved = dd.moved /\ e.mecha = dd.mecha
  <2> DEFINE data == dd.data /\ a # "sector"
             c2 == dd.c2 /\ a # "c2"
             bm == dd.bm /\ a = "other"
             follows == dd.follows /\ m.queued["PI"] = 0
  <2>1. /\ data \in BOOLEAN /\ c2 \in BOOLEAN /\ bm \in BOOLEAN
        /\ follows \in BOOLEAN
    OBVIOUS
  <2>2. e = [dd EXCEPT !.cart_addr = a, !.data = data, !.c2 = c2, !.bm = bm,
                       !.follows = follows]
    OBVIOUS
  <2> HIDE DEF data, c2, bm, follows, e
  <2>3. dd \in Disk
    BY DiskFacts
  <2>4. e \in Disk
    BY <2>1, <2>2, <2>3, ZenonT(120) DEF Disk
  <2> QED BY <2>2, <2>3, <2>4 DEF Disk
<1>3. /\ e.data => dd.data
      /\ e.follows => dd.follows /\ m.queued["PI"] = 0
      /\ a = "other" => e.bm = dd.bm
  BY DiskFacts DEF Disk
<1>4. StateOK(t) /\ t.queued = m.queued /\ Reason(t, e)
  BY <1>2, <1>3, DiskFacts, RaiseLowerOK DEF Reason
<1> HIDE DEF e, t
<1>5. e.follows => Tracked(e, m.queued["PI"])
  <2> SUFFICES ASSUME e.follows PROVE Tracked(e, 0)
    BY <1>3
  <2>1. Tracked(dd, 0)
    BY <1>3, DiskFacts
  <2>2. /\ \A s : Transferred(e, s, 0) = Transferred(dd, s, 0)
        /\ \A j : PlaceOf(e, j) = PlaceOf(dd, j)
    BY <1>2 DEF Transferred, Before, PlaceOf
  <2>3. \A s : Protocol(dd, s, 0) => Protocol(e, s, 0)
    BY <1>2, <1>3, <2>2 DEF Protocol
  <2>4. /\ Stored(dd, 0) => Stored(e, 0)
        /\ \A s : Offered(dd, s) => Offered(e, s)
    BY <1>2, <1>3, <2>2 DEF Stored, Offered
  <2> QED BY <1>2, <2>1, <2>3, <2>4 DEF Tracked
<1> HIDE DEF c
<1> QED BY <1>1, <1>2, <1>4, <1>5, BecomesOK DEF DriveOK

LEMMA BmResetOK ==
  ASSUME NEW d \in Disk
  PROVE  BmReset(d) \in Disk /\ BmReset(d).follows = d.follows
<1>1. 0 \in 0 .. 2 * Stride - 1
  BY SizesOK
<1>2. BmReset(d) \in Disk
  BY <1>1, ZenonT(60) DEF BmReset, Disk
<1> QED BY <1>2 DEF BmReset, Disk

LEMMA AcknowledgeOK ==
  ASSUME NEW s, StateOK(s), NEW d, NEW w
  PROVE  /\ StateOK(Acknowledge(s, d, w)) /\ Acknowledge(s, d, w).queued = s.queued
         /\ Reason(Acknowledge(s, d, w), d)
BY RaiseLowerOK DEF Acknowledge, Reason

LEMMA BmStatusOK ==
  ASSUME DiskInv, NEW sector \in {0, Stride}, NEW w \in BmWrites,
         WriteBmStatus(sector, w)
  PROVE  DiskInv'
<1> DEFINE block == IF sector < Stride THEN 0 ELSE 1
           mecha == dd.mecha /\ "mecha_reset" \notin w
           again == dd.again \/ "again" \in w
           hold == dd.hold \/ "reset" \in w
           follows == /\ w \cap {"start", "reset"} = {"start"}
                      /\ InBlock(sector) = 0 /\ ~dd.hold /\ ~dd.data
                      /\ m.queued["PI"] = 0
           b == [dd EXCEPT !.sector = sector, !.disk = Labels, !.block = block,
                           !.mecha = mecha, !.again = again, !.hold = hold,
                           !.first = block, !.moved = 0, !.follows = follows]
           r == IF b.hold /\ "reset" \notin w THEN BmReset(b) ELSE b
           a == Acknowledge(m, r, w)
           x == [r EXCEPT !.run = TRUE]
           c == IF "start" \in w THEN dd_update_bm([m |-> a, dd |-> x])
                ELSE [m |-> a, dd |-> r]
<1>1. DriveBecomes(c) /\ UNCHANGED pi
  BY DEF WriteBmStatus
<1>2. b \in Disk
  <2>1. /\ sector \in 0 .. 2 * Stride - 1 /\ block \in {0, 1}
        /\ 0 \in 0 .. 2 * SECTORS_PER_BLOCK
        /\ Labels \in [Places -> Sectors]
    BY SizesOK DEF S, Labels, Sectors
  <2>2. /\ mecha \in BOOLEAN /\ again \in BOOLEAN /\ hold \in BOOLEAN
        /\ follows \in BOOLEAN
    OBVIOUS
  <2>3. dd \in Disk
    BY DiskFacts
  <2> HIDE DEF block, mecha, again, hold, follows
  <2> QED BY <2>1, <2>2, <2>3, ZenonT(120) DEF Disk
<1>3. /\ b.sector = sector /\ b.block = block /\ b.hold = hold /\ b.first = block
      /\ b.moved = 0 /\ b.follows = follows /\ b.data = dd.data
  <2> HIDE DEF block, mecha, again, hold, follows
  <2> QED BY DiskFacts DEF Disk
<1>4. /\ follows => "start" \in w /\ ~hold /\ InBlock(sector) = 0 /\ ~dd.data
                    /\ m.queued["PI"] = 0
      /\ block = IF sector >= Stride THEN 1 ELSE 0
  BY SizesOK
<1> HIDE DEF b, block, mecha, again, hold, follows
<1>5. r \in Disk /\ r.follows = b.follows /\ (r.follows => r = b)
  BY <1>2, <1>3, <1>4, BmResetOK
<1> HIDE DEF r
<1>6. StateOK(a) /\ a.queued = m.queued /\ Reason(a, r)
  BY DiskFacts, AcknowledgeOK
<1> HIDE DEF a
<1>7. /\ StateOK(c.m) /\ c.m.queued = m.queued
      /\ Reason(c.m, c.dd) /\ DriveOK(c.dd, m.queued["PI"])
  <2>1. CASE "start" \in w
    <3>1. x \in Disk /\ x.run /\ x.follows = r.follows
      BY <1>5 DEF Disk
    <3>2. r.follows => /\ ~x.data /\ x.sector = sector /\ x.block = block
                       /\ x.first = block /\ x.moved = 0
      BY <1>2, <1>3, <1>4, <1>5 DEF Disk
    <3> HIDE DEF x
    <3>3. x.follows => Tracked(Advanced(x), 0)
      BY <1>3, <1>4, <1>5, <3>1, <3>2, StartTracked
    <3>4. c = [m |-> Raise(a), dd |-> Advanced(x)]
      BY <2>1, <3>1, UpdateBmIs
    <3>5. c.m = Raise(a) /\ c.dd = Advanced(x)
      BY <3>4
    <3>6. Advanced(x) \in Disk /\ Advanced(x).bm /\ Advanced(x).follows = x.follows
      BY <3>1, AdvancedOK DEF Untouched
    <3>7. x.follows => m.queued["PI"] = 0
      BY <1>3, <1>4, <1>5, <3>1
    <3> QED BY <1>6, <3>3, <3>5, <3>6, <3>7, RaiseLowerOK DEF Reason, DriveOK
  <2>2. CASE "start" \notin w
    <3>1. c.m = a /\ c.dd = r
      BY <2>2
    <3>2. ~r.follows
      BY <1>3, <1>4, <1>5, <2>2
    <3> QED BY <1>5, <1>6, <3>1, <3>2 DEF DriveOK
  <2> QED BY <2>1, <2>2
<1> HIDE DEF c
<1> QED BY <1>1, <1>7, BecomesOK

LEMMA DiskDmaOK ==
  ASSUME DiskInv, NEW send \in BOOLEAN, DiskDma(send)
  PROVE  DiskInv'
<1> DEFINE s == InBlock(dd.sector)
           in_sectors == InBlock(dd.sector) \in 1 .. SECTORS_PER_BLOCK
           follows == /\ dd.follows /\ send = ~dd.read
                      /\ ~PoolEmpty(m)
                      /\ \/ /\ dd.cart_addr = "sector" /\ ~dd.data /\ in_sectors
                            /\ dd.moved < 2 * SECTORS_PER_BLOCK
                         \/ dd.cart_addr = "c2" /\ dd.read /\ ~in_sectors
           buf == IF send /\ dd.cart_addr = "sector" THEN <<"new", dd.moved>>
                  ELSE dd.sec_buf
           moved == IF follows /\ dd.cart_addr = "sector" THEN dd.moved + 1
                    ELSE dd.moved
           e == [dd EXCEPT !.sec_buf = buf, !.moved = moved, !.follows = follows]
<1>1. ~Busy(pi) /\ StartDma(~send) /\ dd' = Recorded(e)
  BY DEF DiskDma
<1>2. StateOK(m') /\ pi' \in Pi /\ PiAgree(m', pi') /\ ~pi'.overlapped
  <2>1. StateOK(m') /\ pi' \in Pi /\ PiAgree(m', pi')
    BY <1>1, DiskFacts, StartDmaOK
  <2>2. pi'.overlapped = (pi.overlapped \/ Busy(pi))
    BY <1>1, DiskFacts DEF StartDma, Pi
  <2> QED BY <1>1, <2>1, <2>2, DiskFacts
<1>3. m' = add_interrupt_event(m, "PI")
  BY <1>1 DEF StartDma
<1>4. m'.cause = m.cause
  BY <1>3, DiskFacts DEF add_interrupt_event, Machine
<1>5. m.queued["PI"] = 0
  BY <1>1, DiskFacts DEF PiAgree
<1>6. follows => m'.queued["PI"] = 1
  <2>1. m'.queued["PI"] = IF PoolEmpty(m) THEN m.queued["PI"]
                          ELSE m.queued["PI"] + 1
    BY <1>3, DiskFacts, AddKeeps, PiIsEvent
  <2> QED BY <1>5, <2>1
<1>7. follows \in BOOLEAN /\ dd.moved \in 0 .. 2 * S
  BY DiskFacts DEF Disk, S
<1>8. CASE ~follows
  <2>1. e = [dd EXCEPT !.sec_buf = buf, !.moved = dd.moved, !.follows = FALSE]
    BY <1>7, <1>8
  <2> DEFINE g == [dd EXCEPT !.first = 0, !.moved = 0, !.sec_buf = Anything,
                             !.disk = Labels, !.follows = FALSE]
  <2> HIDE DEF e, buf
  <2>2. /\ ~e.follows
        /\ Recorded(e) = [e EXCEPT !.first = 0, !.moved = 0, !.sec_buf = Anything,
                                   !.disk = Labels]
    BY <2>1, DiskFacts DEF Recorded, Disk
  <2>3. dd' = g
    BY <1>1, <2>1, <2>2, DiskFacts DEF Disk
  <2>4. Labels \in [Places -> Sectors] /\ Anything \in Sectors
        /\ 0 \in 0 .. 2 * SECTORS_PER_BLOCK
    BY SizesOK DEF Labels, Sectors, S
  <2>5. g \in Disk /\ ~g.follows /\ g.bm = dd.bm /\ g.mecha = dd.mecha
    BY <2>4, DiskFacts DEF Disk
  <2> HIDE DEF g
  <2> QED BY <1>2, <1>4, <2>3, <2>5, DiskFacts DEF DiskInv, DriveOK, Reason
<1>9. CASE follows
  <2>1. /\ dd.follows /\ Tracked(dd, 0) /\ send = ~dd.read /\ dd.read \in BOOLEAN
    BY <1>5, <1>9, DiskFacts DEF Disk
  <2>2. \/ dd.cart_addr = "sector" /\ ~dd.data /\ s \in 1 .. S /\ dd.moved < 2 * S
        \/ dd.cart_addr = "c2" /\ dd.read /\ s \notin 1 .. S
    BY <1>9 DEF S
  <2>3. /\ buf = IF dd.read \/ dd.cart_addr # "sector" THEN dd.sec_buf
                 ELSE <<"new", dd.moved>>
        /\ moved = IF dd.cart_addr = "sector" THEN dd.moved + 1 ELSE dd.moved
    BY <1>9, <2>1
  <2> HIDE DEF buf, moved
  <2>4. buf \in Sectors /\ moved \in 0 .. 2 * SECTORS_PER_BLOCK
    <3>1. dd.sec_buf \in Sectors
      BY DiskFacts DEF Disk
    <3>2. dd.moved < 2 * S => <<"new", dd.moved>> \in Sectors
      BY <1>7, SizesOK DEF Sectors, S
    <3>3. moved \in 0 .. 2 * SECTORS_PER_BLOCK
      BY <1>7, <2>2, <2>3, SizesOK DEF S
    <3> QED BY <2>2, <2>3, <3>1, <3>2, <3>3
  <2>5. e = [dd EXCEPT !.sec_buf = buf, !.moved = moved, !.follows = TRUE]
    BY <1>7, <1>9
  <2> HIDE DEF e, follows
  <2>6. /\ e \in Disk /\ e.follows /\ e.sec_buf = buf /\ e.moved = moved
        /\ e.sector = dd.sector /\ e.block = dd.block /\ e.again = dd.again
        /\ e.run = dd.run /\ e.data = dd.data /\ e.cart_addr = dd.cart_addr
        /\ e.read = dd.read /\ e.protected = dd.protected /\ e.disk = dd.disk
        /\ e.first = dd.first /\ e.bm = dd.bm /\ e.mecha = dd.mecha
    BY <2>4, <2>5, DiskFacts DEF Disk
  <2>7. dd' = e
    BY <1>1, <2>6 DEF Recorded
  <2>8. Tracked(e, 1)
    <3>1. Before(e) = Before(dd) /\ \A j : PlaceOf(e, j) = PlaceOf(dd, j)
      BY <2>6 DEF Before, PlaceOf
    <3>2. Protocol(dd, s, 0) /\ dd.moved = Transferred(dd, s, 0)
      BY <2>1 DEF Tracked, Protocol
    <3> HIDE DEF s
    <3>3. CASE dd.cart_addr = "sector" /\ ~dd.data /\ s \in 1 .. S /\ dd.moved < 2 * S
      <4>1. Before(dd) \in {0, S}
        BY DEF Before
      <4>2. e.moved = Transferred(e, s, 1) /\ e.moved = dd.moved + 1
        BY <1>7, <2>3, <2>6, <3>1, <3>2, <3>3, <4>1, SizesOK DEF Transferred
      <4>3. Protocol(e, s, 1)
        BY <2>6, <3>2, <3>3, <4>2 DEF Protocol
      <4>4. CASE dd.read
        BY <2>6, <3>3, <4>3, <4>4 DEF Tracked, Offered, s
      <4>5. CASE ~dd.read
        <5>1. /\ e.sec_buf = <<"new", e.moved - 1>>
              /\ e.moved - 1 - 1 = dd.moved - 1 - 0
          BY <1>7, <2>3, <2>6, <3>3, <4>2, <4>5, SizesOK
        <5>2. Stored(dd, 0)
          BY <2>1, <4>5 DEF Tracked
        <5>3. Stored(e, 1)
          BY <2>6, <3>1, <5>1, <5>2 DEF Stored
        <5> QED BY <2>6, <4>3, <4>5, <5>3 DEF Tracked, s
      <4> QED BY <4>4, <4>5
    <3>4. CASE dd.cart_addr = "c2" /\ dd.read /\ s \notin 1 .. S
      <4>1. e.moved = Transferred(e, s, 1)
        BY <2>3, <2>6, <3>1, <3>2, <3>4 DEF Transferred
      <4>2. Protocol(e, s, 1)
        BY <2>6, <3>2, <3>4, <4>1 DEF Protocol
      <4>3. Offered(e, s)
        BY <2>6, <3>2, <3>4 DEF Offered, Protocol
      <4> QED BY <2>6, <3>4, <4>2, <4>3 DEF Tracked, s
    <3> QED BY <2>2, <3>3, <3>4 DEF s
  <2> QED BY <1>2, <1>4, <1>6, <1>9, <2>6, <2>7, <2>8, DiskFacts
      DEF DiskInv, DriveOK, Reason
<1> QED BY <1>8, <1>9

LEMMA EndOfDmaOK == DiskInv /\ disk_end_of_dma_event => DiskInv'
<1> SUFFICES ASSUME DiskInv, disk_end_of_dma_event PROVE DiskInv'
  OBVIOUS
<1>1. PICK s \in Dispatch(m, "PI") :
        DriveBecomes(IF dd.cart_addr = "other" THEN [m |-> s, dd |-> dd]
                     ELSE dd_update_bm([m |-> s, dd |-> dd]))
  BY DEF disk_end_of_dma_event
<1>2. /\ "PI" \in Due(m)
      /\ pi' = [pi EXCEPT !.dma_busy = FALSE, !.io_busy = FALSE]
  BY DEF disk_end_of_dma_event
<1>3. StateOK(s) /\ s.queued["PI"] = m.queued["PI"] - 1 /\ Reason(s, dd)
  BY <1>1, <1>2, DiskFacts, DispatchOK, DispatchKeeps, DispatchPiKeepsDisk, PiIsEvent
  DEF Reason
<1>4. m.queued["PI"] = 1 /\ s.queued["PI"] = 0
  <2>1. m.queued["PI"] > 0
    BY <1>2, PiIsEvent DEF Due
  <2> QED BY <1>3, <2>1, DiskFacts
<1>5. pi' \in Pi /\ ~Busy(pi') /\ ~pi'.overlapped
  BY <1>2, DiskFacts DEF Pi, Busy
<1> DEFINE c == IF dd.cart_addr = "other" THEN [m |-> s, dd |-> dd]
                ELSE dd_update_bm([m |-> s, dd |-> dd])
<1>6. dd \in Disk /\ (dd.follows => Tracked(dd, 1))
  BY <1>4, DiskFacts
<1>7. /\ StateOK(c.m) /\ c.m.queued["PI"] = 0
      /\ Reason(c.m, c.dd) /\ DriveOK(c.dd, 0)
  <2>1. CASE dd.cart_addr = "other"
    <3>1. c.m = s /\ c.dd = dd
      BY <2>1
    <3>2. dd.follows => InBlock(dd.sector) \notin 1 .. S
      BY <1>6, <2>1 DEF Tracked, Protocol
    <3> QED BY <1>3, <1>4, <1>6, <3>1, <3>2, TrackedEnd DEF DriveOK
  <2>2. CASE dd.cart_addr # "other"
    <3>1. c = dd_update_bm([m |-> s, dd |-> dd])
      BY <2>2
    <3> HIDE DEF c
    <3>2. /\ StateOK(c.m) /\ c.m.queued = s.queued
          /\ Reason(c.m, c.dd) /\ DriveOK(c.dd, 0)
      BY <1>3, <1>6, <3>1, UpdateBmOK
    <3> QED BY <1>4, <3>2
  <2> QED BY <2>1, <2>2
<1>8. m' = c.m /\ dd' = Recorded(c.dd)
  BY <1>1 DEF DriveBecomes
<1> HIDE DEF c
<1>9. DriveOK(dd', 0) /\ Reason(m', dd')
  BY <1>7, <1>8, RecordedOK DEF Reason
<1> QED BY <1>5, <1>7, <1>8, <1>9 DEF DiskInv, PiAgree

\* After both kinds of reset nothing is queued for the PI and the guest follows
\* no protocol.
LEMMA ResetDiskOK ==
  ASSUME StateOK(m'), m'.queued["PI"] = 0, "IP3" \notin m'.cause, pi' = Idle,
         NEW d \in Disk, ~d.follows, dd' = Recorded(d)
  PROVE  DiskInv'
<1>1. DriveOK(dd', 0)
  BY RecordedOK DEF DriveOK
<1>2. pi' \in Pi /\ ~Busy(pi') /\ ~pi'.overlapped
  BY DEF Idle, Pi, Busy
<1> QED BY <1>1, <1>2 DEF DiskInv, PiAgree, Reason

LEMMA DiskResetsOK == DiskInv /\ (DiskNmi \/ DiskHardReset) => DiskInv'
<1> SUFFICES ASSUME DiskInv, DiskNmi \/ DiskHardReset PROVE DiskInv'
  OBVIOUS
<1>1. CASE DiskNmi
  <2> DEFINE d == [dd EXCEPT !.follows = FALSE]
             c == [m |-> nmi_int_handler(m), dd |-> d]
  <2>1. DriveBecomes(c) /\ pi' = Idle /\ c.m = nmi_int_handler(m) /\ c.dd = d
    BY <1>1 DEF DiskNmi
  <2>2. d \in Disk /\ ~d.follows
    BY DiskFacts DEF Disk
  <2> HIDE DEF c, d
  <2>3. m' = nmi_int_handler(m) /\ dd' = Recorded(d)
    BY <2>1 DEF DriveBecomes
  <2>4. StateOK(m')
    BY <2>3, DiskFacts, NmiOK
  <2>5. m'.queued["PI"] = 0 /\ "IP3" \notin m'.cause
    BY <2>3, DiskFacts, PiIsEvent
    DEF nmi_int_handler, RestartQueue, pifbootrom_hle_execute, Machine
  <2> QED BY <2>1, <2>2, <2>3, <2>4, <2>5, ResetDiskOK
<1>2. CASE DiskHardReset
  <2> DEFINE b == BmReset(dd)
             d == [b EXCEPT !.block = dd.block, !.mecha = FALSE,
                            !.protected = FALSE, !.cart_addr = "other",
                            !.follows = FALSE]
  <2>1. m' = PowerOn /\ pi' = Idle /\ dd' = Recorded(d)
    BY <1>2 DEF DiskHardReset
  <2>2. b \in Disk /\ dd.block \in {0, 1}
    BY DiskFacts, BmResetOK DEF Disk
  <2> HIDE DEF b
  <2>3. d \in Disk
    BY <2>2, ZenonT(60) DEF Disk
  <2>4. ~d.follows
    BY <2>2 DEF Disk
  <2> HIDE DEF d
  <2>5. StateOK(m') /\ m'.queued["PI"] = 0 /\ "IP3" \notin m'.cause
    BY <2>1, PowerOnOK, PiIsEvent DEF PowerOn, RestartQueue
  <2> QED BY <2>1, <2>3, <2>4, <2>5, ResetDiskOK
<1> QED BY <1>1, <1>2

LEMMA DiskInitOK == DiskInit => DiskInv
<1> SUFFICES ASSUME DiskInit PROVE DiskInv
  OBVIOUS
<1>1. PiInv /\ pi = Idle /\ m = PowerOn
  BY PiInitOK DEF DiskInit, PiInit, Init
<1>2. /\ StateOK(m) /\ pi \in Pi /\ PiAgree(m, pi) /\ ~pi.overlapped
      /\ "IP3" \notin m.cause
  BY <1>1 DEF PiInv, Idle, PowerOn, RestartQueue
<1>3. /\ Labels \in [Places -> Sectors] /\ Anything \in Sectors
      /\ 0 \in 0 .. 2 * SECTORS_PER_BLOCK /\ 0 \in 0 .. 2 * Stride - 1
  BY SizesOK DEF Labels, Sectors, S
<1>4. dd \in Disk /\ ~dd.follows
  BY <1>3 DEF DiskInit, Disk
<1> QED BY <1>2, <1>4 DEF DiskInv, DriveOK, Reason

LEMMA DiskStepOK == DiskInv /\ [DiskNext]_<<m, cart, pi, dd>> => DiskInv'
<1> SUFFICES ASSUME DiskInv, [DiskNext]_<<m, cart, pi, dd>> PROVE DiskInv'
  OBVIOUS
<1>1. CASE read_dd_regs
  BY <1>1, ReadRegsOK
<1>2. CASE \E sector \in {0, Stride}, w \in BmWrites : WriteBmStatus(sector, w)
  BY <1>2, BmStatusOK
<1>3. CASE \E command \in {"seek_read", "seek_write"}, track6 \in BOOLEAN :
             WriteCmdStatus(command, track6)
  BY <1>3, CmdStatusOK
<1>4. CASE WriteCmdStatus("other", FALSE)
  BY <1>4, CmdStatusOK
<1>5. CASE \E a \in {"c2", "sector", "other"} : WriteCartAddr(a)
  BY <1>5, CartAddrOK
<1>6. CASE \E send \in BOOLEAN : DiskDma(send)
  BY <1>6, DiskDmaOK
<1>7. CASE disk_end_of_dma_event
  BY <1>7, EndOfDmaOK
<1>8. CASE DiskNmi \/ DiskHardReset
  BY <1>8, DiskResetsOK
<1>9. CASE UNCHANGED <<m, cart, pi, dd>>
  BY <1>9 DEF DiskInv
<1> QED
  BY <1>1, <1>2, <1>3, <1>4, <1>5, <1>6, <1>7, <1>8, <1>9 DEF DiskNext

LEMMA DiskInvariance == DiskSpec => []DiskInv
BY DiskInitOK, DiskStepOK, PTL DEF DiskSpec

\* Whichever way the guest acknowledges (BM_STATUS_CTL, reading CMD_STATUS,
\* writing PI_CART_ADDR) and whatever is reset, the drive's interrupt is pending
\* only while CMD_STATUS gives a reason for it (dd_update_bm, write_dd_regs).
THEOREM InterruptHasReasonAlways == DiskSpec => []InterruptHasReason
<1>1. DiskInv => InterruptHasReason
  BY DEF DiskInv, Reason, InterruptHasReason
<1> QED BY <1>1, DiskInvariance, PTL

\* For any numbers of sectors and C2 sectors, a guest that keeps to the protocol
\* is offered the sectors of the two blocks in order, and finds those it sent in
\* their places, the last one of a block excepted (dd_update_bm,
\* dd_read_sector, dd_write_sector).
THEOREM SectorsInOrderAlways == DiskSpec => []SectorsInOrder
<1>1. DiskInv => SectorsInOrder
  <2> SUFFICES ASSUME DiskInv PROVE SectorsInOrder
    OBVIOUS
  <2> DEFINE s == InBlock(dd.sector)
             q == m.queued["PI"]
  <2>1. DiskTypeOK
    BY DiskFacts DEF DiskTypeOK
  <2>2. ReadsInOrder
    <3> SUFFICES ASSUME dd.follows, dd.read, dd.data
                 PROVE  /\ dd.sec_buf = dd.disk[PlaceOf(dd, dd.moved)]
                        /\ dd.moved < 2 * S
      BY DEF ReadsInOrder, PlaceOf, S
    <3>1. Protocol(dd, s, q) /\ Offered(dd, s) /\ q \in {0, 1} /\ dd \in Disk
      BY DiskFacts DEF Tracked
    <3> HIDE DEF s, q
    <3>2. s \in 1 .. S /\ q = 0 /\ Before(dd) \in {0, S}
      BY <3>1 DEF Protocol, Before
    <3>3. dd.moved = Before(dd) + s - 1
      BY <3>1, <3>2, SizesOK DEF Protocol, Transferred
    <3>4. /\ dd.moved \in 0 .. 2 * S - 1
          /\ PlaceOf(dd, dd.moved) = dd.block * S + s - 1
      BY <3>1, <3>2, <3>3, CurrentPlace
    <3> QED BY <3>1, <3>4, SizesOK DEF Offered
  <2>3. SectorsInPlace
    <3> SUFFICES ASSUME dd.follows, ~dd.read, m.queued["PI"] = 0,
                        NEW j \in 0 .. dd.moved - 1, (j + 1) % S # 0
                 PROVE  dd.disk[PlaceOf(dd, j)] = <<"new", j>>
      BY DEF SectorsInPlace, PlaceOf, S
    <3>1. Stored(dd, 0) /\ dd.moved \in Nat
      BY DiskFacts DEF Tracked, Disk
    <3>2. dd.moved - 1 - 0 = dd.moved - 1
      BY <3>1
    <3> QED BY <3>1, <3>2 DEF Stored
  <2> QED BY <2>1, <2>2, <2>3 DEF SectorsInOrder
<1> QED BY <1>1, DiskInvariance, PTL
=============================================================================
