------------------------------ MODULE PifFrame ------------------------------
(***************************************************************************)
(* The two walks over PIF RAM (si/pif.c): update_pif_write executes the    *)
(* joybus commands in it when the guest has sent them, update_pif_read     *)
(* fills in the buttons when the guest fetches the answers.  Both find the *)
(* commands by their length bytes in the same, meanwhile changed, RAM.     *)
(*                                                                         *)
(* A command is T, R, code and data: T bytes to send and R to receive, the *)
(* top two bits of R are set for errors.  One step is one turn of a loop.  *)
(***************************************************************************)
EXTENDS Integers, Sequences, FiniteSets

CONSTANTS RAM_SIZE,   \* PIF_RAM_SIZE, 64 in the code
          MaxItems,   \* bound: items the guest puts in a frame, after
          Skipped,    \* channels it skips at the beginning
          Present,    \* connected controllers
          Fillers     \* what the guest puts where the answers will be

ASSUME PifAssumption ==
  /\ RAM_SIZE \in Nat /\ MaxItems \in Nat /\ Skipped \subseteq Nat
  /\ Present \subseteq 0 .. 3 /\ Fillers \subseteq 0 .. 255

VARIABLES ram, pos, channel, walk, executed, filled, items \* pos: the i of the loops
frameVars == <<ram, pos, channel, walk, executed, filled, items>>

\* The items of a frame: skip a channel, no operation, end of the commands,
\* ask for the status of a controller or of the cartridge, read the buttons.
FrameItems == {"skip", "nop", "end", "status", "read"}

ItemBytes(item, fill) ==
  CASE item = "skip"   -> <<0>>
    [] item = "nop"    -> <<255>>
    [] item = "end"    -> <<254>>
    [] item = "status" -> <<1, 3, 0, fill, fill, fill>>
    [] item = "read"   -> <<1, 4, 1, fill, fill, fill, fill>>

Size(item) == CASE item = "status" -> 6 [] item = "read" -> 7 [] OTHER -> 1

\* The items of some kinds before the k-th, and the bytes before it.
Before(its, k, kinds) == {j \in 1 .. k - 1 : its[j] \in kinds}

OffsetOf(its, k) ==
  Cardinality(Before(its, k, {"skip", "nop", "end"}))
    + 6 * Cardinality(Before(its, k, {"status"}))
    + 7 * Cardinality(Before(its, k, {"read"}))

\* The guest writes the items one after the other, and ends a frame that is
\* not full with 254.
Frame(its, fill) ==
  [a \in 0 .. RAM_SIZE - 1 |->
     LET over == {j \in 1 .. Len(its) : a - OffsetOf(its, j) \in 0 .. Size(its[j]) - 1}
         item == CHOOSE j \in over : TRUE
     IN  IF over = {} THEN 254
         ELSE ItemBytes(its[item], fill)[a - OffsetOf(its, item) + 1]]

FrameTypeOK ==
  /\ ram \in [0 .. RAM_SIZE - 1 -> 0 .. 255]
  /\ pos \in Nat /\ channel \in Nat
  /\ walk \in {"write", "read", "done"}
  /\ executed \subseteq Nat \X Nat /\ filled \subseteq Nat \X Nat
  /\ items \in Seq(FrameItems)

FrameInit ==
  \E s \in Skipped, n \in 0 .. MaxItems : \E own \in [1 .. n -> FrameItems], fill \in Fillers :
    /\ items = [k \in 1 .. s |-> "skip"] \o own
    /\ OffsetOf(items, Len(items) + 1) <= RAM_SIZE
    /\ ram = Frame(items, fill)
    /\ pos = 0 /\ channel = 0 /\ walk = "write"
    /\ executed = {} /\ filled = {}

-----------------------------------------------------------------------------
\* ram with the bytes of s from address a on.
Stored(a, s) ==
  [k \in DOMAIN ram |-> IF k - a \in 0 .. Len(s) - 1 THEN s[k - a + 1] ELSE ram[k]]

\* cmd[1] |= 0x80, on a byte that does not have the bit.
NoResponse(a) == Stored(a + 1, <<(ram[a + 1] % 128) + 128>>)

\* process_controller_command: the status of a controller is stored; the
\* buttons are left to the read.
process_controller_command(a, c) ==
  IF c \notin Present THEN NoResponse(a)
  ELSE IF ram[a + 2] = 0 THEN Stored(a + 3, <<5, 0, 0>>) ELSE ram

\* process_cart_command: the identification of the EEPROM.
process_cart_command(a) ==
  IF ram[a + 2] = 0 THEN Stored(a + 3, <<0, 128, 0>>) ELSE ram

\* read_controller
read_controller(a, c) ==
  IF ram[a + 2] = 1 /\ c \in Present THEN Stored(a + 3, <<7, 7, 7, 7>>) ELSE ram

\* Mutant: the error bits are taken for a part of the length.
AfterCommand_errors(a) == a + ram[a] + ram[a + 1] + 2

\* i += ram[i] + (ram[i + 1] & 0x3F) + 1, and the i++ of the loop.
AfterCommand(a) == a + ram[a] + (ram[a + 1] % 64) + 2

IsCommand(b) == b # 0 /\ b < 64

\* The control of both loops, by the byte at a.  (The read also skips 0xB4,
\* 0x56 and 0xB8, which end the write; no command begins with them.)
Advance(a) ==
  CASE ram[a] = 0        -> /\ channel' = channel + 1
                            /\ pos' = IF channel >= 6 THEN RAM_SIZE + 1 ELSE a + 1
    [] ram[a] = 255      -> pos' = a + 1 /\ UNCHANGED channel
    [] IsCommand(ram[a]) -> pos' = AfterCommand(a) /\ channel' = channel + 1
    [] OTHER             -> pos' = RAM_SIZE + 1 /\ UNCHANGED channel

write_walk ==
  /\ walk = "write" /\ pos < RAM_SIZE
  /\ Advance(pos)
  /\ IF ~IsCommand(ram[pos]) THEN UNCHANGED <<ram, executed>>
     ELSE /\ executed' = executed \cup {<<channel, ram[pos + 2]>>}
          /\ ram' = CASE channel < 4 -> process_controller_command(pos, channel)
                      [] channel = 4 -> process_cart_command(pos)
                      [] OTHER       -> ram
  /\ UNCHANGED <<walk, filled, items>>

read_walk ==
  /\ walk = "read" /\ pos < RAM_SIZE
  /\ Advance(pos)
  /\ IF IsCommand(ram[pos]) /\ channel < 4
     THEN /\ filled' = filled \cup {<<channel, ram[pos + 2]>>}
          /\ ram' = read_controller(pos, channel)
     ELSE UNCHANGED <<ram, filled>>
  /\ UNCHANGED <<walk, executed, items>>

\* The walk is over; the guest fetches the answers after the write.
EndOfWalk ==
  /\ pos >= RAM_SIZE /\ walk # "done"
  /\ walk' = IF walk = "write" THEN "read" ELSE "done"
  /\ pos' = 0 /\ channel' = 0
  /\ UNCHANGED <<ram, executed, filled, items>>

FrameNext == write_walk \/ read_walk \/ EndOfWalk

FrameSpec == FrameInit /\ [][FrameNext]_frameVars

-----------------------------------------------------------------------------
(* Properties *)

\* The channel of the k-th item: one for each skip and each command before it.
ChannelOf(k) == Cardinality(Before(items, k, {"skip", "status", "read"}))

Code(item) == IF item = "status" THEN 0 ELSE 1

\* The commands among the first n items and before the first "end".
CommandItems(n) ==
  {j \in 1 .. n : items[j] \in {"status", "read"} /\ \A l \in 1 .. j : items[l] # "end"}

CommandsIn(n) == {<<ChannelOf(k), Code(items[k])>> : k \in CommandItems(n)}
JoybusCommands == CommandsIn(Len(items))

\* The guest gets its frame back with the commands in place: only the bytes of
\* the answers and the error bits have changed.
FrameIntact ==
  LET template == Frame(items, -1)
  IN  \A k \in DOMAIN ram :
        template[k] = -1 \/ ram[k] \in {template[k], template[k] + 128}

UpTo(last, commands) == {c \in commands : c[1] <= last}

\* Each walk finds the commands of the frame the guest built for the cartridge
\* and the controllers, each with its channel, although the first one has
\* changed the RAM the second one reads, and leaves the frame in place.
WalksFindCommands ==
  /\ FrameTypeOK /\ FrameIntact
  /\ walk \in {"read", "done"} => UpTo(4, executed) = UpTo(4, JoybusCommands)
  /\ walk = "done" => filled = UpTo(3, JoybusCommands)

=============================================================================
