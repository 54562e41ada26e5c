---------------------------- MODULE CommandIngest ----------------------------
(***************************************************************************)
(* How RDP command lists enter the paraLLEl-RDP plugin: the DPC registers  *)
(* (rdp/rdp_core.c, and the RSP's view of them) and process_command_ingest *)
(* (rdp_command_ingest.hpp), which copies [CURRENT, END) of RDRAM or DMEM  *)
(* into cmd_data, cuts it into commands and hands them to the frontend.    *)
(*                                                                         *)
(* The unit is the 8-byte word pair.  A pair is known by the opcode bits   *)
(* of its first word; the pairs after the first of a command are payload   *)
(* and their opcode bits are arbitrary.  Addresses count pairs.            *)
(***************************************************************************)
EXTENDS Integers, Sequences, FiniteSets

CONSTANTS
  Opcodes,     \* what the opcode bits of a pair can be
  cmd_len_lut, \* pairs of the command an opcode starts
  SyncFull,    \* opcode 0x29
  Ignored,     \* opcodes below 8, parsed but not handed over
  Capacity,    \* pairs cmd_data accepts: 0x0003FFFF >> 3
  DmemSize,    \* pairs of DMEM: XBUS addresses wrap there
  MaxAddr,     \* bound: addresses the guest writes
  MaxPairs     \* bound: pairs accepted in a behaviour

ASSUME IngestAssumption ==
  /\ cmd_len_lut \in [Opcodes -> Nat \ {0}]
  /\ SyncFull \in Opcodes \ Ignored /\ cmd_len_lut[SyncFull] = 1
  /\ Capacity \in Nat /\ DmemSize \in Nat \ {0} /\ MaxAddr \in Nat

VARIABLES
  start, current, end,   \* DPC_START, DPC_CURRENT, DPC_END
  xbus, freeze,          \* two bits of DPC_STATUS
  cmd_data,              \* the pairs below cmd_ptr
  cmd_cur,
  dp_intr,               \* the DP bit of MI_INTR
  frontend, synchronous, \* is there a frontend; the synchronous option
  log,        \* history: what the hooks were called for, in order
  accepted    \* history: every pair copied, in order

ingestVars == <<start, current, end, xbus, freeze, cmd_data, cmd_cur, dp_intr,
                frontend, synchronous, log, accepted>>
options == <<frontend, synchronous>>

-----------------------------------------------------------------------------
cmd_ptr == Len(cmd_data)

Call(hook, words) == [hook |-> hook, words |-> words]

\* Mutant: the interrupt is raised before the GPU work is waited for.
dispatch_interrupt_first(words) ==
  LET op == words[1]
  IN  (IF op \notin Ignored /\ frontend THEN <<Call("enqueue", words)>> ELSE << >>)
      \o (IF op = SyncFull THEN <<Call("interrupt", << >>)>> ELSE << >>)
      \o (IF op = SyncFull /\ synchronous /\ frontend
          THEN <<Call("signal", << >>), Call("wait", << >>)>> ELSE << >>)

\* The hooks called for one command.
dispatch(words) ==
  LET op == words[1]
  IN  (IF op \notin Ignored /\ frontend THEN <<Call("enqueue", words)>> ELSE << >>)
      \o (IF op = SyncFull /\ synchronous /\ frontend
          THEN <<Call("signal", << >>), Call("wait", << >>)>> ELSE << >>)
      \o (IF op = SyncFull THEN <<Call("interrupt", << >>)>> ELSE << >>)

\* Pairs n of data starting at offset c, both counted from 0.
pairs(data, c, n) == SubSeq(data, c + 1, c + n)

\* The parsing loop: the calls made and the offset it stops at.
parse(data, cur) ==
  LET ptr == Len(data)
      from[c \in 0 .. ptr] ==
        IF c = ptr THEN [cur |-> c, calls |-> << >>]
        ELSE LET n == cmd_len_lut[data[c + 1]]
             IN  IF ptr - c < n THEN [cur |-> c, calls |-> << >>]
                 ELSE [cur   |-> from[c + n].cur,
                       calls |-> dispatch(pairs(data, c, n)) \o from[c + n].calls]
  IN  from[cur]

\* Mutant: the incomplete command at the end of a list is dropped.
rest_dropped(data, cur) == [data |-> << >>, cur |-> 0]

\* What is kept for the next call: nothing when the list ended with a whole
\* command, else everything, the commands already handed over included.
rest(data, cur) ==
  IF cur = Len(data) THEN [data |-> << >>, cur |-> 0] ELSE [data |-> data, cur |-> cur]

\* (cmd_ptr + length) & ~(0x0003FFFF >> 3) is zero.
fits(length) == cmd_ptr + length <= Capacity

\* The pairs read from CURRENT on; mem is the memory the list lies in.
fetch(mem, length) ==
  [i \in 1 .. length |->
     mem[IF xbus THEN (current + i - 1) % DmemSize ELSE current + i - 1]]

\* process_command_ingest, with END = e; signalled tells whether the DP bit is
\* set whatever the list holds.
process_command_ingest(mem, e, signalled) ==
  LET length == e - current
      data   == cmd_data \o fetch(mem, length)
      parsed == parse(data, cmd_cur)
      kept   == rest(data, parsed.cur)
  IN  /\ freeze' = FALSE
      /\ IF length <= 0 \/ ~fits(length)
         THEN /\ dp_intr' = (dp_intr \/ signalled)
              /\ UNCHANGED <<start, current, cmd_data, cmd_cur, log, accepted>>
         ELSE /\ cmd_data' = kept.data /\ cmd_cur' = kept.cur
              /\ log' = log \o parsed.calls
              /\ dp_intr' = \/ dp_intr \/ signalled
                            \/ \E i \in DOMAIN parsed.calls :
                                 parsed.calls[i].hook = "interrupt"
              /\ accepted' = accepted \o fetch(mem, length)
              /\ start' = e /\ current' = e

-----------------------------------------------------------------------------
\* The CPU writes DPC_START.
WriteStart ==
  /\ \E a \in 0 .. MaxAddr : start' = a /\ current' = a
  /\ UNCHANGED <<end, xbus, freeze, cmd_data, cmd_cur, dp_intr,
                 options, log, accepted>>

\* The RSP writes DPC_START: END moves too.
RspWriteStart ==
  /\ \E a \in 0 .. MaxAddr : start' = a /\ current' = a /\ end' = a
  /\ UNCHANGED <<xbus, freeze, cmd_data, cmd_cur, dp_intr, options, log, accepted>>

\* A write of DPC_END; memory holds whatever the guest put there.
SetEnd(signalled) ==
  \E e \in 0 .. MaxAddr :
    \E mem \in [(IF xbus THEN 0 .. DmemSize - 1 ELSE current .. e - 1) -> Opcodes] :
      /\ Len(accepted) + e - current <= MaxPairs
      /\ end' = e
      /\ process_command_ingest(mem, e, signalled)
      /\ UNCHANGED <<xbus, options>>

\* The CPU's write is followed by signal_rcp_interrupt, the RSP's is not.
WriteEnd == SetEnd(TRUE)
RspWriteEnd == SetEnd(FALSE)

\* The CPU clears the DP interrupt through MI_INIT_MODE.
ClearDp ==
  /\ dp_intr' = FALSE
  /\ UNCHANGED <<start, current, end, xbus, freeze, cmd_data, cmd_cur, options,
                 log, accepted>>

\* update_dpc_status.
WriteDpcStatus ==
  /\ \E x, f \in BOOLEAN : xbus' = x /\ freeze' = f
  /\ UNCHANGED <<start, current, end, cmd_data, cmd_cur, dp_intr,
                 options, log, accepted>>

IngestInit ==
  /\ start = 0 /\ current = 0 /\ end = 0 /\ xbus = FALSE /\ freeze = FALSE
  /\ cmd_data = << >> /\ cmd_cur = 0 /\ dp_intr = FALSE
  /\ frontend \in BOOLEAN /\ synchronous \in BOOLEAN
  /\ log = << >> /\ accepted = << >>

IngestNext ==
  \/ WriteStart \/ RspWriteStart \/ WriteEnd \/ RspWriteEnd \/ WriteDpcStatus
  \/ ClearDp

IngestSpec == IngestInit /\ [][IngestNext]_ingestVars

-----------------------------------------------------------------------------
(* Reference: what the pairs of a list mean, whatever its chunks were. *)

\* Where the commands of w start: the least set that holds 1 and, with a
\* position, the one after the command that starts there.
Starts(w) ==
  LET closed(S) ==
        /\ w # << >> => 1 \in S
        /\ \A p \in S \cap 1 .. Len(w) :
             \/ p + cmd_len_lut[w[p]] > Len(w)
             \/ p + cmd_len_lut[w[p]] \in S
  IN  {p \in 1 .. Len(w) :
         \A S \in SUBSET (1 .. Len(w)) : closed(S) => p \in S}

\* Where its complete commands start, and the command at such a place.
Whole(w) == {p \in Starts(w) : p + cmd_len_lut[w[p]] <= Len(w) + 1}
CommandAt(w, p) == SubSeq(w, p, p + cmd_len_lut[w[p]] - 1)

\* The numbers of a finite set in order: the i-th has i of them up to itself.
InOrder(S) ==
  [i \in 1 .. Cardinality(S) |->
     CHOOSE n \in {q \in S : Cardinality({x \in S : x <= q}) = i} : TRUE]

\* The calls of a hook, by their places in the log.
Called(calls, hook) == {k \in 1 .. Len(calls) : calls[k].hook = hook}

-----------------------------------------------------------------------------
(* Properties *)

\* Every register has its type and the parser's offsets stay inside cmd_data.
IngestTypeOK ==
  /\ {start, current, end} \subseteq 0 .. MaxAddr
  /\ {xbus, freeze, dp_intr, frontend, synchronous} \subseteq BOOLEAN
  /\ cmd_ptr \in 0 .. Capacity /\ cmd_cur \in 0 .. cmd_ptr
  /\ accepted \in Seq(Opcodes)

\* However the list was cut into END writes, moved between RDRAM and DMEM or
\* refused for lack of room in between, the frontend has been handed exactly
\* the complete commands of the pairs accepted, each once, whole and in order.
ParseMatchesStream ==
  LET handed == InOrder(Called(log, "enqueue"))
      given  == InOrder({p \in Whole(accepted) : accepted[p] \notin Ignored})
  IN  /\ IngestTypeOK
      /\ frontend => [i \in DOMAIN handed |-> log[handed[i]].words]
                        = [i \in DOMAIN given |-> CommandAt(accepted, given[i])]

\* The DP interrupt is raised once for each SyncFull, with or without a
\* frontend, and in synchronous mode only after waiting for a timeline point
\* signalled after that SyncFull was enqueued.
SyncFenced ==
  /\ Cardinality(Called(log, "interrupt"))
       = Cardinality({p \in Whole(accepted) : accepted[p] = SyncFull})
  /\ (frontend /\ synchronous) =>
       \A i \in Called(log, "interrupt") :
         /\ i > 3 /\ log[i - 1].hook = "wait" /\ log[i - 2].hook = "signal"
         /\ log[i - 3] = Call("enqueue", <<SyncFull>>)
=============================================================================
