---------------------------- MODULE RcpInterrupts ----------------------------
(***************************************************************************)
(* How an interrupt of the Reality Coprocessor reaches the emulated CPU:   *)
(* the MIPS interface (r4300/mi_controller.c), the interrupt bits of CP0   *)
(* Status and Cause, and the exception entry (r4300/interrupt.c,           *)
(* exception.c, the MTC0, ERET and SYSCALL instructions).                  *)
(*                                                                         *)
(* A device either raises its line from the event loop, which takes the    *)
(* exception at once, or signals it inside a register write, which queues  *)
(* a CHECK_INT; the exception is then taken when the queue is next looked  *)
(* at, at a jump.  The machine is one record; the C functions are          *)
(* operators from record to record, so a handler is one step.              *)
(*                                                                         *)
(* Time is left to module EventQueue: a CHECK_INT stays first in the queue *)
(* and is due at once, any other queued event may be due or not.           *)
(***************************************************************************)
EXTENDS Integers, FiniteSets

CONSTANTS Lines,          \* RCP interrupt lines in use
          POOL_CAPACITY,  \* nodes of the event queue, 16 in the code
          StatusValues,   \* values the guest writes to Status
          MaxQueued       \* bound: queued completions of one device

RcpLines == {"SP", "SI", "AI", "VI", "PI", "DP"}
IP == {"IP2", "IP3", "IP4", "IP7"}
Internal == {"COMPARE", "HW2", "NMI"}

StatusValue == [ie : BOOLEAN, exl : BOOLEAN, erl : BOOLEAN, im : SUBSET IP]

ASSUME ConstantsAssumption ==
  /\ Lines \subseteq RcpLines /\ "VI" \in Lines
  /\ POOL_CAPACITY \in Nat
  /\ StatusValues \subseteq StatusValue
  /\ MaxQueued \in Nat

Events == Lines \cup Internal

VARIABLE m

\* intr, mask: MI_INTR and MI_INTR_MASK; status, cause: the interrupt bits of
\* CP0; checks: CHECK_INTs queued; queued: how many events of each other type;
\* index: nodes of the pool in use, one of them by SPECIAL_INT;
\* refused, cleared, unchecked: history, see check_interrupt, MTC0_Cause and
\* PluginSets.
Machine ==
  [intr : SUBSET Lines, mask : SUBSET Lines,
   status : StatusValue, cause : SUBSET IP,
   checks : Nat, queued : [Events -> Nat], index : Nat,
   reset_hard_job : BOOLEAN, stop : BOOLEAN,
   refused : BOOLEAN, cleared : BOOLEAN, unchecked : BOOLEAN]

TypeOK == m \in Machine

-----------------------------------------------------------------------------
(* CP0 *)

Enabled(s) == s.status.ie /\ ~s.status.exl /\ ~s.status.erl

\* An interrupt the CPU has to take.
Deliverable(s) == Enabled(s) /\ s.status.im \cap s.cause # {}

\* exception_general, the interrupt case: EPC and the jump to the handler are
\* left out.
exception_general(s) == [s EXCEPT !.status.exl = TRUE]

\* alloc_node fails.
PoolEmpty(s) == s.index >= POOL_CAPACITY

\* add_interrupt_event: dropped with an error message when the pool is empty.
add_interrupt_event(s, e) ==
  IF PoolEmpty(s) THEN s
  ELSE [s EXCEPT !.queued[e] = @ + 1, !.index = @ + 1]

remove_event(s, e) ==
  IF s.queued[e] = 0 THEN s
  ELSE [s EXCEPT !.queued[e] = @ - 1, !.index = @ - 1]

\* Mutant: masked lines are not left out.
UpdateIP2_unmasked(s) ==
  [s EXCEPT !.cause = IF s.intr # {} THEN @ \cup {"IP2"} ELSE @ \ {"IP2"},
            !.cleared = FALSE, !.refused = FALSE, !.unchecked = FALSE]

\* The first part of check_interrupt: Cause follows the MI registers.
UpdateIP2(s) ==
  [s EXCEPT !.cause = IF s.intr \cap s.mask # {} THEN @ \cup {"IP2"}
                                                ELSE @ \ {"IP2"},
            !.cleared = FALSE, !.refused = FALSE, !.unchecked = FALSE]

\* History: refused says that the pool had no node for the last CHECK_INT.
check_interrupt(s) ==
  LET c == UpdateIP2(s)
  IN  IF ~Deliverable(c) THEN c
      ELSE IF PoolEmpty(c) THEN [c EXCEPT !.refused = TRUE]
      ELSE [c EXCEPT !.checks = @ + 1, !.index = @ + 1]

raise_maskable_interrupt(s, ip) ==
  LET c == [s EXCEPT !.cause = @ \cup {ip}]
  IN  IF Deliverable(c) THEN exception_general(c) ELSE c

-----------------------------------------------------------------------------
(* mi_controller.c *)

raise_rcp_interrupt(s, line) ==
  LET r == [s EXCEPT !.intr = @ \cup {line}]
  IN  IF r.intr \cap r.mask # {} THEN raise_maskable_interrupt(r, "IP2") ELSE r

signal_rcp_interrupt(s, line) ==
  check_interrupt([s EXCEPT !.intr = @ \cup {line}])

clear_rcp_interrupt(s, line) ==
  check_interrupt([s EXCEPT !.intr = @ \ {line}])

\* What a plugin does to report an interrupt: it sets the bit through its
\* pointer to MI_INTR and calls CheckInterrupts, which the core gives it as
\* EmptyFunc.  History: unchecked, until the next check.
PluginSets(s, lines) ==
  IF lines = {} THEN s
  ELSE [s EXCEPT !.intr = @ \cup lines, !.unchecked = TRUE]

\* do_SP_Task after a display list: a DP interrupt is taken back and comes
\* 4000 counts later.
DeferDp(s) ==
  IF "DP" \notin s.intr THEN s
  ELSE [add_interrupt_event(s, "DP") EXCEPT !.intr = @ \ {"DP"},
                                            !.unchecked = TRUE]

update_mi_intr_mask(s, clear, set) ==
  [s EXCEPT !.mask = (@ \ clear) \cup set]

-----------------------------------------------------------------------------
(* The event loop *)

\* What pifbootrom_hle_execute leaves of the state here: Status 0x34000000,
\* and the lines it takes back.
pifbootrom_hle_execute(s) ==
  [s EXCEPT !.status = [ie |-> FALSE, exl |-> FALSE, erl |-> FALSE, im |-> {}],
            !.intr = @ \ {"PI", "VI", "AI", "SP"}]

\* init_interrupt and the first vertical interrupt: everything else that was
\* queued is forgotten, SPECIAL_INT and VI_INT remain.
RestartQueue(s) ==
  [s EXCEPT !.checks = 0, !.index = 2,
            !.queued = [e \in Events |-> IF e = "VI" THEN 1 ELSE 0]]

nmi_int_handler(s) ==
  RestartQueue(pifbootrom_hle_execute([s EXCEPT !.cause = {}]))

PowerOn ==
  RestartQueue(
    [intr |-> {}, mask |-> {},
     status |-> [ie |-> FALSE, exl |-> FALSE, erl |-> FALSE, im |-> {}],
     cause |-> {}, checks |-> 0, index |-> 0, queued |-> [e \in Events |-> 0],
     reset_hard_job |-> FALSE, stop |-> FALSE,
     refused |-> FALSE, cleared |-> FALSE, unchecked |-> FALSE])

\* Pressing reset: the pre-NMI interrupt is taken whatever Status says.
hw2_int_handler(s) ==
  exception_general(
    [s EXCEPT !.status.im = @ \cup {"IP4"}, !.cause = @ \cup {"IP4"}])

\* The types a look at the queue may find first: a CHECK_INT if there is one.
Due(s) == IF s.checks > 0 THEN {"CHECK"} ELSE {e \in Events : s.queued[e] > 0}

\* CHECK_INT: the exception, whatever has happened to Status since.
TakeCheck(s) == exception_general([s EXCEPT !.checks = @ - 1, !.index = @ - 1])

\* The outcomes of dispatching an event.  An RSP task may end without
\* interrupting.  VI and COMPARE are queued again.  (Nothing queues the CART_INT
\* that gen_interrupt knows.)
Dispatch(s, e) ==
  IF e = "CHECK" THEN {TakeCheck(s)}
  ELSE LET r == remove_event(s, e)
       IN  CASE e = "VI"      -> {raise_rcp_interrupt(add_interrupt_event(r, "VI"), "VI")}
             [] e = "COMPARE" -> {raise_maskable_interrupt(
                                    add_interrupt_event(r, "COMPARE"), "IP7")}
             [] e = "HW2"     -> {hw2_int_handler(r)}
             [] e = "NMI"     -> {nmi_int_handler(r)}
             [] e = "SP"      -> {r, raise_rcp_interrupt(r, "SP")}
             [] OTHER         -> {raise_rcp_interrupt(r, e)}

\* gen_interrupt; a hard reset waits until it is called in a safe place.
gen_interrupt(s, unsafe) ==
  IF s.reset_hard_job /\ ~unsafe THEN {PowerOn}
  ELSE UNION {Dispatch(s, e) : e \in Due(s)}

\* if (next_interrupt <= Count) gen_interrupt()
Poll(s, unsafe) ==
  IF s.checks > 0 THEN gen_interrupt(s, unsafe)
  ELSE {s} \cup gen_interrupt(s, unsafe)

\* A poll that leaves the events other than CHECK_INT to a later one; for the
\* modules that tell these apart.
Settle(s) == IF s.checks > 0 THEN TakeCheck(s) ELSE s

\* A look at the queue that finds e.
TakeEvent(e) ==
  /\ ~m.reset_hard_job
  /\ e \in Due(m)
  /\ m' \in Dispatch(m, e)

-----------------------------------------------------------------------------
Init == m = PowerOn

\* Mutant: the queue is not looked at.
Jump_blind == UNCHANGED m

\* The end of a jump instruction.
Jump == m' \in Poll(m, FALSE)

\* A register write of a device that completes at once (SP, SI, DP).
SignalLine(line) ==
  /\ line \in {"SP", "SI", "DP"}
  /\ m' = signal_rcp_interrupt(m, line)

\* The guest acknowledges a line in the device's own register, or DP's in
\* MI_INIT_MODE.
ClearLine(line) == m' = clear_rcp_interrupt(m, line)

WriteMiIntrMask(clear, set) ==
  m' \in Poll(check_interrupt(update_mi_intr_mask(m, clear, set)), FALSE)

\* An RSP task reports interrupts of the RSP and of the RDP (module RspTask).
RspTask(lines) ==
  /\ lines \subseteq {"SP", "DP"}
  /\ m' \in {PluginSets(m, lines), DeferDp(PluginSets(m, lines))}

\* Mutant: Status is written and the pending interrupts are not looked at.
MTC0_Status_blind(v) == m' \in Poll([m EXCEPT !.status = v], TRUE)

MTC0_Status(v) == m' \in Poll(check_interrupt([m EXCEPT !.status = v]), TRUE)

MTC0_Compare ==
  m' = [add_interrupt_event(remove_event(m, "COMPARE"), "COMPARE")
          EXCEPT !.cause = @ \ {"IP7"}]

\* A look at the queue before Count is moved; translate_event_queue then queues
\* COMPARE_INT and SPECIAL_INT anew.  (If the pool is full and has no
\* COMPARE_INT, it gets SPECIAL_INT's node: that loss is in EventQueue.)
MTC0_Count ==
  \E s \in Poll(m, TRUE) :
    m' = add_interrupt_event(remove_event(s, "COMPARE"), "COMPARE")

\* History: cleared says that the guest wrote Cause since the last check.
MTC0_Cause == m' = [m EXCEPT !.cause = {}, !.cleared = TRUE]

\* SYSCALL, a TLB miss, an unusable coprocessor: the code is stored in Cause
\* over everything else.
Exception == m' = exception_general([m EXCEPT !.cause = {}])

\* ERET after an error is reported and stops the emulation.
ERET ==
  LET s == IF m.status.erl THEN [m EXCEPT !.stop = TRUE]
           ELSE [m EXCEPT !.status.exl = FALSE]
  IN  m' \in Poll(check_interrupt(s), FALSE)

\* A device other than VI is started and queues its completion.
StartDevice(e) ==
  /\ e \in Lines \ {"VI"}
  /\ m.queued[e] < MaxQueued
  /\ m' = add_interrupt_event(m, e)

\* The 64DD sets and clears its bit of Cause itself (module DiskDrive).
DiskInterrupt == m' = check_interrupt([m EXCEPT !.cause = @ \cup {"IP3"}])

DiskAcknowledge == m' = check_interrupt([m EXCEPT !.cause = @ \ {"IP3"}])

\* The front end's reset button, soft and hard.
reset_soft ==
  /\ m.queued["HW2"] = 0 /\ m.queued["NMI"] = 0
  /\ m' = add_interrupt_event(add_interrupt_event(m, "HW2"), "NMI")

reset_hard == m' = [m EXCEPT !.reset_hard_job = TRUE]

Next ==
  /\ ~m.stop
  /\ \/ Jump
     \/ \E line \in Lines : SignalLine(line) \/ ClearLine(line)
     \/ \E lines \in SUBSET Lines : RspTask(lines)
     \/ \E clear, set \in SUBSET Lines : WriteMiIntrMask(clear, set)
     \/ \E v \in StatusValues : MTC0_Status(v)
     \/ MTC0_Compare
     \/ MTC0_Count
     \/ MTC0_Cause
     \/ Exception
     \/ ERET
     \/ \E e \in Events : StartDevice(e)
     \/ DiskInterrupt
     \/ DiskAcknowledge
     \/ reset_soft
     \/ reset_hard

SafeSpec == Init /\ [][Next]_m

\* Guest code reaches a jump sooner or later.
Spec == SafeSpec /\ WF_m(~m.stop /\ Jump)

-----------------------------------------------------------------------------
(* Properties *)

\* Whenever the CPU would take an interrupt, bit IP2 of Cause says exactly
\* whether an unmasked line of the MI is set, however the lines, the mask,
\* Status and Cause were changed before (SYSCALL and TLB misses overwrite
\* Cause).  Excepted are a guest that writes Cause itself, and the changes an
\* RSP task makes without a check.
CauseFollowsMi ==
  Enabled(m) /\ ~m.cleared /\ ~m.unchecked =>
    ("IP2" \in m.cause <=> m.intr \cap m.mask # {})

\* An interrupt that is pending and unmasked has its CHECK_INT in the queue:
\* no order of signals, acknowledgements, mask and Status writes and handler
\* returns forgets it, unless the full pool refused the check.
DeliveryArmed ==
  /\ TypeOK
  /\ Deliverable(m) => m.checks > 0 \/ m.refused

\* A pending unmasked interrupt is taken, or else acknowledged, masked or
\* reset away; it does not stay pending for ever.
Delivered ==
  Deliverable(m) /\ ~m.refused ~> ~Deliverable(m) \/ m.stop

=============================================================================
