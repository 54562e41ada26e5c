------------------------------- MODULE RspTask -------------------------------
(***************************************************************************)
(* Tasks of the RSP (rsp/rsp_core.c) and the display processor's freeze    *)
(* bit (rdp/rdp_core.c), on top of the interrupt logic of RcpInterrupts.   *)
(*                                                                         *)
(* The guest loads a task into DMEM and lets the RSP run by clearing its   *)
(* halt and broke bits; the RSP plugin then executes it at once, inside    *)
(* the register write.  A task that does not end (it waits for the CPU) is *)
(* locked: an SP_INT follows, and the next write of SP_STATUS continues    *)
(* it.  A display list that meets a frozen RDP is left for the write that  *)
(* unfreezes it.                                                           *)
(***************************************************************************)
EXTENDS RcpInterrupts

CONSTANTS PerfectDark,   \* ROM_PARAMS.special_rom = PERFECT_DARK
          SpWrites,      \* sets of bits the guest writes to SP_STATUS
          DpcWrites      \* and to DPC_STATUS

SpBits == {"clr_halt", "set_halt", "clr_broke", "clr_intr", "set_intr",
           "clr_intr_break", "set_intr_break"}

ASSUME RspAssumption ==
  /\ {"SP", "DP"} \subseteq Lines
  /\ PerfectDark \in BOOLEAN
  /\ SpWrites \subseteq SUBSET SpBits
  /\ DpcWrites \subseteq SUBSET {"clr_freeze", "set_freeze"}

VARIABLE sp

\* halt, broke, intr_break: bits of SP_STATUS; locked: rsp_task_locked;
\* freeze: the bit of DPC_STATUS; display: the task type in DMEM is 1.
\* History: fresh, the task in DMEM has not been executed; asked, the guest has
\* let it run and it has not been executed since; replaced, it was loaded while
\* the SP_INT of a locked task was to come; dp_owed, an RDP full sync the guest
\* has not acknowledged; dropped, its DP_INT met a full queue.
Rsp == [halt : BOOLEAN, broke : BOOLEAN, intr_break : BOOLEAN,
        locked : BOOLEAN, freeze : BOOLEAN, display : BOOLEAN,
        fresh : BOOLEAN, asked : BOOLEAN, replaced : BOOLEAN,
        dp_owed : BOOLEAN, dropped : BOOLEAN]

RspTypeOK == TypeOK /\ sp \in Rsp

Running(p) == ~p.halt /\ ~p.broke

\* A locked task is to be continued after its SP_INT.
Waiting(c) == c.sp.locked /\ c.m.queued["SP"] > 0

\* How the plugin comes back from a task: ended by BREAK, halted by the RSP
\* itself, or still running; irq: the RSP set its interrupt; sync: the RDP
\* reached a full sync.
Outcome == [ends : {"break", "halt", "yield"}, irq : BOOLEAN, sync : BOOLEAN]

-----------------------------------------------------------------------------
(* rsp_core.c *)

\* The lines the plugins set for an outcome.
Reported(p, o) ==
  (IF o.irq \/ (o.ends = "break" /\ p.intr_break) THEN {"SP"} ELSE {})
    \cup (IF o.sync THEN {"DP"} ELSE {})

\* doRspCycles: the effect of the plugins on SP_STATUS and MI_INTR.
doRspCycles(c, o) ==
  [m  |-> PluginSets(c.m, Reported(c.sp, o)),
   sp |-> [c.sp EXCEPT !.halt = o.ends # "yield", !.broke = o.ends = "break",
                       !.fresh = FALSE, !.asked = FALSE, !.replaced = FALSE,
                       !.dp_owed = @ \/ o.sync]]

\* Mutant: the deferred interrupt is taken back and not queued.
DisplayEnd_forgets(c) ==
  [c EXCEPT !.m = [@ EXCEPT !.intr = @ \ {"DP"}, !.unchecked = TRUE]]

\* After a display list.
DisplayEnd(c) ==
  [m  |-> DeferDp(c.m),
   sp |-> [c.sp EXCEPT !.dropped =
             @ \/ ("DP" \in c.m.intr /\ PoolEmpty(c.m))]]

\* A task still running is locked and interrupts in 1000 counts.
TaskEnd(c) ==
  [m  |-> IF Running(c.sp) THEN add_interrupt_event(c.m, "SP") ELSE c.m,
   sp |-> [c.sp EXCEPT !.locked = Running(c.sp)]]

Refused(p) == p.display /\ ~PerfectDark /\ p.freeze

\* The possible results of do_SP_Task.
do_SP_Task(c) ==
  IF Refused(c.sp) THEN {c}
  ELSE {LET d == doRspCycles(c, o)
        IN  TaskEnd(IF c.sp.display THEN DisplayEnd(d) ELSE d) : o \in Outcome}

\* update_sp_status up to the task: w is the set of bits written.  (Setting
\* signal 0 interrupts like set_intr in games that need it; the other signals
\* are left out.)
SpStatusBits(c, w) ==
  LET p == [c.sp EXCEPT
              !.halt = (@ /\ "clr_halt" \notin w) \/ "set_halt" \in w,
              !.broke = @ /\ "clr_broke" \notin w,
              !.intr_break = (@ /\ "clr_intr_break" \notin w)
                               \/ "set_intr_break" \in w]
      i == IF "clr_intr" \in w THEN clear_rcp_interrupt(c.m, "SP") ELSE c.m
      j == IF "set_intr" \in w THEN signal_rcp_interrupt(i, "SP") ELSE i
  IN  [m |-> j, sp |-> p]

\* History: every write that leaves the RSP running is to run it, except while
\* a locked task waits.
Asked(c) == [c EXCEPT !.sp.asked = Running(c.sp) /\ (@ \/ ~Waiting(c))]

\* Mutant: a locked task is not continued by a write that only acknowledges.
StartsTask_cleared(c, w) ==
  /\ ~Waiting(c)
  /\ w \cap {"clr_halt", "clr_broke"} # {}
  /\ Running(c.sp)

\* Whether update_sp_status comes to do_SP_Task.
StartsTask(c, w) ==
  /\ ~Waiting(c)
  /\ w \cap {"clr_halt", "clr_broke"} # {} \/ c.sp.locked
  /\ Running(c.sp)

update_sp_status(c, w) ==
  LET d == Asked(SpStatusBits(c, w))
  IN  IF StartsTask(d, w) THEN do_SP_Task(d) ELSE {d}

-----------------------------------------------------------------------------
(* rdp_core.c *)

\* The bit is looked at before freeze is set again by the same write.
RunsOnUnfreeze(p, w) == "clr_freeze" \in w /\ Running(p)

update_dpc_status(c, w) ==
  LET d == [c EXCEPT !.sp.freeze =
              (@ /\ "clr_freeze" \notin w) \/ "set_freeze" \in w]
  IN  IF RunsOnUnfreeze(c.sp, w) THEN do_SP_Task(d) ELSE {d}

-----------------------------------------------------------------------------
RspInit ==
  /\ Init
  /\ sp \in {[halt |-> TRUE, broke |-> FALSE, intr_break |-> FALSE,
              locked |-> FALSE, freeze |-> FALSE, display |-> d,
              fresh |-> TRUE, asked |-> FALSE, replaced |-> FALSE,
              dp_owed |-> FALSE, dropped |-> FALSE] : d \in BOOLEAN}

Becomes(cores) == \E c \in cores : m' = c.m /\ sp' = c.sp

WriteSpStatus(w) == Becomes(update_sp_status([m |-> m, sp |-> sp], w))

WriteDpcStatus(w) == Becomes(update_dpc_status([m |-> m, sp |-> sp], w))

\* The CPU sends a list of RDP commands itself.
WriteDpcEnd(sync) ==
  /\ m' = signal_rcp_interrupt(PluginSets(m, IF sync THEN {"DP"} ELSE {}), "DP")
  /\ sp' = [sp EXCEPT !.dp_owed = @ \/ sync]

\* The guest writes the next task to DMEM while the RSP is stopped.
LoadTask ==
  /\ ~Running(sp)
  /\ \E d \in BOOLEAN :
       sp' = [sp EXCEPT !.display = d, !.fresh = TRUE,
                        !.replaced = Waiting([m |-> m, sp |-> sp])]
  /\ UNCHANGED m

\* The SP_INT of a locked task interrupts if breaks do.
rsp_interrupt_event ==
  m'.queued["SP"] < m.queued["SP"] =>
    m'.intr = m.intr \cup (IF sp.intr_break THEN {"SP"} ELSE {})

TakeInterrupts == Jump /\ rsp_interrupt_event /\ UNCHANGED sp

AcknowledgeDp ==
  /\ ClearLine("DP")
  /\ sp' = [sp EXCEPT !.dp_owed = @ /\ "DP" \notin m.intr]

Cpu ==
  /\ \/ WriteMiIntrMask({}, {"SP", "DP"})
     \/ WriteMiIntrMask({"SP", "DP"}, {})
     \/ \E v \in StatusValues : MTC0_Status(v)
     \/ ERET
  /\ rsp_interrupt_event
  /\ UNCHANGED sp

\* The soft reset (at any time: the wait for NMI_INT is in RcpInterrupts)
\* halts the RSP and loads the boot code over DMEM; rsp_task_locked and the
\* freeze bit stay.
Nmi ==
  /\ m' = nmi_int_handler(m)
  /\ \E d \in BOOLEAN :
       sp' = [sp EXCEPT !.halt = TRUE, !.broke = FALSE, !.intr_break = FALSE,
                        !.display = d, !.fresh = TRUE, !.asked = FALSE,
                        !.replaced = FALSE, !.dp_owed = FALSE]

RspNext ==
  \/ \E w \in SpWrites : WriteSpStatus(w)
  \/ \E w \in DpcWrites : WriteDpcStatus(w)
  \/ \E sync \in BOOLEAN : WriteDpcEnd(sync)
  \/ LoadTask
  \/ TakeInterrupts
  \/ AcknowledgeDp
  \/ Cpu
  \/ Nmi

RspSpec == RspInit /\ [][RspNext]_<<m, sp>>

-----------------------------------------------------------------------------
(* Properties *)

\* An RSP that the guest lets run is executed, or has a display list that a
\* frozen RDP holds up: no order of SP_STATUS and DPC_STATUS writes, ends of
\* tasks and resets leaves a started task behind, and every write after the
\* SP_INT of a locked task continues it (the promise in do_SP_Task: "the task
\* will be done when DP is unfreezed").  A task that was loaded over a locked one
\* before its SP_INT is not executed by the write that starts it but by the first
\* one after that SP_INT.
TaskNotForgotten ==
  /\ RspTypeOK
  /\ Running(sp) /\ ~Refused(sp) => ~sp.asked /\ (sp.fresh => sp.replaced)

\* The interrupt of an RDP full sync is pending or queued until the guest has
\* acknowledged it: taking it back after a display list to deliver it later
\* never loses it, except to a full event queue.
FullSyncReported ==
  sp.dp_owed /\ ~sp.dropped => "DP" \in m.intr \/ m.queued["DP"] > 0

=============================================================================
