------------------------- MODULE RcpDevices_proofs --------------------------
(***************************************************************************)
(* The RSP, the serial interface and the walks over PIF RAM.  No started   *)
(* RSP task is left behind and no RDP full sync goes unreported, for any   *)
(* writes of SP_STATUS and DPC_STATUS; SI_STATUS tells the truth and the   *)
(* answer to a CIC challenge stays intact, for any values the guest writes *)
(* to Status; both for any set of interrupt lines and any size of the      *)
(* event pool.  Both walks find every command of a frame, for any size of  *)
(* PIF RAM, any number of items and any connected controllers.             *)
(***************************************************************************)
EXTENDS RspTask, SiController, PifFrame, RcpInterrupts_proofs,
        FiniteSetTheorems, SequenceTheorems

-----------------------------------------------------------------------------
(* The RSP *)

\* The reset buttons are not part of this specification (Nmi is a step of its
\* own).
NoReset(s) == ~s.reset_hard_job /\ s.queued["NMI"] = 0

DpPending(s) == "DP" \in s.intr \/ s.queued["DP"] > 0

SyncOwed(s, p) == p.dp_owed /\ ~p.dropped => DpPending(s)

\* A task that was loaded over a locked one whose SP_INT is to come is known to
\* be: the write that starts it will not run it.
SpQueued(s) == s.queued["SP"] > 0

Replacing(s, p) == p.fresh /\ p.locked /\ SpQueued(s) => p.replaced

\* Only a frozen RDP keeps a task waiting that was let run; any other RSP that
\* runs is in a locked task.
NotForgotten(s, p) ==
  /\ p.asked => Running(p) /\ Refused(p)
  /\ Running(p) => Refused(p) \/ (p.locked /\ (p.fresh => p.replaced))
  /\ Replacing(s, p)

\* A pair of the machine and the RSP inside a handler: before the task has run
\* a started RSP need not be accounted for.
CoreOK(c) ==
  /\ StateOK(c.m) /\ NoReset(c.m) /\ c.sp \in Rsp /\ SyncOwed(c.m, c.sp)

\* The inductive invariant.
RspInv ==
  /\ StateOK(m) /\ NoReset(m) /\ sp \in Rsp
  /\ SyncOwed(m, sp) /\ NotForgotten(m, sp)

LEMMA RspEvents ==
  /\ {"SP", "DP"} \subseteq Lines
  /\ {"SP", "DP", "NMI"} \subseteq Events
BY RspAssumption DEF Events, Internal

-----------------------------------------------------------------------------
(* The machine *)

\* Registers are changed and the queue is left alone.
LEMMA CheckedOK ==
  ASSUME NEW s, StateOK(s), NoReset(s), NEW t \in Machine,
         t.queued = s.queued, t.checks = s.checks, t.index = s.index,
         t.reset_hard_job = s.reset_hard_job,
         "DP" \in s.intr => "DP" \in t.intr
  PROVE  /\ StateOK(check_interrupt(t)) /\ NoReset(check_interrupt(t))
         /\ DpPending(s) => DpPending(check_interrupt(t))
         /\ SpQueued(check_interrupt(t)) = SpQueued(s)
<1>1. StateOK(check_interrupt(t))
  BY SameCounts
<1>2. /\ check_interrupt(t).queued = t.queued
      /\ check_interrupt(t).intr = t.intr
      /\ check_interrupt(t).reset_hard_job = t.reset_hard_job
  BY CheckKeeps
<1> QED BY <1>1, <1>2 DEF NoReset, DpPending, SpQueued

LEMMA PollKeeps ==
  ASSUME NEW s, StateOK(s), NoReset(s), NEW unsafe \in BOOLEAN,
         NEW t \in Poll(s, unsafe)
  PROVE  /\ StateOK(t) /\ NoReset(t) /\ (DpPending(s) => DpPending(t))
         /\ SpQueued(t) => SpQueued(s)
<1>1. StateOK(t)
  BY PollOK
<1>2. CASE t = s
  BY <1>1, <1>2
<1>3. CASE \E e \in Due(s) : t \in Dispatch(s, e)
  <2>1. PICK e \in Due(s) : t \in Dispatch(s, e)
    BY <1>3
  <2>2. e # "NMI"
    BY RspEvents DEF Due, NoReset
  <2>3. /\ t.reset_hard_job = s.reset_hard_job
        /\ \A f \in Events : f # e => t.queued[f] = s.queued[f]
        /\ \/ t.intr = s.intr /\ e \in {"CHECK", "COMPARE", "HW2", "SP"}
           \/ t.intr = s.intr \cup {e} /\ e \in Lines
    BY <2>1, <2>2, DispatchKeeps
  <2>4. NoReset(t)
    BY <2>2, <2>3, RspEvents DEF NoReset
  <2>5. DpPending(s) => DpPending(t)
    BY <2>3, RspEvents DEF DpPending
  <2>6. SpQueued(t) => SpQueued(s)
    <3>1. CASE e = "SP"
      BY <3>1, RspEvents DEF Due, SpQueued
    <3>2. CASE e # "SP"
      BY <2>3, <3>2, RspEvents DEF SpQueued
    <3> QED BY <3>1, <3>2
  <2> QED BY <1>1, <2>4, <2>5, <2>6
<1> QED BY <1>2, <1>3 DEF Poll, gen_interrupt, NoReset

-----------------------------------------------------------------------------
(* do_SP_Task *)

LEMMA CyclesOK ==
  ASSUME NEW c, CoreOK(c), NEW o \in Outcome
  PROVE  /\ CoreOK(doRspCycles(c, o))
         /\ ~doRspCycles(c, o).sp.fresh /\ ~doRspCycles(c, o).sp.asked
<1> DEFINE lines == Reported(c.sp, o)
           s == PluginSets(c.m, lines)
           p == [c.sp EXCEPT !.halt = o.ends # "yield", !.broke = o.ends = "break",
                             !.fresh = FALSE, !.asked = FALSE,
                             !.replaced = FALSE,
                             !.dp_owed = @ \/ o.sync]
<1>0. c.m \in Machine /\ o.sync \in BOOLEAN
  BY DEF CoreOK, StateOK, MachineOK, Outcome
<1>1. lines \in SUBSET Lines /\ (o.sync => "DP" \in lines)
  BY RspEvents DEF Reported
<1> HIDE DEF lines
<1>2. /\ StateOK(s) /\ s.queued = c.m.queued
      /\ s.reset_hard_job = c.m.reset_hard_job
      /\ s.intr = c.m.intr \cup lines
  <2>1. StateOK(s)
    BY <1>1, PluginSetsOK DEF CoreOK
  <2> QED BY <1>0, <2>1 DEF PluginSets, Machine
<1>3. /\ p \in Rsp /\ p.dp_owed = (c.sp.dp_owed \/ o.sync)
      /\ p.dropped = c.sp.dropped /\ ~p.fresh /\ ~p.asked
  <2> DEFINE h == o.ends # "yield"
             k == o.ends = "break"
             d == c.sp.dp_owed \/ o.sync
  <2>1. c.sp \in Rsp /\ h \in BOOLEAN /\ k \in BOOLEAN /\ d \in BOOLEAN
    BY DEF CoreOK
  <2>2. p = [c.sp EXCEPT !.halt = h, !.broke = k, !.fresh = FALSE,
                         !.asked = FALSE, !.replaced = FALSE, !.dp_owed = d]
    OBVIOUS
  <2> HIDE DEF h, k, d, p
  <2> DEFINE x == c.sp
  <2>3. p = [halt |-> h, broke |-> k, intr_break |-> x.intr_break,
             locked |-> x.locked, freeze |-> x.freeze, display |-> x.display,
             fresh |-> FALSE, asked |-> FALSE, replaced |-> FALSE,
             dp_owed |-> d, dropped |-> x.dropped]
    BY <2>1, <2>2 DEF Rsp
  <2>4. /\ x.intr_break \in BOOLEAN /\ x.locked \in BOOLEAN
        /\ x.freeze \in BOOLEAN /\ x.display \in BOOLEAN
        /\ x.dropped \in BOOLEAN
    BY <2>1 DEF Rsp
  <2>5. p.dropped = x.dropped
    BY <2>3
  <2> HIDE DEF x
  <2>6. p \in Rsp /\ p.dp_owed = d /\ ~p.fresh /\ ~p.asked
    BY <2>1, <2>3, <2>4 DEF Rsp
  <2> QED BY <2>5, <2>6 DEF d, x
<1>4. doRspCycles(c, o).m = s /\ doRspCycles(c, o).sp = p
  BY DEF doRspCycles, lines
<1> HIDE DEF s, p
<1>5. NoReset(s)
  BY <1>2 DEF CoreOK, NoReset
<1>6. SyncOwed(s, p)
  BY <1>0, <1>1, <1>2, <1>3 DEF CoreOK, SyncOwed, DpPending, Rsp
<1> QED BY <1>2, <1>3, <1>4, <1>5, <1>6 DEF CoreOK

\* a is s with the event e added, if there was a node.
AddedTo(s, e, a) ==
  /\ a \in Machine /\ a.intr = s.intr /\ a.reset_hard_job = s.reset_hard_job
  /\ \A f \in Events \ {e} : a.queued[f] = s.queued[f]
  /\ a.queued[e] = IF PoolEmpty(s) THEN s.queued[e] ELSE s.queued[e] + 1

LEMMA AddedOK ==
  ASSUME NEW s \in Machine, NEW e \in Events
  PROVE  AddedTo(s, e, add_interrupt_event(s, e))
BY AddKeeps DEF AddedTo

LEMMA DisplayEndOK ==
  ASSUME NEW c, CoreOK(c)
  PROVE  /\ CoreOK(DisplayEnd(c))
         /\ DisplayEnd(c).sp.fresh = c.sp.fresh
         /\ DisplayEnd(c).sp.asked = c.sp.asked
<1> DEFINE s == DeferDp(c.m)
           p == [c.sp EXCEPT !.dropped =
                   @ \/ ("DP" \in c.m.intr /\ PoolEmpty(c.m))]
<1>0. c.m \in Machine /\ c.m.queued["DP"] \in Nat
  BY RspEvents DEF CoreOK, StateOK, MachineOK, Machine
<1>1. DisplayEnd(c).m = s /\ DisplayEnd(c).sp = p
  BY DEF DisplayEnd
<1>2. StateOK(s)
  BY DeferDpOK DEF CoreOK
<1>3. /\ p \in Rsp /\ p.dp_owed = c.sp.dp_owed
      /\ p.fresh = c.sp.fresh /\ p.asked = c.sp.asked
      /\ p.dropped = (c.sp.dropped \/ ("DP" \in c.m.intr /\ PoolEmpty(c.m)))
  BY DEF CoreOK, Rsp, PoolEmpty
<1>4. CASE "DP" \notin c.m.intr
  <2>1. s = c.m
    BY <1>4 DEF DeferDp
  <2> HIDE DEF s, p
  <2> QED BY <1>1, <1>2, <1>3, <1>4, <2>1 DEF CoreOK, SyncOwed
<1>5. CASE "DP" \in c.m.intr
  <2> DEFINE a == add_interrupt_event(c.m, "DP")
  <2>1. /\ a \in Machine /\ a.reset_hard_job = c.m.reset_hard_job
        /\ a.queued["NMI"] = c.m.queued["NMI"]
        /\ a.queued["DP"] = IF PoolEmpty(c.m) THEN c.m.queued["DP"]
                            ELSE c.m.queued["DP"] + 1
    <3> DEFINE x == c.m
    <3>1. x \in Machine /\ "DP" \in Events /\ "NMI" \in Events \ {"DP"}
      BY <1>0, RspEvents
    <3> HIDE DEF x
    <3>2. AddedTo(x, "DP", add_interrupt_event(x, "DP"))
      BY <3>1, AddedOK
    <3> QED BY <3>1, <3>2 DEF AddedTo, x
  <2>2. s = [a EXCEPT !.intr = @ \ {"DP"}, !.unchecked = TRUE]
    BY <1>5 DEF DeferDp
  <2> HIDE DEF a
  <2>3. s.queued = a.queued /\ s.reset_hard_job = a.reset_hard_job
    BY <2>1, <2>2 DEF Machine
  <2> HIDE DEF s, p
  <2>4. NoReset(s)
    BY <2>1, <2>3 DEF CoreOK, NoReset
  <2>5. ~p.dropped => ~PoolEmpty(c.m)
    BY <1>3, <1>5
  <2>6. ~p.dropped => s.queued["DP"] > 0
    BY <1>0, <2>1, <2>3, <2>5
  <2>7. SyncOwed(s, p)
    BY <2>6 DEF SyncOwed, DpPending
  <2> QED BY <1>1, <1>2, <1>3, <2>4, <2>7 DEF CoreOK
<1> QED BY <1>4, <1>5

LEMMA TaskEndOK ==
  ASSUME NEW c, CoreOK(c), ~c.sp.fresh, ~c.sp.asked
  PROVE  CoreOK(TaskEnd(c)) /\ NotForgotten(TaskEnd(c).m, TaskEnd(c).sp)
<1> DEFINE s == TaskEnd(c).m
           p == TaskEnd(c).sp
<1>0. c.m \in Machine /\ c.sp \in Rsp /\ Running(c.sp) \in BOOLEAN
  BY DEF CoreOK, StateOK, MachineOK, Running
<1>1. p = [c.sp EXCEPT !.locked = Running(c.sp)]
  BY DEF TaskEnd
<1>2. /\ p \in Rsp /\ p.locked = Running(c.sp) /\ p.dp_owed = c.sp.dp_owed
      /\ p.dropped = c.sp.dropped /\ Running(p) = Running(c.sp)
      /\ ~p.fresh /\ ~p.asked
  BY <1>0, <1>1 DEF Rsp, Running
<1>3. s = c.m \/ s = add_interrupt_event(c.m, "SP")
  BY DEF TaskEnd
<1> HIDE DEF s
<1>4. /\ StateOK(s) /\ s.intr = c.m.intr
      /\ s.reset_hard_job = c.m.reset_hard_job
      /\ s.queued["NMI"] = c.m.queued["NMI"]
      /\ s.queued["DP"] = c.m.queued["DP"]
  <2>1. CASE s = c.m
    BY <2>1 DEF CoreOK
  <2>2. CASE s = add_interrupt_event(c.m, "SP")
    <3>1. StateOK(c.m) /\ "SP" \in Events /\ {"NMI", "DP"} \subseteq Events
      BY RspEvents DEF CoreOK
    <3>2. StateOK(s)
      BY <2>2, <3>1, AddEventOK
    <3> DEFINE x == c.m
    <3>3. x \in Machine /\ "SP" \in Events /\ {"NMI", "DP"} \subseteq Events \ {"SP"}
      BY <1>0, <3>1
    <3> HIDE DEF x
    <3>4. AddedTo(x, "SP", add_interrupt_event(x, "SP"))
      BY <3>3, AddedOK
    <3> QED BY <2>2, <3>2, <3>3, <3>4 DEF AddedTo, x
  <2> QED BY <1>3, <2>1, <2>2
<1> HIDE DEF p
<1>5. NoReset(s) /\ SyncOwed(s, p)
  BY <1>2, <1>4 DEF CoreOK, NoReset, SyncOwed, DpPending
<1>6. CoreOK(TaskEnd(c))
  BY <1>2, <1>4, <1>5 DEF CoreOK, s, p
<1>7. NotForgotten(TaskEnd(c).m, TaskEnd(c).sp)
  BY <1>2 DEF NotForgotten, Replacing, p
<1> QED BY <1>6, <1>7

LEMMA TaskOK ==
  ASSUME NEW c, CoreOK(c), Running(c.sp), Replacing(c.m, c.sp),
         NEW d \in do_SP_Task(c)
  PROVE  CoreOK(d) /\ NotForgotten(d.m, d.sp)
<1>1. CASE Refused(c.sp)
  BY <1>1 DEF do_SP_Task, NotForgotten
<1>2. CASE ~Refused(c.sp)
  <2>1. PICK o \in Outcome :
          LET r == doRspCycles(c, o)
          IN  d = TaskEnd(IF c.sp.display THEN DisplayEnd(r) ELSE r)
    BY <1>2 DEF do_SP_Task
  <2> DEFINE r == doRspCycles(c, o)
  <2>2. CoreOK(r) /\ ~r.sp.fresh /\ ~r.sp.asked
    BY CyclesOK
  <2>d. d = TaskEnd(IF c.sp.display THEN DisplayEnd(r) ELSE r)
    BY <2>1
  <2> HIDE DEF r
  <2>3. /\ CoreOK(DisplayEnd(r))
        /\ ~DisplayEnd(r).sp.fresh /\ ~DisplayEnd(r).sp.asked
    BY <2>2, DisplayEndOK
  <2> QED BY <2>d, <2>2, <2>3, TaskEndOK
<1> QED BY <1>1, <1>2

-----------------------------------------------------------------------------
(* The registers *)

LEMMA StatusBitsOK ==
  ASSUME NEW c, CoreOK(c), NEW w \in SpWrites
  PROVE  /\ CoreOK(SpStatusBits(c, w))
         /\ SpStatusBits(c, w).sp.locked = c.sp.locked
         /\ SpStatusBits(c, w).sp.display = c.sp.display
         /\ SpStatusBits(c, w).sp.freeze = c.sp.freeze
         /\ SpStatusBits(c, w).sp.fresh = c.sp.fresh
         /\ SpStatusBits(c, w).sp.asked = c.sp.asked
         /\ SpStatusBits(c, w).sp.replaced = c.sp.replaced
         /\ SpQueued(SpStatusBits(c, w).m) = SpQueued(c.m)
         /\ w \cap {"clr_halt", "clr_broke"} = {} /\ Running(SpStatusBits(c, w).sp)
              => Running(c.sp)
<1> DEFINE i == IF "clr_intr" \in w THEN clear_rcp_interrupt(c.m, "SP") ELSE c.m
           j == IF "set_intr" \in w THEN signal_rcp_interrupt(i, "SP") ELSE i
           p == SpStatusBits(c, w).sp
<1>0. StateOK(c.m) /\ NoReset(c.m) /\ c.sp \in Rsp /\ SyncOwed(c.m, c.sp)
  BY DEF CoreOK
<1>1. /\ StateOK(i) /\ NoReset(i) /\ (DpPending(c.m) => DpPending(i))
      /\ SpQueued(i) = SpQueued(c.m)
  <2> DEFINE t == [c.m EXCEPT !.intr = @ \ {"SP"}]
  <2>1. /\ t \in Machine /\ t.queued = c.m.queued /\ t.checks = c.m.checks
        /\ t.index = c.m.index /\ t.reset_hard_job = c.m.reset_hard_job
        /\ "DP" \in c.m.intr => "DP" \in t.intr
    BY <1>0 DEF StateOK, MachineOK, Machine
  <2>2. i = c.m \/ i = check_interrupt(t)
    BY DEF clear_rcp_interrupt
  <2> HIDE DEF i, t
  <2> QED BY <1>0, <2>1, <2>2, CheckedOK
<1> HIDE DEF i
<1>2. /\ StateOK(j) /\ NoReset(j) /\ (DpPending(i) => DpPending(j))
      /\ SpQueued(j) = SpQueued(i)
  <2> DEFINE t == [i EXCEPT !.intr = @ \cup {"SP"}]
  <2>1. /\ t \in Machine /\ t.queued = i.queued /\ t.checks = i.checks
        /\ t.index = i.index /\ t.reset_hard_job = i.reset_hard_job
        /\ "DP" \in i.intr => "DP" \in t.intr
    BY <1>1, RspEvents DEF StateOK, MachineOK, Machine
  <2>2. j = i \/ j = check_interrupt(t)
    BY DEF signal_rcp_interrupt
  <2> HIDE DEF j, t
  <2> QED BY <1>1, <2>1, <2>2, CheckedOK
<1>3. SpStatusBits(c, w).m = j
  BY DEF SpStatusBits, i
<1> HIDE DEF j
<1>4. /\ p \in Rsp /\ p.locked = c.sp.locked /\ p.display = c.sp.display
      /\ p.freeze = c.sp.freeze /\ p.dp_owed = c.sp.dp_owed
      /\ p.dropped = c.sp.dropped /\ p.fresh = c.sp.fresh
      /\ p.asked = c.sp.asked /\ p.replaced = c.sp.replaced
      /\ c.sp.halt /\ "clr_halt" \notin w => p.halt
      /\ c.sp.broke /\ "clr_broke" \notin w => p.broke
  <2>1. p = [c.sp EXCEPT
               !.halt = (@ /\ "clr_halt" \notin w) \/ "set_halt" \in w,
               !.broke = @ /\ "clr_broke" \notin w,
               !.intr_break = (@ /\ "clr_intr_break" \notin w)
                                \/ "set_intr_break" \in w]
    BY DEF SpStatusBits
  <2> HIDE DEF p
  <2>2. /\ p.halt = ((c.sp.halt /\ "clr_halt" \notin w) \/ "set_halt" \in w)
        /\ p.broke = (c.sp.broke /\ "clr_broke" \notin w)
        /\ p.intr_break = ((c.sp.intr_break /\ "clr_intr_break" \notin w)
                              \/ "set_intr_break" \in w)
        /\ p.locked = c.sp.locked /\ p.display = c.sp.display
        /\ p.freeze = c.sp.freeze /\ p.dp_owed = c.sp.dp_owed
        /\ p.dropped = c.sp.dropped /\ p.fresh = c.sp.fresh
        /\ p.asked = c.sp.asked /\ p.replaced = c.sp.replaced
        /\ p = [halt |-> p.halt, broke |-> p.broke, intr_break |-> p.intr_break,
                locked |-> c.sp.locked, freeze |-> c.sp.freeze,
                display |-> c.sp.display, fresh |-> c.sp.fresh,
                asked |-> c.sp.asked, replaced |-> c.sp.replaced,
                dp_owed |-> c.sp.dp_owed, dropped |-> c.sp.dropped]
    BY <1>0, <2>1 DEF Rsp
  <2>3. /\ c.sp.locked \in BOOLEAN /\ c.sp.freeze \in BOOLEAN /\ c.sp.display \in BOOLEAN
        /\ c.sp.dp_owed \in BOOLEAN /\ c.sp.dropped \in BOOLEAN
        /\ c.sp.fresh \in BOOLEAN /\ c.sp.asked \in BOOLEAN
        /\ c.sp.replaced \in BOOLEAN
    BY <1>0 DEF Rsp
  <2>4. p.halt \in BOOLEAN /\ p.broke \in BOOLEAN /\ p.intr_break \in BOOLEAN
    BY <2>2, Zenon
  <2>5. p \in Rsp
    BY <2>2, <2>3, <2>4 DEF Rsp
  <2>6. /\ c.sp.halt /\ "clr_halt" \notin w => p.halt
        /\ c.sp.broke /\ "clr_broke" \notin w => p.broke
    BY <2>2
  <2> QED BY <2>2, <2>5, <2>6
<1>5. w \cap {"clr_halt", "clr_broke"} = {} /\ Running(p) => Running(c.sp)
  BY <1>0, <1>4 DEF Running, Rsp
<1>6. SyncOwed(j, p)
  BY <1>0, <1>1, <1>2, <1>4 DEF SyncOwed
<1> HIDE DEF p
<1>7. CoreOK(SpStatusBits(c, w))
  BY <1>2, <1>3, <1>4, <1>6 DEF CoreOK, p
<1>8. SpQueued(SpStatusBits(c, w).m) = SpQueued(c.m)
  BY <1>1, <1>2, <1>3
<1> QED BY <1>4, <1>5, <1>7, <1>8 DEF p

\* The history of what the guest asked for.
LEMMA AskedOK ==
  ASSUME NEW b, CoreOK(b), b = [m |-> b.m, sp |-> b.sp]
  PROVE  /\ CoreOK(Asked(b)) /\ Asked(b).m = b.m
         /\ Asked(b).sp.locked = b.sp.locked
         /\ Asked(b).sp.display = b.sp.display
         /\ Asked(b).sp.freeze = b.sp.freeze
         /\ Asked(b).sp.fresh = b.sp.fresh
         /\ Asked(b).sp.replaced = b.sp.replaced
         /\ Running(Asked(b).sp) = Running(b.sp)
         /\ Asked(b).sp.asked <=> Running(b.sp) /\ (b.sp.asked \/ ~Waiting(b))
<1> DEFINE v == Running(b.sp) /\ (b.sp.asked \/ ~Waiting(b))
<1>0. b.sp \in Rsp
  BY DEF CoreOK
<1>1. Asked(b).m = b.m /\ Asked(b).sp = [b.sp EXCEPT !.asked = v]
  BY DEF Asked
<1>2. v \in BOOLEAN
  BY DEF Running
<1> HIDE DEF v
<1> DEFINE p == [b.sp EXCEPT !.asked = v]
<1>3. /\ p \in Rsp /\ p.locked = b.sp.locked /\ p.display = b.sp.display
      /\ p.freeze = b.sp.freeze /\ p.fresh = b.sp.fresh
      /\ p.replaced = b.sp.replaced /\ p.asked = v
      /\ p.halt = b.sp.halt /\ p.broke = b.sp.broke
      /\ p.dp_owed = b.sp.dp_owed /\ p.dropped = b.sp.dropped
  BY <1>0, <1>2 DEF Rsp
<1> HIDE DEF p
<1>4. Asked(b).sp = p
  BY <1>1 DEF p
<1>5. CoreOK(Asked(b))
  BY <1>1, <1>3, <1>4 DEF CoreOK, SyncOwed
<1>6. Running(p) = Running(b.sp)
  BY <1>3 DEF Running
<1> QED BY <1>1, <1>3, <1>4, <1>5, <1>6 DEF v

LEMMA SpStatusOK ==
  ASSUME NEW c, CoreOK(c), NotForgotten(c.m, c.sp), NEW w \in SpWrites,
         NEW d \in update_sp_status(c, w)
  PROVE  CoreOK(d) /\ NotForgotten(d.m, d.sp)
<1> DEFINE a == SpStatusBits(c, w)
           b == Asked(a)
<1>1. /\ CoreOK(a) /\ a.sp.locked = c.sp.locked
      /\ a.sp.display = c.sp.display /\ a.sp.freeze = c.sp.freeze
      /\ a.sp.fresh = c.sp.fresh /\ a.sp.asked = c.sp.asked
      /\ a.sp.replaced = c.sp.replaced /\ SpQueued(a.m) = SpQueued(c.m)
      /\ w \cap {"clr_halt", "clr_broke"} = {} /\ Running(a.sp) => Running(c.sp)
  BY StatusBitsOK
<1>a. a = [m |-> a.m, sp |-> a.sp]
  BY DEF SpStatusBits
<1>2. d \in IF StartsTask(b, w) THEN do_SP_Task(b) ELSE {b}
  BY DEF update_sp_status
<1> HIDE DEF a
<1>3. /\ CoreOK(b) /\ b.m = a.m
      /\ b.sp.locked = a.sp.locked /\ b.sp.display = a.sp.display
      /\ b.sp.freeze = a.sp.freeze /\ b.sp.fresh = a.sp.fresh
      /\ b.sp.replaced = a.sp.replaced /\ Running(b.sp) = Running(a.sp)
      /\ b.sp.asked <=> Running(a.sp) /\ (a.sp.asked \/ ~Waiting(a))
  BY <1>1, <1>a, AskedOK
<1> HIDE DEF b
<1>4. Replacing(b.m, b.sp)
  BY <1>1, <1>3 DEF NotForgotten, Replacing
<1>5. CASE StartsTask(b, w)
  <2>1. Running(b.sp)
    BY <1>5 DEF StartsTask
  <2> QED BY <1>2, <1>3, <1>4, <1>5, <2>1, TaskOK
<1>6. CASE ~StartsTask(b, w)
  <2>1. d = b
    BY <1>2, <1>6
  <2>2. Refused(b.sp) <=> Refused(c.sp)
    BY <1>1, <1>3 DEF Refused
  <2>3. Waiting(a) <=> c.sp.locked /\ SpQueued(c.m)
    BY <1>1 DEF Waiting, SpQueued
  <2>4. Waiting(b) <=> c.sp.locked /\ SpQueued(c.m)
    BY <1>1, <1>3 DEF Waiting, SpQueued
  <2>5. ASSUME Running(b.sp), ~Refused(b.sp) PROVE Waiting(b)
    <3>1. ASSUME ~Waiting(b) PROVE FALSE
      <4>1. w \cap {"clr_halt", "clr_broke"} = {} /\ ~b.sp.locked
        BY <1>6, <2>5, <3>1 DEF StartsTask
      <4>2. Running(c.sp)
        BY <1>1, <1>3, <2>5, <4>1
      <4> QED BY <1>1, <1>3, <2>2, <2>5, <4>1, <4>2 DEF NotForgotten
    <3> QED BY <3>1
  <2>6. b.sp.asked => Running(b.sp) /\ Refused(b.sp)
    BY <1>1, <1>3, <2>2, <2>3, <2>4, <2>5 DEF NotForgotten
  <2>7. Running(b.sp)
          => Refused(b.sp) \/ (b.sp.locked /\ (b.sp.fresh => b.sp.replaced))
    BY <1>4, <2>5 DEF Waiting, Replacing, SpQueued
  <2> QED BY <1>3, <1>4, <2>1, <2>6, <2>7 DEF NotForgotten
<1> QED BY <1>5, <1>6

LEMMA DpcStatusOK ==
  ASSUME NEW c, CoreOK(c), NotForgotten(c.m, c.sp), NEW w \in DpcWrites,
         c = [m |-> c.m, sp |-> c.sp],
         NEW d \in update_dpc_status(c, w)
  PROVE  CoreOK(d) /\ NotForgotten(d.m, d.sp)
<1> DEFINE b == [c EXCEPT !.sp.freeze =
                   (@ /\ "clr_freeze" \notin w) \/ "set_freeze" \in w]
<1>0. c.sp \in Rsp
  BY DEF CoreOK
<1>1. /\ b.m = c.m
      /\ b.sp = [c.sp EXCEPT !.freeze =
                   (@ /\ "clr_freeze" \notin w) \/ "set_freeze" \in w]
  OBVIOUS
<1>2. d \in IF RunsOnUnfreeze(c.sp, w) THEN do_SP_Task(b) ELSE {b}
  BY DEF update_dpc_status
<1> HIDE DEF b
<1>3. /\ b.sp \in Rsp /\ b.sp.locked = c.sp.locked
      /\ b.sp.display = c.sp.display /\ b.sp.dp_owed = c.sp.dp_owed
      /\ b.sp.dropped = c.sp.dropped /\ Running(b.sp) = Running(c.sp)
      /\ b.sp.fresh = c.sp.fresh /\ b.sp.asked = c.sp.asked
      /\ b.sp.replaced = c.sp.replaced
      /\ "clr_freeze" \notin w /\ c.sp.freeze => b.sp.freeze
  BY <1>0, <1>1 DEF Rsp, Running
<1>4. CoreOK(b)
  BY <1>1, <1>3 DEF CoreOK, SyncOwed
<1>5. CASE RunsOnUnfreeze(c.sp, w)
  <2>1. Running(b.sp) /\ Replacing(b.m, b.sp)
    BY <1>1, <1>3, <1>5 DEF RunsOnUnfreeze, NotForgotten, Replacing
  <2> QED BY <1>2, <1>4, <1>5, <2>1, TaskOK
<1>6. CASE ~RunsOnUnfreeze(c.sp, w)
  <2>1. d = b
    BY <1>2, <1>6
  <2>2. Running(c.sp) /\ Refused(c.sp) => Refused(b.sp)
    BY <1>3, <1>6 DEF RunsOnUnfreeze, Refused
  <2>3. Replacing(b.m, b.sp)
    BY <1>1, <1>3 DEF NotForgotten, Replacing
  <2>4. NotForgotten(b.m, b.sp)
    BY <1>3, <2>2, <2>3 DEF NotForgotten
  <2> QED BY <1>4, <2>1, <2>4
<1> QED BY <1>5, <1>6

-----------------------------------------------------------------------------
(* The steps *)

LEMMA RspInitOK == RspInit => RspInv
<1> SUFFICES ASSUME RspInit PROVE RspInv
  OBVIOUS
<1>1. StateOK(m)
  BY InitOK DEF RspInit, Inv
<1>2. NoReset(m)
  BY RspEvents DEF RspInit, Init, PowerOn, RestartQueue, NoReset
<1>3. sp \in Rsp /\ sp.halt /\ ~sp.dp_owed /\ ~sp.asked /\ ~sp.locked
  <2>1. PICK d \in BOOLEAN :
          sp = [halt |-> TRUE, broke |-> FALSE, intr_break |-> FALSE,
                locked |-> FALSE, freeze |-> FALSE, display |-> d,
                fresh |-> TRUE, asked |-> FALSE, replaced |-> FALSE,
                dp_owed |-> FALSE, dropped |-> FALSE]
    BY DEF RspInit
  <2> QED BY <2>1 DEF Rsp
<1> QED BY <1>1, <1>2, <1>3
  DEF RspInv, SyncOwed, NotForgotten, Replacing, Running

\* A step of the machine alone.
LEMMA RspMachineStepOK ==
  ASSUME RspInv, UNCHANGED sp, StateOK(m'), NoReset(m'),
         DpPending(m) => DpPending(m'), SpQueued(m') => SpQueued(m)
  PROVE  RspInv'
<1>1. SyncOwed(m', sp')
  BY DEF RspInv, SyncOwed
<1>2. NotForgotten(m', sp')
  BY DEF RspInv, NotForgotten, Replacing
<1> QED BY <1>1, <1>2 DEF RspInv

LEMMA RspStepOK == RspInv /\ [RspNext]_<<m, sp>> => RspInv'
<1> SUFFICES ASSUME RspInv, [RspNext]_<<m, sp>> PROVE RspInv'
  OBVIOUS
<1> DEFINE c == [m |-> m, sp |-> sp]
<1>0. /\ StateOK(m) /\ NoReset(m) /\ m \in Machine /\ sp \in Rsp
      /\ SyncOwed(m, sp)
  BY DEF RspInv, StateOK, MachineOK
<1>c. /\ CoreOK(c) /\ NotForgotten(c.m, c.sp) /\ c = [m |-> c.m, sp |-> c.sp]
      /\ c.m = m /\ c.sp = sp
  BY DEF RspInv, CoreOK
<1>1. CASE \E w \in SpWrites : WriteSpStatus(w)
  <2>0. PICK w \in SpWrites : WriteSpStatus(w)
    BY <1>1
  <2>1. PICK d \in update_sp_status(c, w) : m' = d.m /\ sp' = d.sp
    BY <2>0 DEF WriteSpStatus, Becomes
  <2> HIDE DEF c
  <2>2. CoreOK(d) /\ NotForgotten(d.m, d.sp)
    BY <1>c, SpStatusOK
  <2> QED BY <2>1, <2>2 DEF RspInv, CoreOK
<1>2. CASE \E w \in DpcWrites : WriteDpcStatus(w)
  <2>0. PICK w \in DpcWrites : WriteDpcStatus(w)
    BY <1>2
  <2>1. PICK d \in update_dpc_status(c, w) : m' = d.m /\ sp' = d.sp
    BY <2>0 DEF WriteDpcStatus, Becomes
  <2> HIDE DEF c
  <2>2. CoreOK(d) /\ NotForgotten(d.m, d.sp)
    BY <1>c, DpcStatusOK
  <2> QED BY <2>1, <2>2 DEF RspInv, CoreOK
<1>3. CASE \E sync \in BOOLEAN : WriteDpcEnd(sync)
  <2>1. PICK sync \in BOOLEAN : WriteDpcEnd(sync)
    BY <1>3
  <2> DEFINE s == PluginSets(m, IF sync THEN {"DP"} ELSE {})
             t == [s EXCEPT !.intr = @ \cup {"DP"}]
  <2>2. (IF sync THEN {"DP"} ELSE {}) \in SUBSET Lines
    BY RspEvents
  <2>3. StateOK(s)
    BY <1>0, <2>2, PluginSetsOK
  <2>4. s.queued = m.queued /\ s.reset_hard_job = m.reset_hard_job
    BY <1>0 DEF PluginSets, Machine
  <2>5. m' = check_interrupt(t) /\ sp' = [sp EXCEPT !.dp_owed = @ \/ sync]
    BY <2>1 DEF WriteDpcEnd, signal_rcp_interrupt
  <2> HIDE DEF s
  <2>6. /\ t \in Machine /\ t.queued = s.queued /\ t.checks = s.checks
        /\ t.index = s.index /\ t.reset_hard_job = s.reset_hard_job
        /\ "DP" \in t.intr
    BY <2>3, RspEvents DEF StateOK, MachineOK, Machine
  <2> HIDE DEF t
  <2>7. StateOK(m')
    BY <2>3, <2>5, <2>6, SameCounts
  <2>8. NoReset(m') /\ DpPending(m') /\ SpQueued(m') = SpQueued(m)
    BY <1>0, <2>4, <2>5, <2>6, CheckKeeps DEF NoReset, DpPending, SpQueued
  <2>9. /\ sp' \in Rsp /\ sp'.locked = sp.locked /\ sp'.display = sp.display
        /\ sp'.freeze = sp.freeze /\ sp'.halt = sp.halt /\ sp'.broke = sp.broke
        /\ sp'.fresh = sp.fresh /\ sp'.asked = sp.asked
        /\ sp'.replaced = sp.replaced
    BY <1>0, <2>5 DEF Rsp
  <2>10. NotForgotten(m', sp')
    BY <2>8, <2>9 DEF RspInv, NotForgotten, Replacing, Running, Refused
  <2>11. SyncOwed(m', sp')
    BY <2>8 DEF SyncOwed
  <2> QED BY <2>7, <2>8, <2>9, <2>10, <2>11 DEF RspInv
<1>4. CASE LoadTask
  <2> DEFINE v == Waiting([m |-> m, sp |-> sp])
  <2>0. PICK d \in BOOLEAN :
          /\ m' = m /\ ~Running(sp)
          /\ sp' = [sp EXCEPT !.display = d, !.fresh = TRUE, !.replaced = v]
    BY <1>4 DEF LoadTask
  <2>1. /\ v \in BOOLEAN /\ (sp.locked /\ SpQueued(m) => v)
        /\ m' = m /\ ~Running(sp)
    BY <2>0 DEF Waiting, SpQueued
  <2> HIDE DEF v
  <2>2. /\ sp' \in Rsp /\ sp'.halt = sp.halt /\ sp'.broke = sp.broke
        /\ sp'.dp_owed = sp.dp_owed /\ sp'.dropped = sp.dropped
        /\ sp'.asked = sp.asked /\ sp'.locked = sp.locked /\ sp'.replaced = v
    BY <1>0, <2>0, <2>1 DEF Rsp
  <2>3. NotForgotten(m', sp')
    BY <2>1, <2>2 DEF RspInv, NotForgotten, Replacing, Running
  <2>4. SyncOwed(m', sp')
    BY <1>0, <2>1, <2>2 DEF SyncOwed
  <2> QED BY <1>0, <2>1, <2>2, <2>3, <2>4 DEF RspInv
<1>5. CASE TakeInterrupts
  <2>1. /\ StateOK(m') /\ NoReset(m') /\ (DpPending(m) => DpPending(m'))
        /\ SpQueued(m') => SpQueued(m)
    BY <1>0, <1>5, PollKeeps DEF TakeInterrupts, Jump
  <2> QED BY <1>5, <2>1, RspMachineStepOK DEF TakeInterrupts
<1>6. CASE AcknowledgeDp
  <2> DEFINE t == [m EXCEPT !.intr = @ \ {"DP"}]
  <2>1. /\ m' = check_interrupt(t)
        /\ sp' = [sp EXCEPT !.dp_owed = @ /\ "DP" \notin m.intr]
    BY <1>6 DEF AcknowledgeDp, ClearLine, clear_rcp_interrupt
  <2>2. /\ t \in Machine /\ t.queued = m.queued /\ t.checks = m.checks
        /\ t.index = m.index /\ t.reset_hard_job = m.reset_hard_job
    BY <1>0 DEF Machine
  <2> HIDE DEF t
  <2>3. /\ StateOK(m') /\ m'.queued = m.queued
        /\ m'.reset_hard_job = m.reset_hard_job
    BY <1>0, <2>1, <2>2, SameCounts, CheckKeeps
  <2>4. /\ sp' \in Rsp /\ sp'.locked = sp.locked /\ sp'.display = sp.display
        /\ sp'.freeze = sp.freeze /\ sp'.halt = sp.halt /\ sp'.broke = sp.broke
        /\ sp'.dropped = sp.dropped /\ sp'.fresh = sp.fresh
        /\ sp'.asked = sp.asked /\ sp'.replaced = sp.replaced
        /\ sp'.dp_owed => sp.dp_owed /\ "DP" \notin m.intr
    BY <1>0, <2>1 DEF Rsp
  <2>5. SyncOwed(m', sp')
    BY <1>0, <2>3, <2>4 DEF SyncOwed, DpPending
  <2>6. NoReset(m')
    BY <1>0, <2>3 DEF NoReset
  <2>7. NotForgotten(m', sp')
    BY <2>3, <2>4
    DEF RspInv, NotForgotten, Replacing, SpQueued, Running, Refused
  <2> QED BY <2>3, <2>4, <2>5, <2>6, <2>7 DEF RspInv
<1>7. CASE Cpu
  <2>1. /\ StateOK(m') /\ NoReset(m') /\ (DpPending(m) => DpPending(m'))
        /\ SpQueued(m') => SpQueued(m)
    <3>1. ASSUME NEW t \in Machine, t.queued = m.queued, t.checks = m.checks,
                 t.index = m.index, t.intr = m.intr,
                 t.reset_hard_job = m.reset_hard_job,
                 NEW unsafe \in BOOLEAN, m' \in Poll(check_interrupt(t), unsafe)
          PROVE  /\ StateOK(m') /\ NoReset(m') /\ (DpPending(m) => DpPending(m'))
                 /\ SpQueued(m') => SpQueued(m)
      <4>1. /\ StateOK(check_interrupt(t)) /\ NoReset(check_interrupt(t))
            /\ DpPending(m) => DpPending(check_interrupt(t))
            /\ SpQueued(check_interrupt(t)) = SpQueued(m)
        BY <1>0, <3>1, CheckedOK
      <4> QED BY <3>1, <4>1, PollKeeps
    <3>2. ASSUME NEW clear \in SUBSET Lines, NEW set \in SUBSET Lines,
                 WriteMiIntrMask(clear, set)
          PROVE  /\ StateOK(m') /\ NoReset(m') /\ (DpPending(m) => DpPending(m'))
                 /\ SpQueued(m') => SpQueued(m)
      <4> DEFINE t == update_mi_intr_mask(m, clear, set)
      <4>1. /\ t \in Machine /\ t.queued = m.queued /\ t.checks = m.checks
            /\ t.index = m.index /\ t.intr = m.intr
            /\ t.reset_hard_job = m.reset_hard_job
        BY <1>0 DEF Machine, update_mi_intr_mask
      <4>2. m' \in Poll(check_interrupt(t), FALSE)
        BY <3>2 DEF WriteMiIntrMask
      <4> HIDE DEF t
      <4> QED BY <3>1, <4>1, <4>2
    <3>3. CASE \E v \in StatusValues : MTC0_Status(v)
      <4>1. PICK v \in StatusValues : MTC0_Status(v)
        BY <3>3
      <4> DEFINE t == [m EXCEPT !.status = v]
      <4>2. /\ t \in Machine /\ t.queued = m.queued /\ t.checks = m.checks
            /\ t.index = m.index /\ t.intr = m.intr
            /\ t.reset_hard_job = m.reset_hard_job
        BY <1>0, ConstantsAssumption DEF Machine
      <4>3. m' \in Poll(check_interrupt(t), TRUE)
        BY <4>1 DEF MTC0_Status
      <4> HIDE DEF t
      <4> QED BY <3>1, <4>2, <4>3
    <3>4. CASE ERET
      <4> DEFINE t == IF m.status.erl THEN [m EXCEPT !.stop = TRUE]
                      ELSE [m EXCEPT !.status.exl = FALSE]
      <4>1. /\ t \in Machine /\ t.queued = m.queued /\ t.checks = m.checks
            /\ t.index = m.index /\ t.intr = m.intr
            /\ t.reset_hard_job = m.reset_hard_job
        BY <1>0 DEF Machine, StatusValue
      <4>2. m' \in Poll(check_interrupt(t), FALSE)
        BY <3>4 DEF ERET
      <4> HIDE DEF t
      <4> QED BY <3>1, <4>1, <4>2
    <3>5. {"SP", "DP"} \in SUBSET Lines /\ {} \in SUBSET Lines
      BY RspEvents
    <3> QED BY <1>7, <3>2, <3>3, <3>4, <3>5 DEF Cpu
  <2> QED BY <1>7, <2>1, RspMachineStepOK DEF Cpu
<1>8. CASE Nmi
  <2>1. m' = nmi_int_handler(m)
    BY <1>8 DEF Nmi
  <2>2. StateOK(m')
    BY <1>0, <2>1, NmiOK
  <2>3. NoReset(m') /\ ~SpQueued(m')
    BY <1>0, <2>1, RspEvents
    DEF NoReset, SpQueued, nmi_int_handler, RestartQueue, pifbootrom_hle_execute, Machine
  <2>4. sp' \in Rsp /\ sp'.halt /\ ~sp'.dp_owed /\ ~sp'.asked
    BY <1>0, <1>8 DEF Nmi, Rsp
  <2> QED BY <2>2, <2>3, <2>4
    DEF RspInv, SyncOwed, NotForgotten, Replacing, Running
<1>9. CASE UNCHANGED <<m, sp>>
  BY <1>9 DEF RspInv
<1> QED
  BY <1>1, <1>2, <1>3, <1>4, <1>5, <1>6, <1>7, <1>8, <1>9 DEF RspNext

LEMMA RspInvariance == RspSpec => []RspInv
BY RspInitOK, RspStepOK, PTL DEF RspSpec

\* No order of SP_STATUS and DPC_STATUS writes, loads, ends of tasks, interrupts
\* and NMIs leaves a task behind that the guest let run, unless a frozen RDP
\* holds it up or it was loaded over a locked one before its SP_INT
\* (update_sp_status, do_SP_Task, update_dpc_status).
THEOREM TaskNotForgottenAlways == RspSpec => []TaskNotForgotten
<1>1. RspInv => TaskNotForgotten
  BY DEF RspInv, StateOK, MachineOK, TypeOK, RspTypeOK, NotForgotten,
         TaskNotForgotten
<1> QED BY <1>1, RspInvariance, PTL

\* The interrupt of an RDP full sync is pending or queued until the guest has
\* acknowledged it, or the event queue was full (do_SP_Task's deferral).
THEOREM FullSyncReportedAlways == RspSpec => []FullSyncReported
<1>1. RspInv => FullSyncReported
  BY DEF RspInv, SyncOwed, DpPending, FullSyncReported
<1> QED BY <1>1, RspInvariance, PTL

-----------------------------------------------------------------------------
(* The serial interface *)

\* What the SI and the machine have to do with each other.
BusyOwed(s, p) ==
  p.dma_busy /\ ~p.abandoned /\ ~p.dropped => s.queued["SI"] > 0

Agree(s, p) == (p.interrupt <=> "SI" \in s.intr) /\ BusyOwed(s, p)

\* PIF RAM: a response stays behind a control byte of 0, so that a poke of the
\* last word is the only thing that can take it for commands.
PifOK(p) ==
  /\ p \in Si
  /\ p.ram = "response" => p.cic_challenge /\ p.control = "0"
  /\ p.ram = "garbled" => p.poked
  /\ p.cic_challenge => p.ram \in {"response", "zeros"}

\* The inductive invariant.
SiInv == StateOK(m) /\ PifOK(si) /\ Agree(m, si)

LEMMA SiIsEvent == "SI" \in Lines /\ "SI" \in Events
BY SiAssumption DEF Events

-----------------------------------------------------------------------------
(* The PIF *)

LEMMA ReadOK == ASSUME NEW p, PifOK(p) PROVE PifOK(update_pif_read(p))
<1>1. update_pif_read(p) \in Si
  BY DEF PifOK, Si, update_pif_read, RamContents
<1> QED BY <1>1 DEF PifOK, Si, update_pif_read

\* The bits of SI_STATUS and the history are not the PIF's.
LEMMA ReadKeeps ==
  ASSUME NEW p \in Si
  PROVE  LET q == update_pif_read(p)
         IN  /\ q.delay = p.delay /\ q.dma_busy = p.dma_busy
             /\ q.interrupt = p.interrupt /\ q.abandoned = p.abandoned
             /\ q.dropped = p.dropped
BY DEF update_pif_read, Si

\* A write of new commands, or a poke while the control byte keeps a response
\* from being processed unnoticed.
LEMMA WriteOK ==
  ASSUME NEW p \in Si,
         p.ram = "response" => p.control = "0" /\ p.poked,
         p.ram = "garbled" => p.poked
  PROVE  PifOK(update_pif_write(p))
<1> DEFINE c == [p EXCEPT !.cic_challenge = FALSE]
<1>1. /\ c \in Si /\ ~c.cic_challenge /\ c.ram = p.ram /\ c.control = p.control
      /\ c.poked = p.poked
  BY DEF Si
<1> HIDE DEF c
<1>2. CASE c.control = "2"
  <2> DEFINE q == [c EXCEPT !.ram = "response", !.control = "0",
                            !.cic_challenge = TRUE]
  <2>1. q \in Si /\ q.ram = "response" /\ q.control = "0" /\ q.cic_challenge
    BY <1>1 DEF Si, RamContents, ControlBytes
  <2>2. update_pif_write(p) = q
    BY <1>2 DEF update_pif_write, c
  <2> HIDE DEF q
  <2> QED BY <2>1, <2>2 DEF PifOK
<1>3. CASE c.control = "8"
  <2> DEFINE q == [c EXCEPT !.control = "0"]
  <2>1. q \in Si /\ q.ram = c.ram /\ q.poked = c.poked /\ ~q.cic_challenge
    BY <1>1 DEF Si, ControlBytes
  <2>2. update_pif_write(p) = q
    BY <1>3 DEF update_pif_write, c
  <2> HIDE DEF q
  <2> QED BY <1>1, <1>3, <2>1, <2>2 DEF PifOK
<1>4. CASE c.control = "other"
  <2>1. update_pif_write(p) = c
    BY <1>4 DEF update_pif_write, c
  <2> QED BY <1>1, <1>4, <2>1 DEF PifOK
<1>5. CASE c.control \notin {"2", "8", "other"}
  <2> DEFINE q == ProcessCommands(c)
  <2>1. /\ q \in Si /\ q.ram # "response" /\ ~q.cic_challenge
        /\ q.poked = c.poked
        /\ q.ram = "garbled" => c.ram \in {"response", "garbled"}
    BY <1>1 DEF ProcessCommands, Si, RamContents
  <2>2. update_pif_write(p) = q
    BY <1>5 DEF update_pif_write, c
  <2> HIDE DEF q
  <2> QED BY <1>1, <2>1, <2>2 DEF PifOK
<1> QED BY <1>2, <1>3, <1>4, <1>5

LEMMA WriteKeeps ==
  ASSUME NEW p \in Si
  PROVE  LET q == update_pif_write(p)
         IN  /\ q.delay = p.delay /\ q.dma_busy = p.dma_busy
             /\ q.interrupt = p.interrupt /\ q.abandoned = p.abandoned
             /\ q.dropped = p.dropped
BY DEF update_pif_write, ProcessCommands, Si

-----------------------------------------------------------------------------
(* Transfers *)

\* The end of dma_si_write and dma_si_read, after the PIF has done its part.
LEMMA TransferOK ==
  ASSUME StateOK(m), NEW c, PifOK(c), Agree(m, c), EndOfTransfer(c)
  PROVE  SiInv'
<1>0. m \in Machine /\ c \in Si /\ m.queued["SI"] \in Nat
  BY SiIsEvent DEF StateOK, MachineOK, Machine, PifOK
<1>1. CASE c.delay
  <2> DEFINE q == [c EXCEPT !.dma_busy = TRUE, !.dropped = @ \/ PoolEmpty(m)]
  <2>1. m' = add_interrupt_event(m, "SI") /\ si' = q
    BY <1>1 DEF EndOfTransfer
  <2>2. /\ StateOK(m') /\ m'.intr = m.intr
        /\ m'.queued["SI"] = IF PoolEmpty(m) THEN m.queued["SI"]
                             ELSE m.queued["SI"] + 1
    BY <1>0, <2>1, AddEventOK, AddKeeps, SiIsEvent
  <2>3. PoolEmpty(m) \in BOOLEAN
    BY DEF PoolEmpty
  <2>4. /\ q \in Si /\ q.dropped = (c.dropped \/ PoolEmpty(m))
        /\ q.interrupt = c.interrupt /\ q.ram = c.ram /\ q.control = c.control
        /\ q.cic_challenge = c.cic_challenge /\ q.poked = c.poked
    BY <1>0, <2>3 DEF Si
  <2> HIDE DEF q
  <2>5. PifOK(q)
    BY <2>4 DEF PifOK
  <2>6. Agree(m', q)
    BY <1>0, <2>2, <2>3, <2>4 DEF Agree, BusyOwed
  <2> QED BY <2>1, <2>2, <2>5, <2>6 DEF SiInv
<1>2. CASE ~c.delay
  <2> DEFINE t == [m EXCEPT !.intr = @ \cup {"SI"}]
             q == [c EXCEPT !.interrupt = TRUE]
  <2>1. m' = check_interrupt(t) /\ si' = q
    BY <1>2 DEF EndOfTransfer, signal_rcp_interrupt
  <2>2. /\ t \in Machine /\ t.queued = m.queued /\ t.checks = m.checks
        /\ t.index = m.index /\ t.intr = m.intr \cup {"SI"}
    BY <1>0, SiIsEvent DEF Machine
  <2> HIDE DEF t
  <2>3. StateOK(m') /\ m'.queued = m.queued /\ "SI" \in m'.intr
    BY <2>1, <2>2, SameCounts, CheckKeeps
  <2>4. /\ q \in Si /\ q.interrupt /\ q.dropped = c.dropped
        /\ q.abandoned = c.abandoned /\ q.dma_busy = c.dma_busy
        /\ q.ram = c.ram /\ q.control = c.control
        /\ q.cic_challenge = c.cic_challenge /\ q.poked = c.poked
    BY <1>0 DEF Si
  <2> HIDE DEF q
  <2>5. PifOK(q)
    BY <2>4 DEF PifOK
  <2>6. Agree(m', q)
    BY <2>3, <2>4 DEF Agree, BusyOwed
  <2> QED BY <2>1, <2>3, <2>5, <2>6 DEF SiInv
<1> QED BY <1>1, <1>2

-----------------------------------------------------------------------------
(* The steps *)

\* A step of the rest of the machine.
LEMMA MachineStepOK ==
  ASSUME SiInv, UNCHANGED si, StateOK(m'),
         m'.queued["SI"] = m.queued["SI"],
         "SI" \in m'.intr <=> "SI" \in m.intr
  PROVE  SiInv'
BY DEF SiInv, Agree, BusyOwed

LEMMA SiInitOK == SiInit => SiInv
<1> SUFFICES ASSUME SiInit PROVE SiInv
  OBVIOUS
<1>1. StateOK(m)
  BY InitOK DEF SiInit, Inv
<1>2. m.intr = {}
  BY DEF SiInit, Init, PowerOn, RestartQueue
<1>3. /\ si \in Si /\ ~si.dma_busy /\ ~si.interrupt /\ si.ram = "zeros"
      /\ ~si.cic_challenge
  BY DEF SiInit, Si, RamContents, ControlBytes
<1> QED BY <1>1, <1>2, <1>3 DEF SiInv, PifOK, Agree, BusyOwed

LEMMA SiStepOK == SiInv /\ [SiNext]_siVars => SiInv'
<1> SUFFICES ASSUME SiInv, [SiNext]_siVars PROVE SiInv'
  OBVIOUS
<1>0. /\ StateOK(m) /\ m \in Machine /\ m.queued["SI"] \in Nat
      /\ PifOK(si) /\ si \in Si /\ Agree(m, si)
  BY SiIsEvent DEF SiInv, PifOK, StateOK, MachineOK, Machine
<1>1. CASE \E control \in ControlBytes : dma_si_write(control)
  <2>1. PICK control \in ControlBytes : dma_si_write(control)
    BY <1>1
  <2> DEFINE p == [si EXCEPT !.ram = "sent", !.control = control,
                             !.poked = FALSE]
  <2>2. /\ p \in Si /\ p.ram = "sent" /\ p.dma_busy = si.dma_busy
        /\ p.interrupt = si.interrupt /\ p.abandoned = si.abandoned
        /\ p.dropped = si.dropped
    BY <1>0 DEF Si, RamContents
  <2>3. EndOfTransfer(update_pif_write(p))
    BY <2>1 DEF dma_si_write
  <2> HIDE DEF p
  <2>4. PifOK(update_pif_write(p))
    BY <2>2, WriteOK
  <2>5. Agree(m, update_pif_write(p))
    BY <1>0, <2>2, WriteKeeps DEF Agree, BusyOwed
  <2> QED BY <1>0, <2>3, <2>4, <2>5, TransferOK
<1>2. CASE dma_si_read
  <2>1. Agree(m, update_pif_read(si))
    BY <1>0, ReadKeeps DEF Agree, BusyOwed
  <2> QED BY <1>0, <1>2, <2>1, ReadOK, TransferOK DEF dma_si_read
<1>3. CASE WriteSiStatus
  <2> DEFINE t == [m EXCEPT !.intr = @ \ {"SI"}]
  <2>1. m' = check_interrupt(t) /\ si' = [si EXCEPT !.interrupt = FALSE]
    BY <1>3 DEF WriteSiStatus, ClearLine, clear_rcp_interrupt
  <2>2. /\ t \in Machine /\ t.queued = m.queued /\ t.checks = m.checks
        /\ t.index = m.index /\ t.intr = m.intr \ {"SI"}
    BY <1>0 DEF Machine
  <2> HIDE DEF t
  <2>3. StateOK(m') /\ m'.queued = m.queued /\ "SI" \notin m'.intr
    BY <1>0, <2>1, <2>2, SameCounts, CheckKeeps
  <2>4. /\ si' \in Si /\ ~si'.interrupt /\ si'.dropped = si.dropped
        /\ si'.abandoned = si.abandoned /\ si'.dma_busy = si.dma_busy
        /\ si'.ram = si.ram /\ si'.control = si.control
        /\ si'.cic_challenge = si.cic_challenge /\ si'.poked = si.poked
    BY <1>0, <2>1 DEF Si
  <2>5. PifOK(si')
    BY <1>0, <2>4 DEF PifOK
  <2>6. Agree(m', si')
    BY <1>0, <2>3, <2>4 DEF Agree, BusyOwed
  <2> QED BY <2>3, <2>5, <2>6 DEF SiInv
<1>4. CASE write_pif_ram
  <2> DEFINE p == [si EXCEPT !.poked = TRUE]
  <2>1. /\ p \in Si /\ p.poked /\ p.ram = si.ram /\ p.control = si.control
        /\ p.dma_busy = si.dma_busy /\ p.interrupt = si.interrupt
        /\ p.abandoned = si.abandoned /\ p.dropped = si.dropped
        /\ p.cic_challenge = si.cic_challenge
    BY <1>0 DEF Si
  <2>2. \/ /\ p.control = "8" /\ m' = add_interrupt_event(m, "SI")
           /\ si' = [p EXCEPT !.control = "0"]
        \/ si' = update_pif_write(p) /\ UNCHANGED m
    BY <1>4 DEF write_pif_ram
  <2> HIDE DEF p
  <2>3. CASE /\ p.control = "8" /\ m' = add_interrupt_event(m, "SI")
             /\ si' = [p EXCEPT !.control = "0"]
    <3>1. /\ StateOK(m') /\ m'.intr = m.intr
          /\ m'.queued["SI"] >= m.queued["SI"] /\ m'.queued["SI"] \in Nat
      BY <1>0, <2>3, AddEventOK, AddKeeps, SiIsEvent
    <3>2. /\ si' \in Si /\ si'.ram = p.ram /\ si'.control = "0"
          /\ si'.cic_challenge = p.cic_challenge /\ si'.poked
          /\ si'.dma_busy = p.dma_busy /\ si'.interrupt = p.interrupt
          /\ si'.abandoned = p.abandoned /\ si'.dropped = p.dropped
      BY <2>1, <2>3 DEF Si, ControlBytes
    <3>3. PifOK(si')
      BY <1>0, <2>1, <3>2 DEF PifOK
    <3>4. Agree(m', si')
      BY <1>0, <2>1, <3>1, <3>2 DEF Agree, BusyOwed
    <3> QED BY <3>1, <3>3, <3>4 DEF SiInv
  <2>4. CASE si' = update_pif_write(p) /\ UNCHANGED m
    <3>1. PifOK(si')
      BY <1>0, <2>1, <2>4, WriteOK DEF PifOK
    <3>2. Agree(m, si')
      BY <1>0, <2>1, <2>4, WriteKeeps DEF Agree, BusyOwed
    <3> QED BY <1>0, <2>4, <3>1, <3>2 DEF SiInv
  <2> QED BY <2>2, <2>3, <2>4
<1>5. CASE si_end_of_dma_event
  <2>1. /\ "SI" \in Due(m) /\ m' \in Dispatch(m, "SI")
        /\ si' = [si EXCEPT !.control = "0", !.dma_busy = FALSE,
                            !.interrupt = TRUE, !.abandoned = FALSE]
    BY <1>5 DEF si_end_of_dma_event, TakeEvent
  <2>2. StateOK(m') /\ "SI" \in m'.intr
    BY <1>0, <2>1, DispatchOK, DispatchKeeps
  <2>3. /\ si' \in Si /\ si'.ram = si.ram /\ si'.control = "0"
        /\ si'.cic_challenge = si.cic_challenge /\ si'.poked = si.poked
        /\ ~si'.dma_busy /\ si'.interrupt
    BY <1>0, <2>1 DEF Si, ControlBytes
  <2>4. PifOK(si')
    BY <1>0, <2>3 DEF PifOK
  <2> QED BY <2>2, <2>3, <2>4 DEF SiInv, Agree, BusyOwed
<1>6. CASE SiOtherEvent
  <2>1. PICK e \in {"CHECK"} \cup (Events \ {"SI", "NMI"}) : TakeEvent(e)
    BY <1>6 DEF SiOtherEvent
  <2>2. e # "NMI" /\ e # "SI" /\ e \in Due(m) /\ m' \in Dispatch(m, e)
    BY <2>1 DEF TakeEvent
  <2>3. StateOK(m')
    BY <1>0, <2>2, DispatchOK
  <2>4. /\ m'.queued["SI"] = m.queued["SI"]
        /\ "SI" \in m'.intr <=> "SI" \in m.intr
    BY <1>0, <2>2, DispatchKeeps, SiIsEvent
  <2> QED BY <1>6, <2>3, <2>4, MachineStepOK DEF SiOtherEvent
<1>7. CASE SiCpu
  <2>1. StateOK(m') /\ m'.queued["SI"] = m.queued["SI"] /\ m'.intr = m.intr
    <3>1. ASSUME NEW t \in Machine, t.queued = m.queued, t.checks = m.checks,
                 t.index = m.index, t.intr = m.intr,
                 m' = Settle(check_interrupt(t))
          PROVE  StateOK(m') /\ m'.queued = m.queued /\ m'.intr = m.intr
      BY <1>0, <3>1, SameCounts, CheckKeeps, SettleOK
    <3>2. CASE \E v \in StatusValues :
                 m' = Settle(check_interrupt([m EXCEPT !.status = v]))
      <4>1. PICK v \in StatusValues :
              m' = Settle(check_interrupt([m EXCEPT !.status = v]))
        BY <3>2
      <4> DEFINE t == [m EXCEPT !.status = v]
      <4>2. /\ t \in Machine /\ t.queued = m.queued /\ t.checks = m.checks
            /\ t.index = m.index /\ t.intr = m.intr
        BY <1>0, ConstantsAssumption DEF Machine
      <4>3. m' = Settle(check_interrupt(t))
        BY <4>1
      <4> HIDE DEF t
      <4> QED BY <3>1, <4>2, <4>3
    <3>3. CASE m' = Settle(check_interrupt(update_mi_intr_mask(m, {}, {"SI"})))
      <4> DEFINE t == update_mi_intr_mask(m, {}, {"SI"})
      <4>1. /\ t \in Machine /\ t.queued = m.queued /\ t.checks = m.checks
            /\ t.index = m.index /\ t.intr = m.intr
        BY <1>0, SiIsEvent DEF Machine, update_mi_intr_mask
      <4>2. m' = Settle(check_interrupt(t))
        BY <3>3
      <4> HIDE DEF t
      <4> QED BY <3>1, <4>1, <4>2
    <3>4. CASE reset_soft
      <4> DEFINE a == add_interrupt_event(m, "HW2")
      <4>1. "HW2" \in Events /\ "NMI" \in Events
        BY DEF Events, Internal
      <4>2. /\ StateOK(a) /\ a \in Machine /\ a.intr = m.intr
            /\ a.queued["SI"] = m.queued["SI"]
        BY <1>0, <4>1, AddEventOK, AddKeeps, SiIsEvent
      <4>3. m' = add_interrupt_event(a, "NMI")
        BY <3>4 DEF reset_soft
      <4> HIDE DEF a
      <4> QED BY <4>1, <4>2, <4>3, AddEventOK, AddKeeps, SiIsEvent
    <3>5. CASE reset_hard
      <4>1. Inv'
        BY <1>0, <3>5, ResetHardOK DEF Inv
      <4> QED BY <1>0, <3>5, <4>1 DEF reset_hard, Inv, Machine
    <3> QED BY <1>7, <3>2, <3>3, <3>4, <3>5 DEF SiCpu
  <2> QED BY <1>7, <2>1, MachineStepOK DEF SiCpu
<1>8. CASE SiNmi
  <2>1. /\ "NMI" \in Due(m) /\ m' \in Dispatch(m, "NMI")
        /\ si' = [si EXCEPT !.abandoned = @ \/ si.dma_busy]
    BY <1>8 DEF SiNmi, TakeEvent
  <2>2. StateOK(m')
    BY <1>0, <2>1, DispatchOK
  <2>3. "SI" \in m'.intr <=> "SI" \in m.intr
    BY <1>0, <2>1, NmiKeeps
  <2>4. /\ si' \in Si /\ si'.ram = si.ram /\ si'.control = si.control
        /\ si'.cic_challenge = si.cic_challenge /\ si'.poked = si.poked
        /\ si'.interrupt = si.interrupt /\ si'.dma_busy = si.dma_busy
        /\ si'.dma_busy => si'.abandoned
    BY <1>0, <2>1 DEF Si
  <2>5. PifOK(si')
    BY <1>0, <2>4 DEF PifOK
  <2>6. Agree(m', si')
    BY <1>0, <2>3, <2>4 DEF Agree, BusyOwed
  <2> QED BY <2>2, <2>5, <2>6 DEF SiInv
<1>9. CASE SiHardReset
  <2>1. StateOK(m') /\ m'.intr = {}
    BY <1>9, PowerOnOK DEF SiHardReset, PowerOn, RestartQueue
  <2>2. /\ si' \in Si /\ ~si'.dma_busy /\ ~si'.interrupt /\ si'.ram = "zeros"
    BY <1>0, <1>9 DEF SiHardReset, PoweredOn, Si, RamContents, ControlBytes
  <2> QED BY <2>1, <2>2 DEF SiInv, PifOK, Agree, BusyOwed
<1>10. CASE UNCHANGED siVars
  BY <1>10 DEF siVars, SiInv
<1> QED
  BY <1>1, <1>2, <1>3, <1>4, <1>5, <1>6, <1>7, <1>8, <1>9, <1>10 DEF SiNext

LEMMA SiInvariance == SiSpec => []SiInv
BY SiInitOK, SiStepOK, PTL DEF SiSpec

\* SI_STATUS agrees with MI_INTR, and says busy only while its SI_INT is queued,
\* through DMAs in both modes, acknowledgements, both resets and a full queue
\* (dma_si_write, dma_si_read, si_end_of_dma_event).
THEOREM SiStatusTrueAlways == SiSpec => []SiStatusTrue
<1>1. SiInv => SiStatusTrue
  BY DEF SiInv, StateOK, MachineOK, TypeOK, PifOK, Agree, BusyOwed,
         SiStatusTrue, SiTypeOK
<1> QED BY <1>1, SiInvariance, PTL

\* The answer to a CIC challenge is never processed as commands before the
\* guest sends something else or pokes PIF RAM (update_pif_read,
\* update_pif_write).
THEOREM ResponseIntactAlways == SiSpec => []ResponseIntact
<1>1. SiInv => ResponseIntact
  BY DEF SiInv, PifOK, ResponseIntact
<1> QED BY <1>1, SiInvariance, PTL

-----------------------------------------------------------------------------
(* PIF RAM: where the items of a frame lie *)

LEMMA BeforeFinite ==
  ASSUME NEW its, NEW k \in Nat, NEW kinds
  PROVE  IsFiniteSet(Before(its, k, kinds)) /\ Cardinality(Before(its, k, kinds)) \in Nat
<1>1. IsFiniteSet(1 .. k - 1)
  BY FS_Interval
<1>2. Before(its, k, kinds) \subseteq 1 .. k - 1
  BY DEF Before
<1> QED BY <1>1, <1>2, FS_Subset, FS_CardinalityType

\* One more item, or none.
LEMMA BeforeNext ==
  ASSUME NEW its, NEW k \in Nat \ {0}, NEW kinds
  PROVE  /\ its[k] \in kinds =>
              Cardinality(Before(its, k + 1, kinds)) = Cardinality(Before(its, k, kinds)) + 1
         /\ its[k] \notin kinds =>
              Cardinality(Before(its, k + 1, kinds)) = Cardinality(Before(its, k, kinds))
<1>1. \A j \in Int : j \in 1 .. (k + 1) - 1 <=> j \in 1 .. k - 1 \/ j = k
  OBVIOUS
<1>2. k \notin Before(its, k, kinds)
  BY DEF Before
<1>3. CASE its[k] \in kinds
  <2>1. Before(its, k + 1, kinds) = Before(its, k, kinds) \cup {k}
    BY <1>1, <1>3 DEF Before
  <2>2. Cardinality(Before(its, k, kinds) \cup {k}) = Cardinality(Before(its, k, kinds)) + 1
    BY <1>2, BeforeFinite, FS_AddElement
  <2> QED BY <1>3, <2>1, <2>2
<1>4. CASE its[k] \notin kinds
  <2>1. Before(its, k + 1, kinds) = Before(its, k, kinds)
    BY <1>1, <1>4 DEF Before
  <2> QED BY <1>4, <2>1
<1> QED BY <1>3, <1>4

LEMMA BeforeGrows ==
  ASSUME NEW its, NEW j \in Nat, NEW k \in Nat, j <= k, NEW kinds
  PROVE  Cardinality(Before(its, j, kinds)) <= Cardinality(Before(its, k, kinds))
<1>1. Before(its, j, kinds) \subseteq Before(its, k, kinds)
  BY DEF Before
<1> QED BY <1>1, BeforeFinite, FS_Subset

LEMMA BeforeFirst == ASSUME NEW its, NEW kinds PROVE Cardinality(Before(its, 1, kinds)) = 0
<1>1. Before(its, 1, kinds) = {}
  BY DEF Before
<1> QED BY <1>1, FS_EmptySet

LEMMA OffsetType ==
  ASSUME NEW its, NEW k \in Nat PROVE OffsetOf(its, k) \in Nat
<1> DEFINE x == Cardinality(Before(its, k, {"skip", "nop", "end"}))
           y == Cardinality(Before(its, k, {"status"}))
           z == Cardinality(Before(its, k, {"read"}))
<1>1. x \in Nat /\ y \in Nat /\ z \in Nat
  BY BeforeFinite
<1>2. OffsetOf(its, k) = x + 6 * y + 7 * z
  BY DEF OffsetOf
<1> HIDE DEF x, y, z
<1> QED BY <1>1, <1>2

LEMMA OffsetFirst == ASSUME NEW its PROVE OffsetOf(its, 1) = 0
BY BeforeFirst DEF OffsetOf

LEMMA SizeOK ==
  ASSUME NEW item \in FrameItems
  PROVE  /\ item \in {"skip", "nop", "end"} => Size(item) = 1
         /\ item = "status" => Size(item) = 6
         /\ item = "read" => Size(item) = 7
         /\ Size(item) \in Nat /\ Size(item) >= 1
BY DEF Size, FrameItems

LEMMA OffsetNext ==
  ASSUME NEW its, NEW k \in Nat \ {0}, its[k] \in FrameItems
  PROVE  OffsetOf(its, k + 1) = OffsetOf(its, k) + Size(its[k])
<1> DEFINE x(p) == Cardinality(Before(its, p, {"skip", "nop", "end"}))
           y(p) == Cardinality(Before(its, p, {"status"}))
           z(p) == Cardinality(Before(its, p, {"read"}))
<1>1. /\ x(k) \in Nat /\ y(k) \in Nat /\ z(k) \in Nat
      /\ its[k] \in {"skip", "nop", "end"} => x(k + 1) = x(k) + 1
      /\ its[k] \notin {"skip", "nop", "end"} => x(k + 1) = x(k)
      /\ its[k] \in {"status"} => y(k + 1) = y(k) + 1
      /\ its[k] \notin {"status"} => y(k + 1) = y(k)
      /\ its[k] \in {"read"} => z(k + 1) = z(k) + 1
      /\ its[k] \notin {"read"} => z(k + 1) = z(k)
  BY BeforeFinite, BeforeNext
<1>2. /\ OffsetOf(its, k + 1) = x(k + 1) + 6 * y(k + 1) + 7 * z(k + 1)
      /\ OffsetOf(its, k) = x(k) + 6 * y(k) + 7 * z(k)
  BY DEF OffsetOf
<1> HIDE DEF x, y, z
<1>3. CASE its[k] \in {"skip", "nop", "end"}
  <2>1. x(k + 1) = x(k) + 1 /\ y(k + 1) = y(k) /\ z(k + 1) = z(k) /\ Size(its[k]) = 1
    BY <1>1, <1>3, SizeOK
  <2> QED BY <1>1, <1>2, <2>1
<1>4. CASE its[k] = "status"
  <2>1. x(k + 1) = x(k) /\ y(k + 1) = y(k) + 1 /\ z(k + 1) = z(k) /\ Size(its[k]) = 6
    BY <1>1, <1>4, SizeOK
  <2> QED BY <1>1, <1>2, <2>1
<1>5. CASE its[k] = "read"
  <2>1. x(k + 1) = x(k) /\ y(k + 1) = y(k) /\ z(k + 1) = z(k) + 1 /\ Size(its[k]) = 7
    BY <1>1, <1>5, SizeOK
  <2> QED BY <1>1, <1>2, <2>1
<1> QED BY <1>3, <1>4, <1>5 DEF FrameItems

LEMMA OffsetGrows ==
  ASSUME NEW its, NEW j \in Nat, NEW k \in Nat, j <= k
  PROVE  OffsetOf(its, j) <= OffsetOf(its, k)
<1> DEFINE x(p) == Cardinality(Before(its, p, {"skip", "nop", "end"}))
           y(p) == Cardinality(Before(its, p, {"status"}))
           z(p) == Cardinality(Before(its, p, {"read"}))
<1>1. x(j) \in Nat /\ y(j) \in Nat /\ z(j) \in Nat /\ x(k) \in Nat /\ y(k) \in Nat /\ z(k) \in Nat
  BY BeforeFinite
<1>2. x(j) <= x(k) /\ y(j) <= y(k) /\ z(j) <= z(k)
  BY BeforeGrows
<1>3. /\ OffsetOf(its, j) = x(j) + 6 * y(j) + 7 * z(j)
      /\ OffsetOf(its, k) = x(k) + 6 * y(k) + 7 * z(k)
  BY DEF OffsetOf
<1> HIDE DEF x, y, z
<1> QED BY <1>1, <1>2, <1>3

\* Two items do not overlap, and none reaches behind the last one.
LEMMA ItemsApart ==
  ASSUME NEW its \in Seq(FrameItems), NEW j \in 1 .. Len(its), NEW k \in Nat, j < k
  PROVE  /\ OffsetOf(its, j) \in Nat /\ OffsetOf(its, k) \in Nat
         /\ Size(its[j]) \in Nat /\ Size(its[j]) >= 1
         /\ OffsetOf(its, j) + Size(its[j]) <= OffsetOf(its, k)
<1>1. its[j] \in FrameItems /\ j \in Nat \ {0} /\ j + 1 \in Nat /\ j + 1 <= k
  OBVIOUS
<1>2. OffsetOf(its, j + 1) = OffsetOf(its, j) + Size(its[j])
  BY <1>1, OffsetNext
<1>3. OffsetOf(its, j + 1) <= OffsetOf(its, k)
  BY <1>1, OffsetGrows
<1> QED BY <1>1, <1>2, <1>3, OffsetType, SizeOK

\* The bytes of an item, and those behind the last one.
LEMMA ByteOf ==
  ASSUME NEW its \in Seq(FrameItems), NEW k \in 1 .. Len(its), NEW fill,
         NEW a \in 0 .. RAM_SIZE - 1, a - OffsetOf(its, k) \in 0 .. Size(its[k]) - 1
  PROVE  Frame(its, fill)[a] = ItemBytes(its[k], fill)[a - OffsetOf(its, k) + 1]
<1> DEFINE over == {j \in 1 .. Len(its) : a - OffsetOf(its, j) \in 0 .. Size(its[j]) - 1}
           item == CHOOSE j \in over : TRUE
<1>1. over = {k}
  <2>1. k \in over
    OBVIOUS
  <2>2. ASSUME NEW j \in over, j # k PROVE FALSE
    <3>1. CASE j < k
      <4>1. OffsetOf(its, j) + Size(its[j]) <= OffsetOf(its, k) /\ k \in Nat
        BY <3>1, ItemsApart
      <4>2. a - OffsetOf(its, j) <= Size(its[j]) - 1 /\ a - OffsetOf(its, k) >= 0
        BY <2>2
      <4>3. a \in Int /\ OffsetOf(its, j) \in Nat /\ OffsetOf(its, k) \in Nat /\ Size(its[j]) \in Nat
        BY <3>1, ItemsApart, PifAssumption DEF PifAssumption
      <4> QED BY <4>1, <4>2, <4>3
    <3>2. CASE k < j
      <4>1. OffsetOf(its, k) + Size(its[k]) <= OffsetOf(its, j) /\ j \in Nat
        BY <3>2, ItemsApart
      <4>2. a - OffsetOf(its, k) <= Size(its[k]) - 1 /\ a - OffsetOf(its, j) >= 0
        BY <2>2
      <4>3. a \in Int /\ OffsetOf(its, j) \in Nat /\ OffsetOf(its, k) \in Nat /\ Size(its[k]) \in Nat
        BY <3>2, ItemsApart, PifAssumption DEF PifAssumption
      <4> QED BY <4>1, <4>2, <4>3
    <3> QED BY <2>2, <3>1, <3>2
  <2> QED BY <2>1, <2>2
<1>2. Frame(its, fill)[a] =
        IF over = {} THEN 254 ELSE ItemBytes(its[item], fill)[a - OffsetOf(its, item) + 1]
  BY DEF Frame
<1> HIDE DEF over
<1>3. item = k
  BY <1>1
<1> HIDE DEF item
<1> QED BY <1>1, <1>2, <1>3

LEMMA ByteBehind ==
  ASSUME NEW its \in Seq(FrameItems), NEW fill, NEW a \in 0 .. RAM_SIZE - 1,
         a >= OffsetOf(its, Len(its) + 1)
  PROVE  Frame(its, fill)[a] = 254
<1> DEFINE over == {j \in 1 .. Len(its) : a - OffsetOf(its, j) \in 0 .. Size(its[j]) - 1}
<1>1. ASSUME NEW j \in over PROVE FALSE
  <2>1. Len(its) + 1 \in Nat /\ j < Len(its) + 1
    OBVIOUS
  <2> DEFINE e == OffsetOf(its, Len(its) + 1)
  <2>2. OffsetOf(its, j) + Size(its[j]) <= e /\ OffsetOf(its, j) \in Nat
        /\ e \in Nat /\ Size(its[j]) \in Nat
    BY <2>1, ItemsApart
  <2>3. a - OffsetOf(its, j) <= Size(its[j]) - 1 /\ a \in Int /\ a >= e
    BY PifAssumption DEF PifAssumption
  <2> HIDE DEF e
  <2> QED BY <2>2, <2>3
<1>2. over = {}
  BY <1>1
<1>3. Frame(its, fill)[a] = IF over = {} THEN 254 ELSE
        ItemBytes(its[CHOOSE j \in over : TRUE], fill)[a - OffsetOf(its, CHOOSE j \in over : TRUE) + 1]
  BY DEF Frame
<1> HIDE DEF over
<1> QED BY <1>2, <1>3

-----------------------------------------------------------------------------
(* PIF RAM: what a walk may change *)

\* An item at o in f: its kind can be told, and the length of its answer.
ItemIn(f, o, item) ==
  /\ item = "skip" => f[o] = 0
  /\ item = "nop" => f[o] = 255
  /\ item = "end" => f[o] = 254
  /\ item \in {"status", "read"} =>
       /\ f[o] = 1 /\ f[o + 2] = Code(item)
       /\ f[o + 1] \in {Size(item) - 3, Size(item) + 125}

Bytes255 == [0 .. RAM_SIZE - 1 -> 0 .. 255]

\* The frame of its is in f, but for the answers and the error bits.
Holds(f, its) ==
  /\ f \in Bytes255 /\ its \in Seq(FrameItems)
  /\ OffsetOf(its, Len(its) + 1) <= RAM_SIZE
  /\ \A k \in 1 .. Len(its) : ItemIn(f, OffsetOf(its, k), its[k])
  /\ OffsetOf(its, Len(its) + 1) < RAM_SIZE => f[OffsetOf(its, Len(its) + 1)] = 254
  /\ \A a \in 0 .. RAM_SIZE - 1 :
       \/ Frame(its, -1)[a] = -1
       \/ f[a] \in {Frame(its, -1)[a], Frame(its, -1)[a] + 128}

\* g is f after a command at o: an error bit or an answer was stored.
Answered(f, g, o, item) ==
  /\ g \in Bytes255
  /\ \A a \in 0 .. RAM_SIZE - 1 :
       \/ g[a] = f[a]
       \/ a = o + 1 /\ g[a] = Size(item) + 125
       \/ a \in o + 3 .. o + Size(item) - 1

LEMMA ItemBytesOK ==
  ASSUME NEW item \in FrameItems, NEW fill
  PROVE  /\ item = "skip" => ItemBytes(item, fill)[1] = 0
         /\ item = "nop" => ItemBytes(item, fill)[1] = 255
         /\ item = "end" => ItemBytes(item, fill)[1] = 254
         /\ item \in {"status", "read"} =>
              /\ ItemBytes(item, fill)[1] = 1 /\ ItemBytes(item, fill)[2] = Size(item) - 3
              /\ ItemBytes(item, fill)[3] = Code(item)
              /\ \A d \in 3 .. Size(item) - 1 : ItemBytes(item, fill)[d + 1] = fill
<1>1. CASE item \in {"skip", "nop", "end"}
  BY <1>1 DEF ItemBytes
<1>2. CASE item = "status"
  <2>1. ItemBytes(item, fill) = <<1, 3, 0, fill, fill, fill>> /\ Size(item) = 6 /\ Code(item) = 0
    BY <1>2 DEF ItemBytes, Size, Code
  <2>2. \A d \in 3 .. 5 : d = 3 \/ d = 4 \/ d = 5
    OBVIOUS
  <2> QED BY <1>2, <2>1, <2>2
<1>3. CASE item = "read"
  <2>1. ItemBytes(item, fill) = <<1, 4, 1, fill, fill, fill, fill>> /\ Size(item) = 7
        /\ Code(item) = 1
    BY <1>3 DEF ItemBytes, Size, Code
  <2>2. \A d \in 3 .. 6 : d = 3 \/ d = 4 \/ d = 5 \/ d = 6
    OBVIOUS
  <2> QED BY <1>3, <2>1, <2>2
<1> QED BY <1>1, <1>2, <1>3 DEF FrameItems

\* Every byte of an item, with two fillings.
LEMMA FillOnly ==
  ASSUME NEW item \in FrameItems, NEW fill, NEW d \in 0 .. Size(item) - 1,
         fill \in 0 .. 255
  PROVE  /\ ItemBytes(item, -1)[d + 1] \in {-1, ItemBytes(item, fill)[d + 1]}
         /\ ItemBytes(item, fill)[d + 1] \in 0 .. 255
<1>1. CASE item \in {"skip", "nop", "end"}
  <2>1. d = 0
    BY <1>1, SizeOK
  <2> QED BY <1>1, <2>1 DEF ItemBytes
<1>2. CASE item \in {"status", "read"}
  <2>1. Size(item) \in {6, 7} /\ Code(item) \in {0, 1}
    BY <1>2 DEF Size, Code
  <2>2. CASE d \in 3 .. Size(item) - 1
    BY <1>2, <2>2, ItemBytesOK
  <2>3. CASE d \notin 3 .. Size(item) - 1
    <3>1. d = 0 \/ d = 1 \/ d = 2
      BY <2>1, <2>3
    <3> QED BY <1>2, <2>1, <3>1, ItemBytesOK
  <2> QED BY <2>2, <2>3
<1> QED BY <1>1, <1>2 DEF FrameItems

\* The addresses of the k-th item are in PIF RAM.
LEMMA ItemInside ==
  ASSUME NEW its \in Seq(FrameItems), NEW k \in 1 .. Len(its),
         OffsetOf(its, Len(its) + 1) <= RAM_SIZE
  PROVE  /\ OffsetOf(its, k) \in Nat /\ Size(its[k]) \in Nat /\ its[k] \in FrameItems
         /\ \A d \in 0 .. Size(its[k]) - 1 : OffsetOf(its, k) + d \in 0 .. RAM_SIZE - 1
<1> DEFINE e == OffsetOf(its, Len(its) + 1)
           o == OffsetOf(its, k)
           z == Size(its[k])
<1>1. Len(its) + 1 \in Nat /\ k < Len(its) + 1 /\ its[k] \in FrameItems
  OBVIOUS
<1>2. o + z <= e /\ e \in Nat /\ o \in Nat /\ z \in Nat
  BY <1>1, ItemsApart
<1>3. e <= RAM_SIZE /\ RAM_SIZE \in Nat
  BY PifAssumption DEF PifAssumption
<1> HIDE DEF e, o, z
<1>4. \A d \in 0 .. z - 1 : o + d \in 0 .. RAM_SIZE - 1
  BY <1>2, <1>3
<1> QED BY <1>1, <1>2, <1>4 DEF o, z

LEMMA FrameByte ==
  ASSUME NEW its \in Seq(FrameItems), NEW k \in 1 .. Len(its), NEW fill,
         OffsetOf(its, Len(its) + 1) <= RAM_SIZE, NEW d \in 0 .. Size(its[k]) - 1
  PROVE  /\ OffsetOf(its, k) + d \in 0 .. RAM_SIZE - 1
         /\ Frame(its, fill)[OffsetOf(its, k) + d] = ItemBytes(its[k], fill)[d + 1]
<1> DEFINE o == OffsetOf(its, k)
           a == o + d
<1>1. o \in Nat /\ Size(its[k]) \in Nat /\ a \in 0 .. RAM_SIZE - 1
  BY ItemInside
<1>2. a - o = d /\ d \in 0 .. Size(its[k]) - 1
  BY <1>1
<1> HIDE DEF a
<1>3. Frame(its, fill)[a] = ItemBytes(its[k], fill)[a - o + 1]
  BY <1>1, <1>2, ByteOf
<1> QED BY <1>1, <1>2, <1>3 DEF a

\* Behind the items.
LEMMA FrameElsewhere ==
  ASSUME NEW its, NEW a \in 0 .. RAM_SIZE - 1, NEW fill,
         {j \in 1 .. Len(its) : a - OffsetOf(its, j) \in 0 .. Size(its[j]) - 1} = {}
  PROVE  Frame(its, fill)[a] = 254
BY DEF Frame

\* The guest's own frame.
LEMMA FrameHolds ==
  ASSUME NEW its \in Seq(FrameItems), OffsetOf(its, Len(its) + 1) <= RAM_SIZE,
         NEW fill \in 0 .. 255
  PROVE  Holds(Frame(its, fill), its)
<1> DEFINE f == Frame(its, fill)
           t == Frame(its, -1)
           e == OffsetOf(its, Len(its) + 1)
<1>1. RAM_SIZE \in Nat /\ e \in Nat
  BY OffsetType, PifAssumption DEF PifAssumption
<1>2. ASSUME NEW a \in 0 .. RAM_SIZE - 1 PROVE f[a] \in 0 .. 255 /\ t[a] \in {-1, f[a]}
  <2> DEFINE over == {j \in 1 .. Len(its) : a - OffsetOf(its, j) \in 0 .. Size(its[j]) - 1}
  <2>1. CASE over = {}
    <3>1. f[a] = 254 /\ t[a] = 254
      BY <2>1, FrameElsewhere
    <3> HIDE DEF f, t
    <3> QED BY <3>1
  <2>2. CASE over # {}
    <3>1. PICK k \in 1 .. Len(its) : a - OffsetOf(its, k) \in 0 .. Size(its[k]) - 1
      BY <2>2
    <3> DEFINE d == a - OffsetOf(its, k)
               item == its[k]
    <3>2. f[a] = ItemBytes(item, fill)[d + 1] /\ t[a] = ItemBytes(item, -1)[d + 1]
      BY <3>1, ByteOf
    <3>3. item \in FrameItems /\ d \in 0 .. Size(item) - 1
      BY <3>1
    <3> HIDE DEF d, item, f, t
    <3>4. /\ ItemBytes(item, -1)[d + 1] \in {-1, ItemBytes(item, fill)[d + 1]}
          /\ ItemBytes(item, fill)[d + 1] \in 0 .. 255
      BY <3>3, FillOnly
    <3> QED BY <3>2, <3>4
  <2> QED BY <2>1, <2>2
<1>3. f \in Bytes255
  <2>1. f = [a \in 0 .. RAM_SIZE - 1 |-> f[a]]
    BY DEF Frame
  <2> HIDE DEF f
  <2> QED BY <1>2, <2>1 DEF Bytes255
<1>4. ASSUME NEW k \in 1 .. Len(its) PROVE ItemIn(f, OffsetOf(its, k), its[k])
  <2> DEFINE o == OffsetOf(its, k)
             item == its[k]
  <2>1. item \in FrameItems /\ o \in Nat
    BY ItemInside
  <2>2. \A d \in 0 .. Size(item) - 1 : f[o + d] = ItemBytes(item, fill)[d + 1]
    BY FrameByte
  <2> HIDE DEF f, item, o
  <2>3. CASE item \in {"skip", "nop", "end"}
    <3>1. 0 \in 0 .. Size(item) - 1 /\ o + 0 = o
      BY <2>1, <2>3, SizeOK
    <3>2. f[o] = ItemBytes(item, fill)[1]
      BY <2>2, <3>1
    <3> QED BY <2>1, <2>3, <3>2, ItemBytesOK DEF ItemIn, item, o
  <2>4. CASE item \in {"status", "read"}
    <3>1. 0 \in 0 .. Size(item) - 1 /\ 1 \in 0 .. Size(item) - 1 /\ 2 \in 0 .. Size(item) - 1
          /\ o + 0 = o
      BY <2>1, <2>4, SizeOK
    <3>2. /\ f[o] = ItemBytes(item, fill)[1] /\ f[o + 1] = ItemBytes(item, fill)[2]
          /\ f[o + 2] = ItemBytes(item, fill)[3]
      BY <2>2, <3>1
    <3> QED BY <2>1, <2>4, <3>2, ItemBytesOK DEF ItemIn, item, o
  <2> QED BY <2>1, <2>3, <2>4 DEF FrameItems
<1>5. e < RAM_SIZE => f[e] = 254
  <2>1. e < RAM_SIZE => e \in 0 .. RAM_SIZE - 1 /\ e >= e
    BY <1>1
  <2> QED BY <2>1, ByteBehind
<1>6. \A a \in 0 .. RAM_SIZE - 1 : t[a] = -1 \/ f[a] \in {t[a], t[a] + 128}
  BY <1>2
<1> HIDE DEF f, t, e
<1>7. Holds(f, its)
  BY <1>3, <1>4, <1>5, <1>6 DEF Holds, e, t
<1> QED BY <1>7 DEF f

\* What a command stores leaves the frame in place.
LEMMA AnsweredHolds ==
  ASSUME NEW f, NEW its, Holds(f, its), NEW k \in 1 .. Len(its),
         its[k] \in {"status", "read"}, NEW g, Answered(f, g, OffsetOf(its, k), its[k])
  PROVE  Holds(g, its)
<1> DEFINE o == OffsetOf(its, k)
           z == Size(its[k])
           e == OffsetOf(its, Len(its) + 1)
           t == Frame(its, -1)
<1>1. /\ its \in Seq(FrameItems) /\ e <= RAM_SIZE /\ RAM_SIZE \in Nat
      /\ its[k] \in FrameItems /\ o \in Nat /\ z \in {6, 7} /\ e \in Nat
  <2>1. z \in {6, 7}
    BY DEF Size
  <2> QED BY <2>1, ItemInside, OffsetType, PifAssumption DEF Holds, PifAssumption, FrameItems
<1>2. \A a \in 0 .. RAM_SIZE - 1 :
        g[a] = f[a] \/ (a = o + 1 /\ g[a] = z + 125) \/ a \in o + 3 .. o + z - 1
  BY DEF Answered
<1>3. \A a \in 0 .. RAM_SIZE - 1 : a < o \/ a >= o + z => g[a] = f[a]
  <2> HIDE DEF o, z
  <2> QED BY <1>1, <1>2
<1>4. ASSUME NEW j \in 1 .. Len(its) PROVE ItemIn(g, OffsetOf(its, j), its[j])
  <2> DEFINE p == OffsetOf(its, j)
             item == its[j]
  <2>1. ItemIn(f, p, item) /\ item \in FrameItems /\ p \in Nat
    BY <1>1, ItemInside DEF Holds
  <2>2. \A d \in 0 .. Size(item) - 1 : p + d \in 0 .. RAM_SIZE - 1
    BY <1>1, ItemInside
  <2>3. CASE j # k
    <3>1. \A d \in 0 .. Size(item) - 1 : p + d < o \/ p + d >= o + z
      <4>1. CASE j < k
        <5>1. p + Size(item) <= o /\ Size(item) \in Nat
          BY <1>1, <4>1, ItemsApart
        <5> HIDE DEF p, o, item
        <5> QED BY <1>1, <2>1, <5>1
      <4>2. CASE k < j
        <5>1. o + z <= p
          BY <1>1, <4>2, ItemsApart
        <5> HIDE DEF p, o, z, item
        <5> QED BY <1>1, <2>1, <5>1
      <4> QED BY <2>3, <4>1, <4>2
    <3> HIDE DEF p, o, z, item
    <3>2. \A d \in 0 .. Size(item) - 1 : g[p + d] = f[p + d]
      BY <1>3, <2>2, <3>1
    <3>3. 0 \in 0 .. Size(item) - 1 /\ p + 0 = p
      BY <2>1, SizeOK
    <3>4. item \in {"status", "read"} => 1 \in 0 .. Size(item) - 1 /\ 2 \in 0 .. Size(item) - 1
      BY <2>1, SizeOK
    <3>5. ItemIn(g, p, item)
      BY <2>1, <3>2, <3>3, <3>4 DEF ItemIn
    <3> QED BY <3>5 DEF p, item
  <2>4. CASE j = k
    <3>1. p = o /\ item = its[k] /\ Size(item) = z
      BY <2>4
    <3>2. o \in 0 .. RAM_SIZE - 1 /\ o + 1 \in 0 .. RAM_SIZE - 1 /\ o + 2 \in 0 .. RAM_SIZE - 1
      <4>1. 0 \in 0 .. z - 1 /\ 1 \in 0 .. z - 1 /\ 2 \in 0 .. z - 1 /\ o + 0 = o
        BY <1>1
      <4> HIDE DEF o, z, p, item
      <4> QED BY <2>2, <3>1, <4>1
    <3> HIDE DEF o, z
    <3>3. /\ f[o] = 1 /\ f[o + 2] = Code(its[k]) /\ f[o + 1] \in {z - 3, z + 125}
      BY <2>1, <3>1 DEF ItemIn
    <3>4. g[o] = f[o] /\ g[o + 2] = f[o + 2] /\ g[o + 1] \in {f[o + 1], z + 125}
      BY <1>1, <1>2, <3>2
    <3>5. ItemIn(g, o, its[k])
      BY <3>3, <3>4 DEF ItemIn, z
    <3> QED BY <2>4, <3>5 DEF o
  <2> QED BY <2>3, <2>4
<1>5. e < RAM_SIZE => g[e] = f[e] /\ f[e] = 254
  <2>1. o + z <= e
    <3>1. Len(its) + 1 \in Nat /\ k < Len(its) + 1
      BY <1>1
    <3> QED BY <1>1, <3>1, ItemsApart
  <2>2. e < RAM_SIZE => f[e] = 254
    BY DEF Holds
  <2> HIDE DEF o, e, z
  <2> QED BY <1>1, <1>3, <2>1, <2>2
<1>6. ASSUME NEW a \in 0 .. RAM_SIZE - 1 PROVE t[a] = -1 \/ g[a] \in {t[a], t[a] + 128}
  <2>1. CASE g[a] = f[a]
    BY <2>1 DEF Holds
  <2>2. CASE a = o + 1 /\ g[a] = z + 125
    <3>1. t[o + 1] = ItemBytes(its[k], -1)[1 + 1]
      <4>1. 1 \in 0 .. Size(its[k]) - 1
        BY <1>1
      <4> QED BY <1>1, <4>1, FrameByte
    <3>2. t[o + 1] = z - 3
      BY <1>1, <3>1, ItemBytesOK
    <3> HIDE DEF o, z, t
    <3> QED BY <1>1, <2>2, <3>2
  <2>3. CASE a \in o + 3 .. o + z - 1
    <3> DEFINE d == a - o
    <3>1. d \in 3 .. Size(its[k]) - 1 /\ d \in 0 .. Size(its[k]) - 1 /\ o + d = a
      <4> HIDE DEF o
      <4> QED BY <1>1, <2>3
    <3>2. t[o + d] = ItemBytes(its[k], -1)[d + 1]
      <4> HIDE DEF d
      <4> QED BY <1>1, <3>1, FrameByte
    <3>3. ItemBytes(its[k], -1)[d + 1] = -1
      <4> HIDE DEF d
      <4> QED BY <1>1, <3>1, ItemBytesOK
    <3> HIDE DEF d, o, t
    <3> QED BY <3>1, <3>2, <3>3
  <2> QED BY <1>2, <2>1, <2>2, <2>3
<1>7. g \in Bytes255
  BY DEF Answered
<1> QED BY <1>1, <1>4, <1>5, <1>6, <1>7 DEF Holds

-----------------------------------------------------------------------------
(* PIF RAM: the commands before an item *)

LEMMA ChannelNext ==
  ASSUME NEW k \in Nat \ {0}
  PROVE  /\ ChannelOf(k) \in Nat
         /\ items[k] \in {"skip", "status", "read"} => ChannelOf(k + 1) = ChannelOf(k) + 1
         /\ items[k] \notin {"skip", "status", "read"} => ChannelOf(k + 1) = ChannelOf(k)
BY BeforeFinite, BeforeNext DEF ChannelOf

LEMMA ChannelGrows ==
  ASSUME NEW j \in Nat, NEW k \in Nat, j <= k PROVE ChannelOf(j) <= ChannelOf(k)
BY BeforeGrows DEF ChannelOf

NoEndBefore(k) == \A l \in 1 .. k - 1 : items[l] # "end"

LEMMA ItemsNext ==
  ASSUME items \in Seq(FrameItems), NEW k \in 1 .. Len(items), NoEndBefore(k)
  PROVE  /\ items[k] \in {"status", "read"} => CommandItems(k) = CommandItems(k - 1) \cup {k}
         /\ items[k] \in {"skip", "nop"} => CommandItems(k) = CommandItems(k - 1)
         /\ items[k] = "end" => CommandItems(Len(items)) = CommandItems(k - 1)
<1>1. k \in Nat /\ Len(items) \in Nat /\ k <= Len(items) /\ k >= 1
  OBVIOUS
<1>2. \A j \in Int : j \in 1 .. k <=> j \in 1 .. k - 1 \/ j = k
  BY <1>1
<1>3. CASE items[k] \in {"status", "read"}
  <2>1. \A l \in 1 .. k : items[l] # "end"
    BY <1>2, <1>3 DEF NoEndBefore
  <2> QED BY <1>2, <1>3, <2>1 DEF CommandItems
<1>4. CASE items[k] \in {"skip", "nop"}
  BY <1>2, <1>4 DEF CommandItems
<1>5. CASE items[k] = "end"
  <2>1. ASSUME NEW j \in CommandItems(Len(items)) PROVE j \in CommandItems(k - 1)
    <3>1. j \in 1 .. Len(items) /\ \A l \in 1 .. j : items[l] # "end"
      BY DEF CommandItems
    <3>2. ~(k <= j)
      BY <1>1, <1>5, <3>1
    <3>3. j \in 1 .. k - 1
      BY <1>1, <3>1, <3>2
    <3> QED BY <3>3 DEF CommandItems
  <2>2. ASSUME NEW j \in CommandItems(k - 1) PROVE j \in CommandItems(Len(items))
    BY <1>1 DEF CommandItems
  <2> QED BY <1>5, <2>1, <2>2
<1> QED BY <1>1, <1>3, <1>4, <1>5

\* From an item on, all commands are for its channel or later ones.
LEMMA LaterChannels ==
  ASSUME items \in Seq(FrameItems), NEW k \in 1 .. Len(items), NEW last \in Nat,
         ChannelOf(k) > last
  PROVE  UpTo(last, JoybusCommands) = UpTo(last, CommandsIn(k - 1))
<1>1. k \in Nat /\ Len(items) \in Nat /\ k <= Len(items) /\ k >= 1
  OBVIOUS
<1>2. ASSUME NEW c \in UpTo(last, JoybusCommands) PROVE c \in UpTo(last, CommandsIn(k - 1))
  <2>1. c[1] <= last /\ c \in CommandsIn(Len(items))
    BY DEF UpTo, JoybusCommands
  <2>2. PICK j \in CommandItems(Len(items)) : c = <<ChannelOf(j), Code(items[j])>>
    BY <2>1 DEF CommandsIn
  <2>3. j \in 1 .. Len(items)
    BY DEF CommandItems
  <2>4. ~(k <= j)
    <3>1. SUFFICES ASSUME k <= j PROVE FALSE
      OBVIOUS
    <3>2. j \in Nat /\ ChannelOf(k) <= ChannelOf(j)
      BY <1>1, <2>3, <3>1, ChannelGrows
    <3>3. ChannelOf(k) \in Nat /\ ChannelOf(j) \in Nat
      BY <1>1, <2>3, ChannelNext
    <3>4. ChannelOf(j) <= last
      BY <2>1, <2>2
    <3> QED BY <3>2, <3>3, <3>4
  <2>5. j \in 1 .. k - 1
    BY <1>1, <2>3, <2>4
  <2>6. j \in CommandItems(k - 1)
    BY <2>5 DEF CommandItems
  <2> QED BY <2>1, <2>2, <2>6 DEF UpTo, CommandsIn
<1>3. ASSUME NEW c \in UpTo(last, CommandsIn(k - 1)) PROVE c \in UpTo(last, JoybusCommands)
  <2>1. CommandItems(k - 1) \subseteq CommandItems(Len(items))
    BY <1>1 DEF CommandItems
  <2> QED BY <2>1 DEF UpTo, JoybusCommands, CommandsIn
<1> QED BY <1>2, <1>3

-----------------------------------------------------------------------------
(* PIF RAM: the walks *)

\* The walk is at the k-th item, and no "end" is before it.
AtItem(k) == pos = OffsetOf(items, k) /\ channel = ChannelOf(k) /\ NoEndBefore(k)

\* A walk has found the commands up to a channel, of the items it has passed.
Progress(last, found) ==
  \/ \E k \in 1 .. Len(items) + 1 :
       AtItem(k) /\ UpTo(last, found) = UpTo(last, CommandsIn(k - 1))
  \/ pos = RAM_SIZE + 1 /\ UpTo(last, found) = UpTo(last, JoybusCommands)

\* The inductive invariant.
FrameInv ==
  /\ FrameTypeOK /\ Holds(ram, items)
  /\ walk = "write" => Progress(4, executed) /\ filled = {}
  /\ walk \in {"read", "done"} => UpTo(4, executed) = UpTo(4, JoybusCommands)
  /\ walk = "read" => Progress(3, filled) /\ UpTo(3, filled) = filled
  /\ walk = "done" => filled = UpTo(3, JoybusCommands)

\* A frame the guest has just sent.
LEMMA FrameStarts == FrameInit => FrameInv
<1> SUFFICES ASSUME FrameInit PROVE FrameInv
  OBVIOUS
<1>1. PICK s \in Skipped, n \in 0 .. MaxItems :
        \E own \in [1 .. n -> FrameItems], fill \in Fillers :
          /\ items = [k \in 1 .. s |-> "skip"] \o own
          /\ OffsetOf(items, Len(items) + 1) <= RAM_SIZE
          /\ ram = Frame(items, fill)
  BY DEF FrameInit
<1>2. PICK own \in [1 .. n -> FrameItems], fill \in Fillers :
        /\ items = [k \in 1 .. s |-> "skip"] \o own
        /\ OffsetOf(items, Len(items) + 1) <= RAM_SIZE
        /\ ram = Frame(items, fill)
  BY <1>1
<1>3. /\ pos = 0 /\ channel = 0 /\ walk = "write" /\ executed = {} /\ filled = {}
  BY DEF FrameInit
<1>4. s \in Nat /\ n \in Nat /\ fill \in 0 .. 255
  BY PifAssumption DEF PifAssumption
<1>5. items \in Seq(FrameItems)
  <2>1. own \in Seq(FrameItems)
    BY <1>4
  <2>2. [k \in 1 .. s |-> "skip"] \in Seq(FrameItems)
    BY <1>4 DEF FrameItems
  <2> QED BY <1>2, <2>1, <2>2, ConcatProperties
<1>6. Holds(ram, items)
  BY <1>2, <1>4, <1>5, FrameHolds
<1>7. FrameTypeOK
  BY <1>3, <1>5, <1>6 DEF FrameTypeOK, Holds, Bytes255
<1>8. Progress(4, executed)
  <2>1. 1 \in 1 .. Len(items) + 1
    BY <1>5
  <2>2. pos = OffsetOf(items, 1) /\ channel = ChannelOf(1) /\ NoEndBefore(1)
    BY <1>3, OffsetFirst, BeforeFirst DEF ChannelOf, NoEndBefore
  <2>3. CommandsIn(1 - 1) = {}
    BY DEF CommandsIn, CommandItems
  <2> QED BY <1>3, <2>1, <2>2, <2>3 DEF Progress, AtItem
<1> QED BY <1>3, <1>6, <1>7, <1>8 DEF FrameInv

\* One turn of a loop: on to the next item, or to the end of the RAM when no
\* command for the channels up to 4 is left.
Onward(k) ==
  /\ k \in 1 .. Len(items) /\ items[k] # "end"
  /\ pos' = OffsetOf(items, k + 1) /\ channel' = ChannelOf(k + 1)

Over(k) ==
  /\ pos' = RAM_SIZE + 1 /\ channel' \in Nat
  /\ \A last \in 3 .. 4 : UpTo(last, JoybusCommands) = UpTo(last, CommandsIn(k - 1))

LEMMA Advanced ==
  ASSUME Holds(ram, items), NEW k \in 1 .. Len(items) + 1, AtItem(k), pos < RAM_SIZE,
         Advance(pos)
  PROVE  \/ Onward(k) /\ items[k] \in {"skip", "nop"} /\ ~IsCommand(ram[pos])
         \/ /\ Onward(k) /\ items[k] \in {"status", "read"} /\ IsCommand(ram[pos])
            /\ ram[pos + 2] = Code(items[k])
         \/ Over(k) /\ ~IsCommand(ram[pos])
<1>1. /\ items \in Seq(FrameItems) /\ Len(items) \in Nat /\ k \in Nat \ {0}
      /\ pos = OffsetOf(items, k) /\ channel = ChannelOf(k) /\ NoEndBefore(k)
      /\ pos \in Nat /\ channel \in Nat
  BY OffsetType, ChannelNext DEF Holds, AtItem
<1>2. CASE k = Len(items) + 1
  <2>1. ram[pos] = 254
    BY <1>1, <1>2 DEF Holds
  <2>2. pos' = RAM_SIZE + 1 /\ channel' = channel /\ ~IsCommand(ram[pos])
    BY <2>1 DEF Advance, IsCommand
  <2>3. k - 1 = Len(items)
    BY <1>1, <1>2
  <2> QED BY <1>1, <2>2, <2>3 DEF Over, JoybusCommands
<1>3. CASE k \in 1 .. Len(items)
  <2>1. ItemIn(ram, pos, items[k]) /\ items[k] \in FrameItems
    BY <1>1, <1>3 DEF Holds
  <2>2. OffsetOf(items, k + 1) = pos + Size(items[k])
    BY <1>1, <2>1, OffsetNext
  <2>3. CASE items[k] = "skip"
    <3>1. ram[pos] = 0 /\ Size(items[k]) = 1 /\ ~IsCommand(ram[pos])
      BY <2>1, <2>3 DEF ItemIn, Size, IsCommand
    <3>2. channel' = channel + 1 /\ pos' = IF channel >= 6 THEN RAM_SIZE + 1 ELSE pos + 1
      BY <3>1 DEF Advance
    <3>3. CASE channel >= 6
      <4>1. ChannelOf(k) > 3 /\ ChannelOf(k) > 4
        BY <1>1, <3>3
      <4>2. \A last \in 3 .. 4 : last = 3 \/ last = 4
        OBVIOUS
      <4>3. \A last \in 3 .. 4 : UpTo(last, JoybusCommands) = UpTo(last, CommandsIn(k - 1))
        BY <1>1, <1>3, <4>1, <4>2, LaterChannels
      <4> QED BY <1>1, <3>1, <3>2, <3>3, <4>3 DEF Over
    <3>4. CASE ~(channel >= 6)
      <4>1. ChannelOf(k + 1) = ChannelOf(k) + 1
        BY <1>1, <2>3, ChannelNext
      <4> QED BY <1>1, <1>3, <2>2, <2>3, <3>1, <3>2, <3>4, <4>1 DEF Onward
    <3> QED BY <3>3, <3>4
  <2>4. CASE items[k] = "nop"
    <3>1. ram[pos] = 255 /\ Size(items[k]) = 1 /\ ~IsCommand(ram[pos])
      BY <2>1, <2>4 DEF ItemIn, Size, IsCommand
    <3>2. channel' = channel /\ pos' = pos + 1
      BY <3>1 DEF Advance
    <3>3. ChannelOf(k + 1) = ChannelOf(k)
      BY <1>1, <2>4, ChannelNext
    <3> QED BY <1>1, <1>3, <2>2, <2>4, <3>1, <3>2, <3>3 DEF Onward
  <2>5. CASE items[k] = "end"
    <3>1. ram[pos] = 254 /\ ~IsCommand(ram[pos])
      BY <2>1, <2>5 DEF ItemIn, IsCommand
    <3>2. channel' = channel /\ pos' = RAM_SIZE + 1
      BY <3>1 DEF Advance, IsCommand
    <3>3. JoybusCommands = CommandsIn(k - 1)
      BY <1>1, <1>3, <2>5, ItemsNext DEF JoybusCommands, CommandsIn
    <3> QED BY <1>1, <3>1, <3>2, <3>3 DEF Over
  <2>6. CASE items[k] \in {"status", "read"}
    <3>1. /\ ram[pos] = 1 /\ IsCommand(ram[pos]) /\ ram[pos + 2] = Code(items[k])
          /\ ram[pos + 1] \in {Size(items[k]) - 3, Size(items[k]) + 125}
      BY <2>1, <2>6 DEF ItemIn, IsCommand
    <3>2. channel' = channel + 1 /\ pos' = AfterCommand(pos)
      BY <3>1 DEF Advance
    <3>3. AfterCommand(pos) = pos + Size(items[k])
      <4>1. CASE items[k] = "status"
        <5>1. Size(items[k]) = 6 /\ ram[pos + 1] \in {3, 131}
          BY <3>1, <4>1 DEF Size
        <5>2. 3 % 64 = 3 /\ 131 % 64 = 3
          OBVIOUS
        <5>3. ram[pos + 1] % 64 = 3
          BY <5>1, <5>2
        <5> QED BY <1>1, <3>1, <5>1, <5>3 DEF AfterCommand
      <4>2. CASE items[k] = "read"
        <5>1. Size(items[k]) = 7 /\ ram[pos + 1] \in {4, 132}
          BY <3>1, <4>2 DEF Size
        <5>2. 4 % 64 = 4 /\ 132 % 64 = 4
          OBVIOUS
        <5>3. ram[pos + 1] % 64 = 4
          BY <5>1, <5>2
        <5> QED BY <1>1, <3>1, <5>1, <5>3 DEF AfterCommand
      <4> QED BY <2>6, <4>1, <4>2
    <3>4. ChannelOf(k + 1) = ChannelOf(k) + 1
      BY <1>1, <2>6, ChannelNext
    <3> QED BY <1>1, <1>3, <2>2, <2>6, <3>1, <3>2, <3>3, <3>4 DEF Onward
  <2> QED BY <2>1, <2>3, <2>4, <2>5, <2>6 DEF FrameItems
<1> QED BY <1>1, <1>2, <1>3

LEMMA ByteIn == ASSUME NEW S, NEW s \in Seq(S), NEW d \in 1 .. Len(s) PROVE s[d] \in S
OBVIOUS

\* Stored changes only the bytes it is given.
LEMMA StoredOK ==
  ASSUME ram \in Bytes255, NEW a \in Nat, NEW s \in Seq(0 .. 255)
  PROVE  /\ Stored(a, s) \in Bytes255
         /\ \A x \in 0 .. RAM_SIZE - 1 :
              \/ Stored(a, s)[x] = ram[x]
              \/ x \in a .. a + Len(s) - 1 /\ Stored(a, s)[x] = s[x - a + 1]
<1>1. DOMAIN ram = 0 .. RAM_SIZE - 1 /\ RAM_SIZE \in Nat /\ Len(s) \in Nat
  BY PifAssumption DEF Bytes255, PifAssumption
<1> DEFINE At(x) == IF x - a \in 0 .. Len(s) - 1 THEN s[x - a + 1] ELSE ram[x]
<1>2. Stored(a, s) = [x \in 0 .. RAM_SIZE - 1 |-> At(x)]
  BY <1>1 DEF Stored
<1>3. ASSUME NEW x \in 0 .. RAM_SIZE - 1
      PROVE  /\ At(x) \in 0 .. 255
             /\ At(x) = ram[x] \/ (x \in a .. a + Len(s) - 1 /\ At(x) = s[x - a + 1])
  <2>1. CASE x - a \in 0 .. Len(s) - 1
    <3>1. x - a + 1 \in 1 .. Len(s) /\ x \in a .. a + Len(s) - 1
      BY <1>1, <2>1
    <3>3. s[x - a + 1] \in 0 .. 255
      BY <3>1, ByteIn
    <3>4. At(x) = s[x - a + 1]
      BY <2>1
    <3> QED BY <3>1, <3>3, <3>4
  <2>2. CASE x - a \notin 0 .. Len(s) - 1
    <3>1. ram[x] \in 0 .. 255
      BY DEF Bytes255
    <3> QED BY <2>2, <3>1
  <2> QED BY <2>1, <2>2
<1> HIDE DEF At
<1>4. \A x \in 0 .. RAM_SIZE - 1 : Stored(a, s)[x] = At(x)
  BY <1>2
<1>5. Stored(a, s) \in Bytes255
  <2> DEFINE D == 0 .. RAM_SIZE - 1
             B == 0 .. 255
  <2>1. \A x \in D : At(x) \in B
    BY <1>3
  <2>2. Stored(a, s) = [x \in D |-> At(x)] /\ Bytes255 = [D -> B]
    BY <1>2 DEF Bytes255
  <2> HIDE DEF D, B
  <2> QED BY <2>1, <2>2
<1> QED BY <1>3, <1>4, <1>5

\* What the handlers store for a command.
LEMMA HandlersAnswer ==
  ASSUME Holds(ram, items), NEW k \in 1 .. Len(items), items[k] \in {"status", "read"},
         pos = OffsetOf(items, k), ram[pos + 2] = Code(items[k]),
         NEW g, g \in {ram, process_controller_command(pos, channel),
                       process_cart_command(pos), read_controller(pos, channel)}
  PROVE  Answered(ram, g, pos, items[k])
<1> DEFINE z == Size(items[k])
<1>1. /\ ram \in Bytes255 /\ items \in Seq(FrameItems) /\ pos \in Nat /\ z \in {6, 7}
      /\ RAM_SIZE \in Nat /\ ItemIn(ram, pos, items[k])
  <2>1. z \in {6, 7}
    BY DEF Size
  <2> QED BY <2>1, OffsetType, PifAssumption DEF Holds, PifAssumption
<1>2. /\ items[k] = "status" => z = 6 /\ Code(items[k]) = 0
      /\ items[k] = "read" => z = 7 /\ Code(items[k]) = 1
  BY DEF Size, Code
<1>3. ram[pos + 1] \in {z - 3, z + 125}
  BY <1>1 DEF ItemIn
<1> HIDE DEF z
<1>4. CASE g = ram
  BY <1>1, <1>4 DEF Answered
<1>5. CASE g = NoResponse(pos)
  <2> DEFINE b == (ram[pos + 1] % 128) + 128
  <2>1. b = z + 125
    <3>1. 3 % 128 = 3 /\ 4 % 128 = 4 /\ 131 % 128 = 3 /\ 132 % 128 = 4
      OBVIOUS
    <3>2. CASE z = 6
      <4>1. ram[pos + 1] \in {3, 131}
        BY <1>3, <3>2
      <4>2. ram[pos + 1] % 128 = 3
        BY <3>1, <4>1
      <4> QED BY <3>2, <4>2
    <3>3. CASE z = 7
      <4>1. ram[pos + 1] \in {4, 132}
        BY <1>3, <3>3
      <4>2. ram[pos + 1] % 128 = 4
        BY <3>1, <4>1
      <4> QED BY <3>3, <4>2
    <3> QED BY <1>1, <3>2, <3>3
  <2>2. b \in 0 .. 255
    <3>1. z + 125 \in 0 .. 255
      BY <1>1
    <3> QED BY <2>1, <3>1
  <2> DEFINE s == <<b>>
             a == pos + 1
  <2>3. g = Stored(a, s)
    BY <1>5 DEF NoResponse
  <2> HIDE DEF b
  <2>4. s \in Seq(0 .. 255) /\ Len(s) = 1 /\ s[1] = b /\ a \in Nat /\ a = pos + 1
    BY <1>1, <2>2
  <2> HIDE DEF s, a
  <2>5. /\ g \in Bytes255
        /\ \A x \in 0 .. RAM_SIZE - 1 :
             g[x] = ram[x] \/ (x \in a .. a + Len(s) - 1 /\ g[x] = s[x - a + 1])
    BY <1>1, <2>3, <2>4, StoredOK
  <2>6. \A x \in 0 .. RAM_SIZE - 1 : g[x] = ram[x] \/ (x = pos + 1 /\ g[x] = b)
    <3>1. SUFFICES ASSUME NEW x \in 0 .. RAM_SIZE - 1, g[x] # ram[x]
                   PROVE  x = pos + 1 /\ g[x] = b
      OBVIOUS
    <3>2. x \in a .. a + 1 - 1 /\ g[x] = s[x - a + 1]
      BY <2>4, <2>5, <3>1
    <3>3. x = pos + 1 /\ x - a + 1 = 1
      BY <1>1, <2>4, <3>2
    <3> QED BY <2>4, <3>2, <3>3
  <2> QED BY <2>1, <2>5, <2>6 DEF Answered, z
<1>6. ASSUME NEW s \in Seq(0 .. 255), g = Stored(pos + 3, s), Len(s) = z - 3
      PROVE  Answered(ram, g, pos, items[k])
  <2>1. pos + 3 \in Nat /\ pos + 3 + Len(s) - 1 = pos + z - 1
    BY <1>1, <1>6
  <2>2. /\ g \in Bytes255
        /\ \A x \in 0 .. RAM_SIZE - 1 :
             g[x] = ram[x] \/ x \in pos + 3 .. pos + 3 + Len(s) - 1
    BY <1>1, <1>6, <2>1, StoredOK
  <2>3. \A x \in 0 .. RAM_SIZE - 1 : g[x] = ram[x] \/ x \in pos + 3 .. pos + z - 1
    BY <2>1, <2>2
  <2> QED BY <2>2, <2>3 DEF Answered, z
<1>7. /\ <<5, 0, 0>> \in Seq(0 .. 255) /\ Len(<<5, 0, 0>>) = 3
      /\ <<0, 128, 0>> \in Seq(0 .. 255) /\ Len(<<0, 128, 0>>) = 3
      /\ <<7, 7, 7, 7>> \in Seq(0 .. 255) /\ Len(<<7, 7, 7, 7>>) = 4
  OBVIOUS
<1>8. \/ g = ram \/ g = NoResponse(pos)
      \/ g = Stored(pos + 3, <<5, 0, 0>>) /\ z = 6
      \/ g = Stored(pos + 3, <<0, 128, 0>>) /\ z = 6
      \/ g = Stored(pos + 3, <<7, 7, 7, 7>>) /\ z = 7
  BY <1>2 DEF process_controller_command, process_cart_command, read_controller
<1> DEFINE status == <<5, 0, 0>>
           eeprom == <<0, 128, 0>>
           buttons == <<7, 7, 7, 7>>
<1>9. /\ status \in Seq(0 .. 255) /\ eeprom \in Seq(0 .. 255) /\ buttons \in Seq(0 .. 255)
      /\ Len(status) = 3 /\ Len(eeprom) = 3 /\ Len(buttons) = 4
      /\ \/ g = ram \/ g = NoResponse(pos)
         \/ g = Stored(pos + 3, status) /\ z = 6
         \/ g = Stored(pos + 3, eeprom) /\ z = 6
         \/ g = Stored(pos + 3, buttons) /\ z = 7
  BY <1>7, <1>8
<1> HIDE DEF status, eeprom, buttons
<1>10. z = 6 => z - 3 = 3
  OBVIOUS
<1>11. z = 7 => z - 3 = 4
  OBVIOUS
<1>12. \/ \E s \in Seq(0 .. 255) : g = Stored(pos + 3, s) /\ Len(s) = z - 3
       \/ g = ram \/ g = NoResponse(pos)
  BY <1>9, <1>10, <1>11
<1> QED BY <1>4, <1>5, <1>6, <1>12

\* The items do not change, so that what depends on them alone does not.
LEMMA ItemsStay ==
  ASSUME items' = items
  PROVE  /\ \A k : ChannelOf(k)' = ChannelOf(k) /\ CommandsIn(k)' = CommandsIn(k)
         /\ \A k : NoEndBefore(k)' <=> NoEndBefore(k)
         /\ JoybusCommands' = JoybusCommands
<1>1. \A k : ChannelOf(k)' = ChannelOf(k)
  BY DEF ChannelOf
<1>2. \A k : CommandItems(k)' = CommandItems(k)
  BY DEF CommandItems
<1>3. \A k : CommandsIn(k)' = CommandsIn(k)
  BY <1>1, <1>2 DEF CommandsIn
<1>4. \A k : NoEndBefore(k)' <=> NoEndBefore(k)
  BY DEF NoEndBefore
<1>5. JoybusCommands' = JoybusCommands
  BY <1>3 DEF JoybusCommands
<1> QED BY <1>1, <1>3, <1>4, <1>5

\* The commands up to the k-th item from those before it.
LEMMA CommandsNext ==
  ASSUME items \in Seq(FrameItems), NEW k \in 1 .. Len(items), NoEndBefore(k)
  PROVE  /\ items[k] \in {"status", "read"} =>
              CommandsIn(k) = CommandsIn(k - 1) \cup {<<ChannelOf(k), Code(items[k])>>}
         /\ items[k] \in {"skip", "nop"} => CommandsIn(k) = CommandsIn(k - 1)
<1>1. CASE items[k] \in {"status", "read"}
  <2>1. CommandItems(k) = CommandItems(k - 1) \cup {k}
    BY <1>1, ItemsNext
  <2> QED BY <1>1, <2>1 DEF CommandsIn
<1>2. CASE items[k] \in {"skip", "nop"}
  BY <1>2, ItemsNext DEF CommandsIn
<1> QED BY <1>1, <1>2

\* On to the next item.
LEMMA OnwardKeeps ==
  ASSUME items \in Seq(FrameItems), items' = items, NEW k, Onward(k), NoEndBefore(k)
  PROVE  /\ k + 1 \in 1 .. Len(items') + 1 /\ AtItem(k + 1)'
         /\ CommandsIn(k + 1 - 1)' = CommandsIn(k)
         /\ pos' \in Nat /\ channel' \in Nat
<1>1. k \in 1 .. Len(items) /\ k \in Nat /\ Len(items) \in Nat /\ items[k] # "end"
      /\ pos' = OffsetOf(items, k + 1) /\ channel' = ChannelOf(k + 1)
  BY DEF Onward
<1>2. k + 1 \in 1 .. Len(items) + 1 /\ k + 1 - 1 = k /\ k + 1 \in Nat \ {0}
  BY <1>1
<1>3. NoEndBefore(k + 1)
  <2>1. \A l \in 1 .. k : l \in 1 .. k - 1 \/ l = k
    BY <1>1
  <2> QED BY <1>1, <1>2, <2>1 DEF NoEndBefore
<1>4. AtItem(k + 1)'
  BY <1>1, <1>3, ItemsStay DEF AtItem
<1>5. CommandsIn(k + 1 - 1)' = CommandsIn(k)
  BY <1>2, ItemsStay
<1> QED BY <1>1, <1>2, <1>4, <1>5, OffsetType, ChannelNext

\* What a turn of a loop adds to what the walk has found.
Finds(last, found, now) ==
  /\ ~IsCommand(ram[pos]) => now = found
  /\ IsCommand(ram[pos]) => \/ now = found \cup {<<channel, ram[pos + 2]>>}
                            \/ now = found /\ channel > last

\* After a turn of a loop at the k-th item a walk has found up to channel last
\* what it should have.
LEMMA Turn ==
  ASSUME Holds(ram, items), items' = items, NEW k \in 1 .. Len(items) + 1, AtItem(k),
         pos < RAM_SIZE, Advance(pos), NEW last \in 3 .. 4, NEW found, NEW now,
         UpTo(last, found) = UpTo(last, CommandsIn(k - 1)), Finds(last, found, now)
  PROVE  /\ pos' \in Nat /\ channel' \in Nat
         /\ \/ \E j \in 1 .. Len(items') + 1 :
                 AtItem(j)' /\ UpTo(last, now) = UpTo(last, CommandsIn(j - 1)')
            \/ pos' = RAM_SIZE + 1 /\ UpTo(last, now) = UpTo(last, JoybusCommands')
<1>1. /\ items \in Seq(FrameItems) /\ NoEndBefore(k) /\ channel = ChannelOf(k)
      /\ k \in Nat \ {0} /\ RAM_SIZE \in Nat /\ last \in Nat
  BY PifAssumption DEF Holds, AtItem, PifAssumption
<1>2. CASE Over(k) /\ ~IsCommand(ram[pos])
  <2>1. pos' = RAM_SIZE + 1 /\ channel' \in Nat /\ now = found
        /\ UpTo(last, JoybusCommands) = UpTo(last, CommandsIn(k - 1))
    BY <1>2 DEF Over, Finds
  <2>2. JoybusCommands' = JoybusCommands
    BY ItemsStay
  <2> QED BY <1>1, <2>1, <2>2
<1>3. ASSUME Onward(k), UpTo(last, now) = UpTo(last, CommandsIn(k))
      PROVE  /\ pos' \in Nat /\ channel' \in Nat
             /\ \E j \in 1 .. Len(items') + 1 :
                  AtItem(j)' /\ UpTo(last, now) = UpTo(last, CommandsIn(j - 1)')
  <2>1. /\ k + 1 \in 1 .. Len(items') + 1 /\ AtItem(k + 1)'
        /\ CommandsIn(k + 1 - 1)' = CommandsIn(k)
        /\ pos' \in Nat /\ channel' \in Nat
    BY <1>1, <1>3, OnwardKeeps
  <2> QED BY <1>3, <2>1
<1>4. CASE Onward(k) /\ items[k] \in {"skip", "nop"} /\ ~IsCommand(ram[pos])
  <2>1. k \in 1 .. Len(items) /\ now = found
    BY <1>4 DEF Onward, Finds
  <2>2. CommandsIn(k) = CommandsIn(k - 1)
    BY <1>1, <1>4, <2>1, CommandsNext
  <2> QED BY <1>3, <1>4, <2>1, <2>2
<1>5. CASE /\ Onward(k) /\ items[k] \in {"status", "read"} /\ IsCommand(ram[pos])
           /\ ram[pos + 2] = Code(items[k])
  <2> DEFINE c == <<channel, ram[pos + 2]>>
             T == CommandsIn(k - 1)
  <2>1. k \in 1 .. Len(items)
    BY <1>5 DEF Onward
  <2>2. CommandsIn(k) = T \cup {c} /\ UpTo(last, found) = UpTo(last, T)
    BY <1>1, <1>5, <2>1, CommandsNext
  <2> HIDE DEF T
  <2>3. CASE now = found \cup {c}
    <3> HIDE DEF c
    <3>1. UpTo(last, found \cup {c}) = UpTo(last, T \cup {c})
      BY <2>2 DEF UpTo
    <3>2. UpTo(last, now) = UpTo(last, CommandsIn(k))
      BY <2>2, <2>3, <3>1
    <3> QED BY <1>3, <1>5, <3>2
  <2>4. CASE now = found /\ channel > last
    <3>1. channel \in Nat
      BY <1>1, ChannelNext
    <3>2. UpTo(last, T \cup {c}) = UpTo(last, T)
      BY <1>1, <2>4, <3>1 DEF UpTo
    <3>3. UpTo(last, now) = UpTo(last, CommandsIn(k))
      BY <2>2, <2>4, <3>2
    <3> QED BY <1>3, <1>5, <3>3
  <2> QED BY <1>5, <2>3, <2>4 DEF Finds
<1> QED BY <1>2, <1>4, <1>5, Advanced

\* A turn of a loop leaves the frame in the RAM.
LEMMA FrameStays ==
  ASSUME Holds(ram, items), items' = items, NEW k \in 1 .. Len(items) + 1, AtItem(k),
         pos < RAM_SIZE, Advance(pos),
         ~IsCommand(ram[pos]) => ram' = ram,
         ram' \in {ram, process_controller_command(pos, channel),
                   process_cart_command(pos), read_controller(pos, channel)}
  PROVE  Holds(ram', items') /\ (IsCommand(ram[pos]) => ram[pos + 2] \in Nat)
<1>1. CASE ~IsCommand(ram[pos])
  BY <1>1
<1>2. CASE IsCommand(ram[pos])
  <2>1. /\ Onward(k) /\ items[k] \in {"status", "read"} /\ ram[pos + 2] = Code(items[k])
    BY <1>2, Advanced
  <2>2. k \in 1 .. Len(items) /\ pos = OffsetOf(items, k)
    BY <2>1 DEF Onward, AtItem
  <2> DEFINE g == ram'
  <2>3. g \in {ram, process_controller_command(pos, channel),
               process_cart_command(pos), read_controller(pos, channel)}
    OBVIOUS
  <2> HIDE DEF g
  <2>4. Answered(ram, g, pos, items[k])
    BY <2>1, <2>2, <2>3, HandlersAnswer
  <2>5. Holds(g, items)
    BY <2>1, <2>2, <2>4, AnsweredHolds
  <2>6. ram[pos + 2] \in Nat
    BY <2>1 DEF Code
  <2> QED BY <2>5, <2>6 DEF g
<1> QED BY <1>1, <1>2

\* A walk ends when it has passed every item.
LEMMA WalkOver ==
  ASSUME Holds(ram, items), pos >= RAM_SIZE, NEW last, NEW found, Progress(last, found)
  PROVE  UpTo(last, found) = UpTo(last, JoybusCommands)
<1>1. CASE pos = RAM_SIZE + 1 /\ UpTo(last, found) = UpTo(last, JoybusCommands)
  BY <1>1
<1>2. ASSUME NEW k \in 1 .. Len(items) + 1, AtItem(k),
             UpTo(last, found) = UpTo(last, CommandsIn(k - 1))
      PROVE  UpTo(last, found) = UpTo(last, JoybusCommands)
  <2>1. items \in Seq(FrameItems) /\ Len(items) \in Nat
    BY DEF Holds
  <2>2. k \notin 1 .. Len(items)
    <3>1. SUFFICES ASSUME k \in 1 .. Len(items) PROVE FALSE
      OBVIOUS
    <3>2. items[k] \in FrameItems /\ Size(items[k]) >= 1 /\ Size(items[k]) \in Nat
      BY <2>1, <3>1, SizeOK
    <3>3. OffsetOf(items, k) \in Nat /\ OffsetOf(items, k) + 0 \in 0 .. RAM_SIZE - 1
      BY <2>1, <3>1, <3>2, ItemInside DEF Holds
    <3>4. pos = OffsetOf(items, k)
      BY <1>2 DEF AtItem
    <3> QED BY <3>3, <3>4, PifAssumption DEF PifAssumption
  <2>3. k - 1 = Len(items)
    BY <2>1, <2>2
  <2> QED BY <1>2, <2>3 DEF JoybusCommands
<1> QED BY <1>1, <1>2 DEF Progress

\* The invariant is inductive.
LEMMA FrameStep == FrameInv /\ [FrameNext]_frameVars => FrameInv'
<1> SUFFICES ASSUME FrameInv, [FrameNext]_frameVars PROVE FrameInv'
  OBVIOUS
<1>1. /\ FrameTypeOK /\ Holds(ram, items) /\ items \in Seq(FrameItems) /\ RAM_SIZE \in Nat
      /\ pos \in Nat /\ channel \in Nat
  BY PifAssumption DEF FrameInv, FrameTypeOK, PifAssumption
<1>2. CASE write_walk
  <2>1. /\ walk = "write" /\ pos < RAM_SIZE /\ Advance(pos) /\ items' = items
        /\ walk' = walk /\ filled' = filled
    BY <1>2 DEF write_walk
  <2>2. PICK k \in 1 .. Len(items) + 1 :
          AtItem(k) /\ UpTo(4, executed) = UpTo(4, CommandsIn(k - 1))
    BY <1>1, <2>1 DEF FrameInv, Progress
  <2>3. /\ ~IsCommand(ram[pos]) => ram' = ram /\ executed' = executed
        /\ IsCommand(ram[pos]) => executed' = executed \cup {<<channel, ram[pos + 2]>>}
        /\ ram' \in {ram, process_controller_command(pos, channel),
                     process_cart_command(pos), read_controller(pos, channel)}
    BY <1>2 DEF write_walk
  <2>4. Holds(ram', items') /\ (IsCommand(ram[pos]) => ram[pos + 2] \in Nat)
    BY <1>1, <2>1, <2>2, <2>3, FrameStays
  <2> DEFINE now == executed'
  <2>5. Finds(4, executed, now)
    BY <2>3 DEF Finds
  <2> HIDE DEF now
  <2>6. /\ pos' \in Nat /\ channel' \in Nat
        /\ \/ \E j \in 1 .. Len(items') + 1 :
                AtItem(j)' /\ UpTo(4, now) = UpTo(4, CommandsIn(j - 1)')
           \/ pos' = RAM_SIZE + 1 /\ UpTo(4, now) = UpTo(4, JoybusCommands')
    <3>1. 4 \in 3 .. 4
      OBVIOUS
    <3> QED BY <1>1, <2>1, <2>2, <2>5, <3>1, Turn
  <2>7. Progress(4, executed)'
    BY <2>6 DEF Progress, now
  <2>8. executed' \subseteq Nat \X Nat
    BY <1>1, <2>3, <2>4 DEF FrameTypeOK
  <2>9. FrameTypeOK'
    BY <1>1, <2>1, <2>4, <2>6, <2>8 DEF FrameTypeOK, Holds, Bytes255
  <2> QED BY <2>1, <2>4, <2>7, <2>9 DEF FrameInv
<1>3. CASE read_walk
  <2>1. /\ walk = "read" /\ pos < RAM_SIZE /\ Advance(pos) /\ items' = items
        /\ walk' = walk /\ executed' = executed
    BY <1>3 DEF read_walk
  <2>2. PICK k \in 1 .. Len(items) + 1 :
          AtItem(k) /\ UpTo(3, filled) = UpTo(3, CommandsIn(k - 1))
    BY <1>1, <2>1 DEF FrameInv, Progress
  <2>3. /\ ~IsCommand(ram[pos]) => ram' = ram /\ filled' = filled
        /\ IsCommand(ram[pos]) /\ channel < 4 =>
             filled' = filled \cup {<<channel, ram[pos + 2]>>}
        /\ ~(channel < 4) => filled' = filled
        /\ ram' \in {ram, process_controller_command(pos, channel),
                     process_cart_command(pos), read_controller(pos, channel)}
    BY <1>3 DEF read_walk
  <2>4. Holds(ram', items') /\ (IsCommand(ram[pos]) => ram[pos + 2] \in Nat)
    BY <1>1, <2>1, <2>2, <2>3, FrameStays
  <2> DEFINE now == filled'
  <2>5. Finds(3, filled, now)
    <3>1. channel < 4 \/ channel > 3
      BY <1>1
    <3> QED BY <2>3, <3>1 DEF Finds
  <2> HIDE DEF now
  <2>6. /\ pos' \in Nat /\ channel' \in Nat
        /\ \/ \E j \in 1 .. Len(items') + 1 :
                AtItem(j)' /\ UpTo(3, now) = UpTo(3, CommandsIn(j - 1)')
           \/ pos' = RAM_SIZE + 1 /\ UpTo(3, now) = UpTo(3, JoybusCommands')
    <3>1. 3 \in 3 .. 4
      OBVIOUS
    <3> QED BY <1>1, <2>1, <2>2, <2>5, <3>1, Turn
  <2>7. Progress(3, filled)'
    BY <2>6 DEF Progress, now
  <2>8. filled' \subseteq Nat \X Nat
    BY <1>1, <2>3, <2>4 DEF FrameTypeOK
  <2>9. FrameTypeOK'
    BY <1>1, <2>1, <2>4, <2>6, <2>8 DEF FrameTypeOK, Holds, Bytes255
  <2>10. UpTo(3, filled') = filled'
    <3>1. UpTo(3, filled) = filled
      BY <2>1 DEF FrameInv
    <3>2. channel < 4 => channel <= 3
      BY <1>1
    <3> QED BY <2>3, <3>1, <3>2 DEF UpTo
  <2>11. UpTo(4, executed') = UpTo(4, JoybusCommands')
    BY <2>1, ItemsStay DEF FrameInv
  <2> QED BY <2>1, <2>4, <2>7, <2>9, <2>10, <2>11 DEF FrameInv
<1>4. CASE EndOfWalk
  <2>1. /\ pos >= RAM_SIZE /\ walk \in {"write", "read"} /\ pos' = 0 /\ channel' = 0
        /\ walk' = IF walk = "write" THEN "read" ELSE "done"
        /\ ram' = ram /\ executed' = executed /\ filled' = filled /\ items' = items
    BY <1>1, <1>4 DEF EndOfWalk, FrameTypeOK
  <2>2. FrameTypeOK' /\ Holds(ram, items)'
    BY <1>1, <2>1 DEF FrameTypeOK
  <2>3. JoybusCommands' = JoybusCommands
    BY <2>1, ItemsStay
  <2>4. CASE walk = "write"
    <3>1. UpTo(4, executed) = UpTo(4, JoybusCommands) /\ filled = {}
      BY <1>1, <2>1, <2>4, WalkOver DEF FrameInv
    <3>2. UpTo(3, filled) = filled
      BY <3>1 DEF UpTo
    <3>3. Progress(3, filled)'
      <4>1. 1 \in 1 .. Len(items) + 1
        BY <1>1
      <4>2. 0 = OffsetOf(items, 1) /\ 0 = ChannelOf(1) /\ NoEndBefore(1)
        BY OffsetFirst, BeforeFirst DEF ChannelOf, NoEndBefore
      <4>3. AtItem(1)'
        BY <2>1, <4>2, ItemsStay DEF AtItem
      <4>4. CommandsIn(1 - 1)' = {}
        BY DEF CommandsIn, CommandItems
      <4>5. UpTo(3, filled') = UpTo(3, CommandsIn(1 - 1)')
        BY <2>1, <3>1, <4>4
      <4> QED BY <2>1, <4>1, <4>3, <4>5 DEF Progress
    <3> QED BY <2>1, <2>2, <2>3, <2>4, <3>1, <3>2, <3>3 DEF FrameInv
  <2>5. CASE walk = "read"
    <3>1. UpTo(3, filled) = UpTo(3, JoybusCommands) /\ UpTo(3, filled) = filled
      BY <1>1, <2>1, <2>5, WalkOver DEF FrameInv
    <3>2. UpTo(4, executed) = UpTo(4, JoybusCommands)
      BY <2>5 DEF FrameInv
    <3> QED BY <2>1, <2>2, <2>3, <2>5, <3>1, <3>2 DEF FrameInv
  <2> QED BY <2>1, <2>4, <2>5
<1>5. CASE UNCHANGED frameVars
  <2>1. /\ ram' = ram /\ pos' = pos /\ channel' = channel /\ walk' = walk
        /\ executed' = executed /\ filled' = filled /\ items' = items
    BY <1>5 DEF frameVars
  <2>2. FrameTypeOK' /\ Holds(ram, items)' /\ JoybusCommands' = JoybusCommands
    BY <1>1, <2>1, ItemsStay DEF FrameTypeOK
  <2>3. \A k : (AtItem(k)' <=> AtItem(k)) /\ CommandsIn(k - 1)' = CommandsIn(k - 1)
    BY <2>1, ItemsStay DEF AtItem
  <2>4. /\ Progress(4, executed)' <=> Progress(4, executed)
        /\ Progress(3, filled)' <=> Progress(3, filled)
    BY <2>1, <2>2, <2>3 DEF Progress
  <2> QED BY <2>1, <2>2, <2>4 DEF FrameInv
<1> QED BY <1>2, <1>3, <1>4, <1>5 DEF FrameNext

\* update_pif_write executes and update_pif_read fills in the commands of the
\* frame the guest built, each for its channel, for any items that fit in the
\* RAM, whatever error bits and answers the first walk left, and both leave the
\* length and command bytes in place.
THEOREM WalksFindCommandsAlways == FrameSpec => []WalksFindCommands
<1>1. FrameInv => WalksFindCommands
  <2> SUFFICES ASSUME FrameInv PROVE WalksFindCommands
    OBVIOUS
  <2>1. FrameTypeOK /\ Holds(ram, items)
    BY DEF FrameInv
  <2>2. DOMAIN ram = 0 .. RAM_SIZE - 1
    BY <2>1 DEF FrameTypeOK
  <2>3. FrameIntact
    BY <2>1, <2>2 DEF FrameIntact, Holds
  <2> QED BY <2>1, <2>3 DEF WalksFindCommands, FrameInv
<1> QED BY <1>1, FrameStarts, FrameStep, PTL DEF FrameSpec

=============================================================================
