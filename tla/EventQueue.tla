----------------------------- MODULE EventQueue -----------------------------
(***************************************************************************)
(* The timed event queue of the emulated CPU (r4300/interrupt.c), driven   *)
(* by the CP0 Count register.  Every device completion, vertical           *)
(* interrupt, timer match and pending-interrupt check is an event in it.   *)
(*                                                                         *)
(* Count is a 32-bit register that wraps; here it has the modulus M, and   *)
(* the windows 0x80000000 and 0x10000000 of the code are M \div 2 and      *)
(* M \div 16.  The machine is one record m; the C functions are operators  *)
(* from record to record, so that a handler that calls several of them is  *)
(* one step.  The linked list is a sequence; its nodes come from a pool of *)
(* POOL_CAPACITY, one per queued event.                                    *)
(*                                                                         *)
(* History: left is the time until an event is really due (negative when   *)
(* it is overdue); the code only has the wrapped count to tell.            *)
(***************************************************************************)
EXTENDS Integers, Sequences, FiniteSets, SequencesExt

CONSTANTS M,              \* modulus of Count, 2^32 in the code
          POOL_CAPACITY,  \* 16 in the code
          BootCount,      \* Count after power-on, 0x5000
          BootVi,         \* first vertical interrupt, 5000
          ViDelay,        \* counts between vertical interrupts
          Delays,         \* delays devices ask for
          NmiDelay,       \* from the reset button to NMI_INT, 50000000
          CompareValues,  \* values a guest writes to Compare
          CountValues,    \* and to Count
          MaxTick,        \* bound: counts between two checks
          MaxOps          \* bound: register writes in one behaviour

Half == M \div 2          \* 0x80000000
Past == M \div 16         \* 0x10000000

ASSUME ConstantsAssumption ==
  /\ M \in Nat /\ M > 0 /\ M % 16 = 0
  /\ POOL_CAPACITY \in Nat /\ POOL_CAPACITY > 0
  /\ BootCount \in 0 .. Past /\ BootVi \in 0 .. Half - 1
  /\ ViDelay \in 1 .. Half - 1
  /\ Delays \subseteq 0 .. Half - 1 /\ NmiDelay \in 0 .. Half - 1
  /\ CompareValues \subseteq 0 .. M - 1 /\ CountValues \subseteq 0 .. M - 1
  /\ MaxTick \in 1 .. Past
  /\ MaxOps \in Nat

Count == 0 .. M - 1
Type == {"SPECIAL", "VI", "COMPARE", "CHECK", "DEV", "HW2", "NMI"}
Event == [type : Type, count : Count, left : -1 .. M]

VARIABLES m,      \* the machine
          ops     \* register writes so far

vars == <<m, ops>>

-----------------------------------------------------------------------------
(* interrupt.c: the queue *)

\* Is time evt1 before the queued event e2, seen from the current Count?
before_event(s, evt1, e2) ==
  LET d1 == (evt1 - s.count) % M
      d2 == (e2.count - s.count) % M
  IN  /\ d1 < Half
      /\ IF d2 < Half THEN d1 < d2
         ELSE (s.count - e2.count) % M < Past =>
                e2.type = "SPECIAL" /\ s.SPECIAL_done

\* The place of a new event that does not go first: behind every event it is
\* not before; SPECIAL_INT always goes last.
Place(s, e) ==
  LET later == {k \in 2 .. Len(s.q) : before_event(s, e.count, s.q[k])}
  IN  IF e.type = "SPECIAL" \/ later = {} THEN Len(s.q) + 1
      ELSE CHOOSE k \in later : \A j \in later : k <= j

GoesFirst(s, e) ==
  s.q = << >> \/ (e.type # "SPECIAL" /\ before_event(s, e.count, s.q[1]))

\* add_interrupt_event_count.  A full pool drops the event with an error
\* message.  (The code's skip over events of equal count behind the place
\* found never moves: an event of equal count is not "before".)
add_interrupt_event_count(s0, e) ==
  LET s == [s0 EXCEPT !.SPECIAL_done = @ /\ ~(s0.count > Half)]
  IN  IF Len(s.q) >= POOL_CAPACITY THEN [s EXCEPT !.dropped = TRUE]
      ELSE IF GoesFirst(s, e)
           THEN [s EXCEPT !.q = <<e>> \o @, !.next_interrupt = e.count]
           ELSE [s EXCEPT !.q = InsertAt(@, Place(s, e), e)]

add_interrupt_event(s, type, delay) ==
  add_interrupt_event_count(s,
    [type |-> type, count |-> (s.count + delay) % M, left |-> delay])

\* The time from count to a deadline less than half a lap away; -1: overdue.
Until(deadline, count) ==
  LET d == (deadline - count) % M IN IF d < Half THEN d ELSE -1

Special == [type |-> "SPECIAL", count |-> 0, left |-> 0]

\* Mutant: only an overdue first event is armed.
Rearm_overdue(q, count) ==
  IF q # << >> /\ (count - q[1].count) % M < Half THEN q[1].count ELSE 0

\* next_interrupt for the first event: its count, or 0 (test at every jump)
\* when that lies beyond the wrap.
Rearm(q, count) ==
  IF q # << >> /\ (q[1].count > count \/ (count - q[1].count) % M < Half)
  THEN q[1].count ELSE 0

remove_interrupt_event(s) ==
  [s EXCEPT !.q = Tail(@), !.next_interrupt = Rearm(Tail(s.q), s.count)]

\* Takes the first event of a type out; next_interrupt is left as it is.
remove_event(s, type) ==
  LET found == {k \in 1 .. Len(s.q) : s.q[k].type = type}
      k == CHOOSE i \in found : \A j \in found : i <= j
  IN  IF found = {} THEN s
      ELSE [s EXCEPT !.q = RemoveAt(@, k)]

\* The saved events are added one by one, in the order they were saved.
load_eventqueue_infos(s, saved) ==
  LET after[k \in 0 .. Len(saved)] ==
        IF k = 0 THEN [s EXCEPT !.q = << >>]
        ELSE add_interrupt_event_count(after[k - 1], saved[k])
  IN  after[Len(saved)]

init_interrupt(s) ==
  add_interrupt_event_count([s EXCEPT !.SPECIAL_done = TRUE, !.q = << >>],
                            Special)

\* Mutant: next_interrupt keeps the time of the event that was first.
check_interrupt_unarmed(s) ==
  IF Len(s.q) >= POOL_CAPACITY THEN [s EXCEPT !.dropped = TRUE]
  ELSE [s EXCEPT !.q = <<[type |-> "CHECK", count |-> s.count, left |-> 0]>> \o @]

\* check_interrupt with an enabled interrupt pending: a CHECK_INT, first in
\* the queue and due at once.
check_interrupt(s) ==
  IF Len(s.q) >= POOL_CAPACITY THEN [s EXCEPT !.dropped = TRUE]
  ELSE [s EXCEPT !.q = <<[type |-> "CHECK", count |-> s.count, left |-> 0]>> \o @,
                 !.next_interrupt = s.count]

-----------------------------------------------------------------------------
(* interrupt.c: the handlers *)

\* Mutant: the marker is not put back.
special_int_once(s) ==
  IF s.count > Past THEN s
  ELSE remove_interrupt_event([s EXCEPT !.SPECIAL_done = TRUE])

\* Mutant: only Count exactly at the wrap takes the marker.
special_int_at_zero(s) ==
  IF s.count > 0 THEN s
  ELSE add_interrupt_event_count(
         remove_interrupt_event([s EXCEPT !.SPECIAL_done = TRUE]), Special)

\* The marker of the wrap waits for Count to come round, then goes back to
\* the end of the queue.
special_int_handler(s) ==
  IF s.count > Past THEN s
  ELSE add_interrupt_event_count(
         remove_interrupt_event([s EXCEPT !.SPECIAL_done = TRUE]), Special)

\* The time from Count to the next match of Compare.
NextMatch(compare, count) == ((compare - (count + 1)) % M) + 1

\* The match is queued again for the next lap: Count is moved past it while
\* it is queued.
compare_int_handler(s) ==
  LET r == [remove_interrupt_event(s) EXCEPT !.count = (@ + 1) % M]
      a == add_interrupt_event_count(r,
             [type |-> "COMPARE", count |-> s.compare,
              left |-> NextMatch(s.compare, s.count)])
  IN  [a EXCEPT !.count = s.count]

\* vi_vertical_interrupt_event: the next one is queued relative to next_vi.
vi_vertical_interrupt_event(s) ==
  LET next == (s.next_vi + ViDelay) % M
  IN  add_interrupt_event_count([s EXCEPT !.next_vi = next],
        [type |-> "VI", count |-> next, left |-> Until(next, s.count)])

\* The first vertical interrupt after a reset.
StartVi(s, count, next_vi) ==
  LET r == init_interrupt([s EXCEPT !.count = count, !.next_vi = next_vi,
                                    !.disturbed = FALSE])
  IN  add_interrupt_event_count(r,
        [type |-> "VI", count |-> next_vi, left |-> Until(next_vi, count)])

nmi_int_handler(s) == StartVi(remove_interrupt_event(s), 0, BootVi)

reset_hard(s) ==
  StartVi([s EXCEPT !.reset_hard_job = FALSE, !.compare = 0], BootCount, BootVi)

\* History: whether the event dispatched now is a vertical interrupt, and whether
\* one came before its time although the timing was not disturbed since the last
\* reset.
Fire(s) ==
  [s EXCEPT !.vi_fired = s.q[1].type = "VI",
            !.early = @ \/ (s.q[1].left > 0 /\ ~s.disturbed)]

\* The dispatch on the type of the first event.  DEV stands for the device
\* completions (SI, PI, AI, SP, DP), which remove their event; a DMA that
\* AI then starts from its FIFO is a StartDevice of its own.
Dispatch(s) ==
  CASE s.q[1].type = "SPECIAL" -> special_int_handler(s)
    [] s.q[1].type = "VI"      ->
         vi_vertical_interrupt_event(remove_interrupt_event(Fire(s)))
    [] s.q[1].type = "COMPARE" -> compare_int_handler(Fire(s))
    [] s.q[1].type = "NMI"     -> nmi_int_handler(Fire(s))
    [] OTHER                   -> remove_interrupt_event(Fire(s))

\* gen_interrupt: a hard reset first, then an exception taken in a delay
\* slot (skip_jump), then the first event.  q.first is not tested.
gen_interrupt(s, interrupt_unsafe_state) ==
  IF ~interrupt_unsafe_state /\ s.reset_hard_job THEN reset_hard(s)
  ELSE IF s.skip_jump
       THEN [s EXCEPT !.skip_jump = FALSE,
                      !.next_interrupt = Rearm(s.q, s.count)]
       ELSE Dispatch(s)

\* The test the interpreter makes at every jump.
TestInterrupt(s, interrupt_unsafe_state) ==
  IF s.next_interrupt <= s.count
  THEN gen_interrupt(s, interrupt_unsafe_state) ELSE s

\* Time left after d counts; -1 stands for overdue.
Countdown(left, d) == IF left < d THEN -1 ELSE left - d

\* Count advances.  History: no vertical interrupt was dispatched since.
cp0_update_count(s, d) ==
  [s EXCEPT !.count = (@ + d) % M, !.vi_fired = FALSE,
            !.q = [k \in 1 .. Len(s.q) |->
                     IF s.q[k].type = "SPECIAL" THEN s.q[k]
                     ELSE [s.q[k] EXCEPT !.left = Countdown(@, d)]]]

\* translate_event_queue, then Count is set.  COMPARE is queued while Count
\* still has its old value, and next_interrupt is only moved by that.
translate_event_queue(s, base) ==
  LET r == remove_event(remove_event(s, "COMPARE"), "SPECIAL")
      t == [r EXCEPT !.q = [k \in 1 .. Len(r.q) |->
              [r.q[k] EXCEPT !.count = (@ - s.count + base) % M]]]
      a == add_interrupt_event_count(t,
             [type |-> "COMPARE", count |-> s.compare,
              left |-> (s.compare - base) % M])
  IN  [add_interrupt_event_count(a, Special) EXCEPT
         !.count = base, !.disturbed = TRUE]

-----------------------------------------------------------------------------
(* The machine *)

PowerOn ==
  reset_hard([q |-> << >>, count |-> 0, next_interrupt |-> 0,
              SPECIAL_done |-> FALSE, compare |-> 0, next_vi |-> 0,
              skip_jump |-> FALSE, reset_hard_job |-> FALSE,
              dropped |-> FALSE, disturbed |-> FALSE,
              early |-> FALSE, straddled |-> FALSE,
              vi_fired |-> FALSE])

Init == m = PowerOn /\ ops = 0

\* A block of d counts that takes Count over the wrap and past the armed event
\* leaves next_interrupt > Count: the unsigned test does not see the event.
\* After a delay-slot exception the event is the one skip_jump rearms for.
Straddles(d) ==
  LET armed == IF m.skip_jump THEN m.q[1].count ELSE m.next_interrupt
  IN  m.count + d >= M /\ armed > (m.count + d) % M

\* Run a block of d counts and make the test at its end.
Jump(d) ==
  /\ m' = [TestInterrupt(cp0_update_count(m, d), FALSE)
             EXCEPT !.straddled = Straddles(d),
                    !.disturbed = @ \/ Straddles(d)]
  /\ UNCHANGED ops

\* An idle loop skips ahead to the armed event, rounded down to the step of 4
\* (MaxTick + 1 here).  With a stale next_interrupt the skip may pass the wrap
\* and the window of its marker.
IdleSkip ==
  /\ LET skip == (m.next_interrupt - m.count) % M
         step == skip - (skip % (MaxTick + 1))
     IN  /\ ~m.skip_jump /\ skip > MaxTick /\ skip < Half
         /\ m' = [cp0_update_count(m, step) EXCEPT
                    !.straddled = m.count + step >= M + Past]
  /\ UNCHANGED ops

\* A guest operation.  None comes between an exception in a delay slot and the
\* test at the end of that jump.
Op(s) == ops < MaxOps /\ ~m.skip_jump /\ ops' = ops + 1 /\ m' = s

\* A device starts something that ends after a delay.
StartDevice == \E d \in Delays : Op(add_interrupt_event(m, "DEV", d))

\* A register write leaves an enabled interrupt pending.
SignalInterrupt == Op(check_interrupt(m))

\* MTC0 Status, ERET and MI_INTR_MASK look for a pending interrupt and test
\* at once; the first with interrupt_unsafe_state set.
EnableInterrupts ==
  \E u \in BOOLEAN, s \in {m, check_interrupt(m)} : Op(TestInterrupt(s, u))

\* MTC0 Compare.
WriteCompare ==
  \E v \in CompareValues :
    Op([add_interrupt_event_count(remove_event(m, "COMPARE"),
          [type |-> "COMPARE", count |-> v, left |-> (v - m.count) % M])
        EXCEPT !.compare = v, !.disturbed = TRUE])

\* MTC0 Count.
WriteCount ==
  \E v \in CountValues : Op(translate_event_queue(TestInterrupt(m, TRUE), v))

\* An exception in a delay slot.
DelaySlotException == Op([m EXCEPT !.skip_jump = TRUE, !.next_interrupt = 0])

\* The reset button: HW2_INT now and NMI_INT later; or a hard reset request.
reset_soft ==
  Op(add_interrupt_event(add_interrupt_event(m, "HW2", 0), "NMI", NmiDelay))
RequestHardReset == Op([m EXCEPT !.reset_hard_job = TRUE])

\* A savestate taken at a vertical interrupt is loaded again, in this session
\* or another: SPECIAL_done is whatever that session left it.
LoadState ==
  /\ m.vi_fired
  /\ \E done \in BOOLEAN :
       Op(load_eventqueue_infos([m EXCEPT !.SPECIAL_done = done], m.q))

Guest == StartDevice \/ SignalInterrupt \/ EnableInterrupts \/ WriteCompare
         \/ WriteCount \/ DelaySlotException \/ reset_soft
         \/ RequestHardReset \/ LoadState

Run == \E d \in 1 .. MaxTick : Jump(d)

Next == Run \/ IdleSkip \/ Guest

SafeSpec == Init /\ [][Next]_vars

\* The CPU keeps executing jumps.
Spec == SafeSpec /\ WF_vars(Run)

-----------------------------------------------------------------------------
(* Properties *)

\* Every field has its type and the queue fits the node pool.
TypeOK ==
  /\ m.q \in Seq(Event) /\ Len(m.q) <= POOL_CAPACITY
  /\ m.count \in Count /\ m.next_interrupt \in Count
  /\ m.compare \in Count /\ m.next_vi \in Count
  /\ {m.SPECIAL_done, m.skip_jump, m.reset_hard_job, m.dropped,
      m.disturbed, m.early, m.straddled,
      m.vi_fired} \subseteq BOOLEAN
  /\ ops \in 0 .. MaxOps

\* The wrap marker is in the queue exactly once, through resets, Count
\* writes and the marker's own handler, as long as the pool never ran out:
\* the queue is never empty when gen_interrupt dereferences q.first.
SpecialOnce ==
  /\ TypeOK
  /\ ~m.dropped =>
       Cardinality({k \in 1 .. Len(m.q) : m.q[k].type = "SPECIAL"}) = 1

\* Between a reset and the first disturbance (the guest writes Compare or
\* Count, or a block runs over an armed event at the wrap) no event is
\* dispatched before its time: through wraps of Count, device requests,
\* pending-interrupt checks, resets, delay-slot exceptions and savestates.
\* After a disturbance it does happen: remove_event leaves next_interrupt
\* behind, and an event more than half a lap away may be queued ahead of the
\* wrap marker.
NeverEarly == ~m.early

\* What before_event asks of the program: in the upper half of Count, where
\* the marker of the wrap counts as a future event again, no event ahead of
\* the marker waits for Past counts after its time.  An event that did would
\* pass for one of the next lap, and new events would be queued in front of it.
Timely ==
  ~m.disturbed /\ m.count > Half =>
    \A k \in 1 .. Len(m.q) :
      m.q[k].left = -1 /\ (\A j \in 1 .. k : m.q[j].type # "SPECIAL") =>
        (m.count - m.q[k].count) % M < Past

\* Vertical interrupts never stop coming, whatever the guest wrote before,
\* through every wrap of Count, unless block after block runs over an armed
\* event at the wrap.
ViKeepsComing == []<>(m.vi_fired \/ m.straddled)
=============================================================================
