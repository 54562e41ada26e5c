------------------------ MODULE RcpInterrupts_proofs ------------------------
(***************************************************************************)
(* No pending interrupt is forgotten and Cause follows the MIPS interface, *)
(* for any set of lines, any size of the event pool and any values the     *)
(* guest writes to Status.                                                 *)
(***************************************************************************)
EXTENDS RcpInterrupts, TLAPS

\* The queued events, added up type by type.
Of(q, e) == IF e \in Events THEN q[e] ELSE 0

Total(q) ==
  Of(q, "SP") + Of(q, "SI") + Of(q, "AI") + Of(q, "VI") + Of(q, "PI")
    + Of(q, "DP") + Of(q, "COMPARE") + Of(q, "HW2") + Of(q, "NMI")

\* The pool's index counts SPECIAL_INT and what is queued: what keeps a node
\* from being given back twice.
Counted(s) == s.index = 1 + s.checks + Total(s.queued)

MachineOK(s) == s \in Machine /\ Counted(s)

Armed(s) == Deliverable(s) => s.checks > 0 \/ s.refused

Follows(s) ==
  Enabled(s) /\ ~s.cleared /\ ~s.unchecked =>
    ("IP2" \in s.cause <=> s.intr \cap s.mask # {})

StateOK(s) == MachineOK(s) /\ Armed(s) /\ Follows(s)

\* The inductive invariant.
Inv == StateOK(m)

-----------------------------------------------------------------------------
(* The pool *)

LEMMA EventNames ==
  ASSUME NEW e \in Events
  PROVE  e \in {"SP", "SI", "AI", "VI", "PI", "DP", "COMPARE", "HW2", "NMI"}
BY ConstantsAssumption DEF Events, RcpLines, Internal

LEMMA TotalNat == ASSUME NEW q \in [Events -> Nat] PROVE Total(q) \in Nat
<1>1. \A e : Of(q, e) \in Nat
  BY DEF Of
<1> QED BY <1>1 DEF Total

\* One queue is changed: the total changes with it.
LEMMA TotalChange ==
  ASSUME NEW q \in [Events -> Nat], NEW e \in Events, NEW n \in Nat
  PROVE  /\ [q EXCEPT ![e] = n] \in [Events -> Nat]
         /\ Total([q EXCEPT ![e] = n]) = Total(q) + n - q[e]
<1> DEFINE r == [q EXCEPT ![e] = n]
<1>1. r \in [Events -> Nat] /\ r[e] = n
  OBVIOUS
<1>2. \A x : x # e => Of(r, x) = Of(q, x)
  BY DEF Of
<1>3. Of(r, e) = n /\ Of(q, e) = q[e]
  BY <1>1 DEF Of
<1>4. \A x : Of(q, x) \in Nat /\ Of(r, x) \in Nat
  BY <1>1 DEF Of
<1> HIDE DEF r
<1>5. Total(r) = Total(q) + Of(r, e) - Of(q, e)
  BY <1>2, <1>4, EventNames DEF Total
<1> QED BY <1>1, <1>3, <1>5 DEF r

LEMMA AddEventOK ==
  ASSUME NEW s, StateOK(s), NEW e \in Events
  PROVE  /\ StateOK(add_interrupt_event(s, e))
         /\ add_interrupt_event(s, e).checks = s.checks
<1> DEFINE t == add_interrupt_event(s, e)
<1>1. CASE PoolEmpty(s)
  BY <1>1 DEF add_interrupt_event
<1>2. CASE ~PoolEmpty(s)
  <2>1. /\ s.queued \in [Events -> Nat] /\ s.queued[e] \in Nat
        /\ s.queued[e] + 1 \in Nat /\ s.index + 1 \in Nat
    BY DEF StateOK, MachineOK, Machine
  <2>2. t = [s EXCEPT !.queued[e] = @ + 1, !.index = @ + 1]
    BY <1>2 DEF add_interrupt_event
  <2>3. /\ t.queued = [s.queued EXCEPT ![e] = s.queued[e] + 1]
        /\ t.index = s.index + 1 /\ t.checks = s.checks
        /\ t.status = s.status /\ t.cause = s.cause
        /\ t.intr = s.intr /\ t.mask = s.mask
        /\ t.refused = s.refused /\ t.cleared = s.cleared
        /\ t.unchecked = s.unchecked
    BY <2>2 DEF StateOK, MachineOK, Machine
  <2>4. /\ t.queued \in [Events -> Nat]
        /\ Total(t.queued) = Total(s.queued) + 1
    <3> HIDE DEF t
    <3>1. /\ t.queued \in [Events -> Nat]
          /\ Total(t.queued)
               = Total(s.queued) + (s.queued[e] + 1) - s.queued[e]
      BY <2>1, <2>3, TotalChange
    <3> QED BY <2>1, <3>1, TotalNat
  <2>5. t \in Machine
    BY <2>1, <2>2, <2>3, <2>4 DEF StateOK, MachineOK, Machine
  <2> HIDE DEF t
  <2>6. Counted(t)
    BY <2>1, <2>3, <2>4, TotalNat DEF StateOK, MachineOK, Machine, Counted
  <2>7. Armed(t) /\ Follows(t)
    BY <2>3 DEF StateOK, Armed, Follows, Deliverable, Enabled
  <2> QED BY <2>3, <2>5, <2>6, <2>7 DEF StateOK, MachineOK, t
<1> QED BY <1>1, <1>2

LEMMA RemoveEventOK ==
  ASSUME NEW s, StateOK(s), NEW e \in Events
  PROVE  StateOK(remove_event(s, e))
<1> DEFINE t == remove_event(s, e)
<1>1. CASE s.queued[e] = 0
  BY <1>1 DEF remove_event
<1>2. CASE s.queued[e] # 0
  <2>1. /\ s.queued \in [Events -> Nat] /\ s.queued[e] \in Nat
        /\ s.queued[e] - 1 \in Nat
    BY <1>2 DEF StateOK, MachineOK, Machine
  <2>2. t = [s EXCEPT !.queued[e] = @ - 1, !.index = @ - 1]
    BY <1>2 DEF remove_event
  <2>3. /\ t.queued = [s.queued EXCEPT ![e] = s.queued[e] - 1]
        /\ t.index = s.index - 1 /\ t.checks = s.checks
        /\ t.status = s.status /\ t.cause = s.cause
        /\ t.intr = s.intr /\ t.mask = s.mask
        /\ t.refused = s.refused /\ t.cleared = s.cleared
        /\ t.unchecked = s.unchecked
    BY <2>2 DEF StateOK, MachineOK, Machine
  <2>4. /\ t.queued \in [Events -> Nat]
        /\ Total(t.queued) = Total(s.queued) - 1
    BY <2>1, <2>3, TotalChange, TotalNat
  <2>5. t.index \in Nat /\ Counted(t)
    BY <2>1, <2>3, <2>4, TotalNat DEF StateOK, MachineOK, Machine, Counted
  <2>6. t \in Machine
    BY <2>1, <2>2, <2>3, <2>4, <2>5 DEF StateOK, MachineOK, Machine
  <2> HIDE DEF t
  <2>7. Armed(t) /\ Follows(t)
    BY <2>3 DEF StateOK, Armed, Follows, Deliverable, Enabled
  <2> QED BY <2>5, <2>6, <2>7 DEF StateOK, MachineOK, t
<1> QED BY <1>1, <1>2

-----------------------------------------------------------------------------
(* Checks and exceptions *)

\* check_interrupt restores the invariant whatever was done to Status, Cause
\* and the MI registers before it.
LEMMA CheckOK ==
  ASSUME NEW s, MachineOK(s)
  PROVE  StateOK(check_interrupt(s))
<1> DEFINE c == UpdateIP2(s)
<1>1. /\ c \in Machine /\ Counted(c)
      /\ c.intr = s.intr /\ c.mask = s.mask
      /\ ~c.refused /\ ~c.cleared /\ ~c.unchecked
  BY DEF MachineOK, Machine, UpdateIP2, Counted, IP
<1>2. Follows(c)
  BY <1>1 DEF UpdateIP2, MachineOK, Machine, Follows
<1> HIDE DEF c
<1>3. CASE ~Deliverable(c)
  <2>1. check_interrupt(s) = c
    BY <1>3 DEF check_interrupt, c
  <2> QED BY <1>1, <1>2, <1>3, <2>1 DEF StateOK, MachineOK, Armed
<1>4. CASE Deliverable(c) /\ PoolEmpty(c)
  <2> DEFINE t == [c EXCEPT !.refused = TRUE]
  <2>1. check_interrupt(s) = t
    BY <1>4 DEF check_interrupt, c
  <2>2. t \in Machine /\ Counted(t) /\ t.refused
    BY <1>1 DEF Machine, Counted
  <2>3. Follows(t)
    BY <1>1, <1>2 DEF Machine, Follows, Enabled
  <2> QED BY <2>1, <2>2, <2>3 DEF StateOK, MachineOK, Armed
<1>5. CASE Deliverable(c) /\ ~PoolEmpty(c)
  <2> DEFINE t == [c EXCEPT !.checks = @ + 1, !.index = @ + 1]
  <2>1. check_interrupt(s) = t
    BY <1>5 DEF check_interrupt, c
  <2>2. /\ t \in Machine /\ t.queued = c.queued
        /\ t.checks = c.checks + 1 /\ t.index = c.index + 1
    <3>1. c.checks + 1 \in Nat /\ c.index + 1 \in Nat
      BY <1>1 DEF Machine
    <3> QED BY <1>1, <3>1 DEF Machine
  <2>3. Total(c.queued) \in Nat /\ c.checks \in Nat
    BY <1>1, TotalNat DEF Machine
  <2>4. Counted(t) /\ t.checks > 0
    BY <1>1, <2>2, <2>3 DEF Counted
  <2>5. Follows(t)
    BY <1>1, <1>2 DEF Machine, Follows, Enabled
  <2> QED BY <2>1, <2>2, <2>4, <2>5 DEF StateOK, MachineOK, Armed
<1> QED BY <1>3, <1>4, <1>5

\* Nothing is owed to a CPU that takes no interrupts.
LEMMA DisabledOK ==
  ASSUME NEW s, MachineOK(s), ~Enabled(s)
  PROVE  StateOK(s)
BY DEF StateOK, Armed, Follows, Deliverable

LEMMA ExceptionOK ==
  ASSUME NEW s, MachineOK(s)
  PROVE  StateOK(exception_general(s))
<1> DEFINE t == exception_general(s)
<1>1. t \in Machine /\ t.queued = s.queued /\ t.checks = s.checks
      /\ t.index = s.index /\ t.status.exl
  BY DEF MachineOK, Machine, StatusValue, exception_general
<1> HIDE DEF t
<1>2. MachineOK(t) /\ ~Enabled(t)
  BY <1>1 DEF MachineOK, Counted, Enabled
<1> QED BY <1>2, DisabledOK DEF t

\* raise_maskable_interrupt, unless it sets IP2 for a line that is masked.
LEMMA MaskableOK ==
  ASSUME NEW s, MachineOK(s), NEW ip \in IP,
         Armed(s),
         ip # "IP2" => Follows(s),
         ip = "IP2" => s.intr \cap s.mask # {}
  PROVE  StateOK(raise_maskable_interrupt(s, ip))
<1> DEFINE c == [s EXCEPT !.cause = @ \cup {ip}]
<1>1. /\ c \in Machine /\ c.queued = s.queued /\ c.checks = s.checks
      /\ c.index = s.index /\ c.cause = s.cause \cup {ip}
      /\ c.intr = s.intr /\ c.mask = s.mask /\ c.status = s.status
      /\ c.cleared = s.cleared /\ c.unchecked = s.unchecked
  BY DEF MachineOK, Machine
<1> HIDE DEF c
<1>2. MachineOK(c)
  BY <1>1 DEF MachineOK, Counted
<1>3. CASE Deliverable(c)
  <2>1. raise_maskable_interrupt(s, ip) = exception_general(c)
    BY <1>3 DEF raise_maskable_interrupt, c
  <2> QED BY <1>2, <2>1, ExceptionOK
<1>4. CASE ~Deliverable(c)
  <2>1. raise_maskable_interrupt(s, ip) = c
    BY <1>4 DEF raise_maskable_interrupt, c
  <2>2. Follows(c)
    BY <1>1 DEF Follows, Enabled
  <2> QED BY <1>2, <1>4, <2>1, <2>2 DEF StateOK, Armed
<1> QED BY <1>3, <1>4

LEMMA RaiseOK ==
  ASSUME NEW s, StateOK(s), NEW line \in Lines
  PROVE  StateOK(raise_rcp_interrupt(s, line))
<1> DEFINE r == [s EXCEPT !.intr = @ \cup {line}]
<1>1. /\ r \in Machine /\ r.queued = s.queued /\ r.checks = s.checks
      /\ r.index = s.index /\ r.cause = s.cause
      /\ r.intr = s.intr \cup {line} /\ r.mask = s.mask
      /\ r.status = s.status /\ r.refused = s.refused
      /\ r.cleared = s.cleared /\ r.unchecked = s.unchecked
  BY DEF StateOK, MachineOK, Machine
<1> HIDE DEF r
<1>2. MachineOK(r) /\ Armed(r)
  BY <1>1 DEF StateOK, MachineOK, Counted, Armed, Deliverable, Enabled
<1>3. CASE r.intr \cap r.mask # {}
  <2>1. raise_rcp_interrupt(s, line) = raise_maskable_interrupt(r, "IP2")
    BY <1>3 DEF raise_rcp_interrupt, r
  <2> QED BY <1>2, <1>3, <2>1, MaskableOK DEF IP
<1>4. CASE r.intr \cap r.mask = {}
  <2>1. raise_rcp_interrupt(s, line) = r
    BY <1>4 DEF raise_rcp_interrupt, r
  <2>2. Follows(r)
    BY <1>1, <1>4 DEF StateOK, Follows, Enabled
  <2> QED BY <1>2, <2>1, <2>2 DEF StateOK
<1> QED BY <1>3, <1>4

-----------------------------------------------------------------------------
(* The event loop *)

LEMMA RestartOK ==
  ASSUME NEW s \in Machine, ~Enabled(s)
  PROVE  StateOK(RestartQueue(s))
<1> DEFINE q == [e \in Events |-> IF e = "VI" THEN 1 ELSE 0]
           t == RestartQueue(s)
<1>1. "VI" \in Events
  BY ConstantsAssumption DEF Events
<1>2. q \in [Events -> Nat]
  OBVIOUS
<1>3. Of(q, "VI") = 1 /\ \A e : e # "VI" => Of(q, e) = 0
  BY <1>1 DEF Of
<1>4. Total(q) = 1
  BY <1>3 DEF Total
<1>5. /\ t \in Machine /\ t.queued = q /\ t.checks = 0 /\ t.index = 2
      /\ t.status = s.status
  BY <1>2 DEF RestartQueue, Machine
<1> HIDE DEF q, t
<1>6. MachineOK(t) /\ ~Enabled(t)
  BY <1>4, <1>5 DEF MachineOK, Counted, Enabled
<1> QED BY <1>6, DisabledOK DEF t

LEMMA PowerOnOK == StateOK(PowerOn)
<1> DEFINE s == [intr |-> {}, mask |-> {},
                 status |-> [ie |-> FALSE, exl |-> FALSE, erl |-> FALSE,
                             im |-> {}],
                 cause |-> {}, checks |-> 0, index |-> 0,
                 queued |-> [e \in Events |-> 0],
                 reset_hard_job |-> FALSE, stop |-> FALSE,
                 refused |-> FALSE, cleared |-> FALSE, unchecked |-> FALSE]
<1>1. s \in Machine
  BY DEF Machine, StatusValue
<1>2. ~Enabled(s)
  BY DEF Enabled
<1>3. PowerOn = RestartQueue(s)
  BY DEF PowerOn
<1> HIDE DEF s
<1> QED BY <1>1, <1>2, <1>3, RestartOK

LEMMA NmiOK == ASSUME NEW s \in Machine PROVE StateOK(nmi_int_handler(s))
<1> DEFINE t == pifbootrom_hle_execute([s EXCEPT !.cause = {}])
<1>1. t \in Machine
  BY DEF Machine, StatusValue, pifbootrom_hle_execute
<1>2. ~t.status.ie
  BY DEF Machine, pifbootrom_hle_execute
<1>3. nmi_int_handler(s) = RestartQueue(t)
  BY DEF nmi_int_handler
<1> HIDE DEF t
<1> QED BY <1>1, <1>2, <1>3, RestartOK DEF Enabled

LEMMA Hw2OK == ASSUME NEW s, StateOK(s) PROVE StateOK(hw2_int_handler(s))
<1> DEFINE t == [s EXCEPT !.status.im = @ \cup {"IP4"},
                          !.cause = @ \cup {"IP4"}]
<1>1. /\ t \in Machine /\ t.queued = s.queued /\ t.checks = s.checks
      /\ t.index = s.index
  BY DEF StateOK, MachineOK, Machine, StatusValue, IP
<1>2. hw2_int_handler(s) = exception_general(t)
  BY DEF hw2_int_handler
<1> HIDE DEF t
<1>3. MachineOK(t)
  BY <1>1 DEF StateOK, MachineOK, Counted
<1> QED BY <1>2, <1>3, ExceptionOK

LEMMA TakeCheckOK ==
  ASSUME NEW s, StateOK(s), s.checks > 0
  PROVE  StateOK(TakeCheck(s))
<1> DEFINE t == [s EXCEPT !.checks = @ - 1, !.index = @ - 1]
<1>1. Total(s.queued) \in Nat /\ s.checks \in Nat /\ s.index \in Nat
  BY TotalNat DEF StateOK, MachineOK, Machine
<1>2. s.checks - 1 \in Nat /\ s.index - 1 \in Nat
  BY <1>1 DEF StateOK, MachineOK, Counted
<1>3. /\ t \in Machine /\ t.queued = s.queued /\ t.checks = s.checks - 1
      /\ t.index = s.index - 1
  BY <1>2 DEF StateOK, MachineOK, Machine
<1>4. TakeCheck(s) = exception_general(t)
  BY DEF TakeCheck
<1> HIDE DEF t
<1>5. MachineOK(t)
  BY <1>1, <1>3 DEF StateOK, MachineOK, Counted
<1> QED BY <1>4, <1>5, ExceptionOK

LEMMA DispatchOK ==
  ASSUME NEW s, StateOK(s), NEW e \in Due(s), NEW t \in Dispatch(s, e)
  PROVE  StateOK(t)
<1>1. CASE e = "CHECK" /\ s.checks > 0
  <2>1. t = TakeCheck(s)
    BY <1>1 DEF Dispatch
  <2> QED BY <1>1, <2>1, TakeCheckOK
<1>2. CASE e \in Events
  <2> DEFINE r == remove_event(s, e)
  <2>0. e # "CHECK"
    BY <1>2, EventNames
  <2>1. StateOK(r)
    BY <1>2, RemoveEventOK
  <2> HIDE DEF r
  <2>2. CASE e = "VI"
    <3> DEFINE a == add_interrupt_event(r, "VI")
    <3>1. StateOK(a) /\ "VI" \in Lines
      BY <1>2, <2>1, <2>2, AddEventOK, ConstantsAssumption
    <3>2. t = raise_rcp_interrupt(a, "VI")
      BY <2>2 DEF Dispatch, r
    <3> HIDE DEF a
    <3> QED BY <3>1, <3>2, RaiseOK
  <2>3. CASE e = "COMPARE"
    <3> DEFINE a == add_interrupt_event(r, "COMPARE")
    <3>1. StateOK(a)
      BY <1>2, <2>1, <2>3, AddEventOK
    <3>2. t = raise_maskable_interrupt(a, "IP7")
      BY <2>3 DEF Dispatch, r
    <3> HIDE DEF a
    <3> QED BY <3>1, <3>2, MaskableOK DEF StateOK, IP
  <2>4. CASE e = "HW2"
    <3>1. t = hw2_int_handler(r)
      BY <2>4 DEF Dispatch, r
    <3> QED BY <2>1, <3>1, Hw2OK
  <2>5. CASE e = "NMI"
    <3>1. t = nmi_int_handler(r)
      BY <2>5 DEF Dispatch, r
    <3> QED BY <2>1, <3>1, NmiOK DEF StateOK, MachineOK
  <2>6. CASE e \notin {"VI", "COMPARE", "HW2", "NMI"}
    <3>1. e \in Lines
      BY <1>2, <2>6 DEF Events, Internal
    <3>2. t \in {r, raise_rcp_interrupt(r, e)}
      BY <2>0, <2>6 DEF Dispatch, r
    <3> QED BY <2>1, <3>1, <3>2, RaiseOK
  <2> QED BY <2>2, <2>3, <2>4, <2>5, <2>6
<1>3. s.checks \in Nat
  BY DEF StateOK, MachineOK, Machine
<1> QED BY <1>1, <1>2, <1>3 DEF Due

LEMMA PollOK ==
  ASSUME NEW s, StateOK(s), NEW unsafe \in BOOLEAN, NEW t \in Poll(s, unsafe)
  PROVE  StateOK(t)
<1>1. t = s \/ t = PowerOn \/ \E e \in Due(s) : t \in Dispatch(s, e)
  BY DEF Poll, gen_interrupt
<1> QED BY <1>1, PowerOnOK, DispatchOK

-----------------------------------------------------------------------------
(* What the operators leave alone, for the devices *)

LEMMA CheckKeeps ==
  ASSUME NEW s \in Machine
  PROVE  /\ check_interrupt(s).queued = s.queued
         /\ check_interrupt(s).intr = s.intr
         /\ check_interrupt(s).reset_hard_job = s.reset_hard_job
<1> DEFINE c == UpdateIP2(s)
<1>1. /\ c \in Machine
      /\ c.queued = s.queued /\ c.intr = s.intr
      /\ c.reset_hard_job = s.reset_hard_job
  BY DEF Machine, UpdateIP2, IP
<1>2. check_interrupt(s) \in
        {c, [c EXCEPT !.refused = TRUE],
         [c EXCEPT !.checks = @ + 1, !.index = @ + 1]}
  BY DEF check_interrupt
<1> HIDE DEF c
<1> QED BY <1>1, <1>2 DEF Machine

LEMMA TakeCheckKeeps ==
  ASSUME NEW s \in Machine
  PROVE  /\ TakeCheck(s).queued = s.queued /\ TakeCheck(s).intr = s.intr
         /\ TakeCheck(s).reset_hard_job = s.reset_hard_job
BY DEF TakeCheck, exception_general, Machine

LEMMA MaskableKeeps ==
  ASSUME NEW s \in Machine, NEW ip \in IP
  PROVE  /\ raise_maskable_interrupt(s, ip).queued = s.queued
         /\ raise_maskable_interrupt(s, ip).intr = s.intr
         /\ raise_maskable_interrupt(s, ip).reset_hard_job = s.reset_hard_job
BY DEF raise_maskable_interrupt, exception_general, Machine

LEMMA RaiseKeeps ==
  ASSUME NEW s \in Machine, NEW line \in Lines
  PROVE  /\ raise_rcp_interrupt(s, line).queued = s.queued
         /\ raise_rcp_interrupt(s, line).intr = s.intr \cup {line}
         /\ raise_rcp_interrupt(s, line).reset_hard_job = s.reset_hard_job
<1> DEFINE r == [s EXCEPT !.intr = @ \cup {line}]
<1>1. /\ r \in Machine /\ r.queued = s.queued /\ r.intr = s.intr \cup {line}
      /\ r.reset_hard_job = s.reset_hard_job
  BY DEF Machine
<1>2. raise_rcp_interrupt(s, line) \in {r, raise_maskable_interrupt(r, "IP2")}
  BY DEF raise_rcp_interrupt
<1> HIDE DEF r
<1> QED BY <1>1, <1>2, MaskableKeeps DEF IP

LEMMA AddKeeps ==
  ASSUME NEW s \in Machine, NEW e \in Events
  PROVE  /\ add_interrupt_event(s, e) \in Machine
         /\ add_interrupt_event(s, e).intr = s.intr
         /\ add_interrupt_event(s, e).reset_hard_job = s.reset_hard_job
         /\ \A f \in Events \ {e} :
              add_interrupt_event(s, e).queued[f] = s.queued[f]
         /\ add_interrupt_event(s, e).queued[e] =
              IF PoolEmpty(s) THEN s.queued[e] ELSE s.queued[e] + 1
<1>1. s.queued \in [Events -> Nat] /\ s.queued[e] + 1 \in Nat /\ s.index + 1 \in Nat
  BY DEF Machine
<1> QED BY <1>1 DEF add_interrupt_event, Machine

LEMMA RemoveKeeps ==
  ASSUME NEW s, StateOK(s), NEW e \in Events, s.queued[e] > 0
  PROVE  /\ remove_event(s, e) \in Machine
         /\ remove_event(s, e).intr = s.intr
         /\ remove_event(s, e).reset_hard_job = s.reset_hard_job
         /\ \A f \in Events \ {e} : remove_event(s, e).queued[f] = s.queued[f]
         /\ remove_event(s, e).queued[e] = s.queued[e] - 1
<1>1. s \in Machine /\ s.queued \in [Events -> Nat] /\ s.queued[e] \in Nat
  BY DEF StateOK, MachineOK, Machine
<1>2. remove_event(s, e) \in Machine
  BY RemoveEventOK DEF StateOK, MachineOK
<1>3. remove_event(s, e) = [s EXCEPT !.queued[e] = @ - 1, !.index = @ - 1]
  BY <1>1 DEF remove_event
<1>4. remove_event(s, e).queued = [s.queued EXCEPT ![e] = s.queued[e] - 1]
  BY <1>1, <1>3 DEF Machine
<1> QED BY <1>1, <1>2, <1>3, <1>4 DEF Machine

\* The dispatch of e, not an NMI: the other queues and lines stay, the line of
\* e is set (an SP_INT may leave it), and an event that is not queued again
\* is gone.
LEMMA DispatchKeeps ==
  ASSUME NEW s, StateOK(s), NEW e \in Due(s), e # "NMI", NEW t \in Dispatch(s, e)
  PROVE  /\ t.reset_hard_job = s.reset_hard_job
         /\ \A f \in Events : f # e => t.queued[f] = s.queued[f]
         /\ \/ t.intr = s.intr /\ e \in {"CHECK", "COMPARE", "HW2", "SP"}
            \/ t.intr = s.intr \cup {e} /\ e \in Lines
         /\ e \in Events \ {"VI", "COMPARE"} => t.queued[e] = s.queued[e] - 1
<1>0. s \in Machine
  BY DEF StateOK, MachineOK
<1>1. CASE e = "CHECK"
  <2>1. t = TakeCheck(s)
    BY <1>1 DEF Dispatch
  <2>2. e \notin Events
    BY <1>1, EventNames
  <2> QED BY <1>0, <1>1, <2>1, <2>2, TakeCheckKeeps
<1>2. CASE e \in Events /\ s.queued[e] > 0
  <2> DEFINE r == remove_event(s, e)
  <2>0. e # "CHECK"
    BY <1>2, EventNames
  <2>1. /\ r \in Machine /\ r.intr = s.intr
        /\ r.reset_hard_job = s.reset_hard_job
        /\ \A f \in Events \ {e} : r.queued[f] = s.queued[f]
        /\ r.queued[e] = s.queued[e] - 1
    BY <1>2, RemoveKeeps
  <2> HIDE DEF r
  <2>2. CASE e = "VI"
    <3> DEFINE a == add_interrupt_event(r, "VI")
    <3>1. /\ a \in Machine /\ a.intr = r.intr
          /\ a.reset_hard_job = r.reset_hard_job
          /\ \A f \in Events \ {e} : a.queued[f] = r.queued[f]
      BY <1>2, <2>1, <2>2, AddKeeps
    <3>2. t = raise_rcp_interrupt(a, "VI") /\ "VI" \in Lines
      BY <2>2, ConstantsAssumption DEF Dispatch, r
    <3> HIDE DEF a
    <3>3. /\ t.queued = a.queued /\ t.intr = a.intr \cup {"VI"}
          /\ t.reset_hard_job = a.reset_hard_job
      BY <3>1, <3>2, RaiseKeeps
    <3> QED BY <2>1, <2>2, <3>1, <3>2, <3>3
  <2>3. CASE e = "COMPARE"
    <3> DEFINE a == add_interrupt_event(r, "COMPARE")
    <3>1. /\ a \in Machine /\ a.intr = r.intr
          /\ a.reset_hard_job = r.reset_hard_job
          /\ \A f \in Events \ {e} : a.queued[f] = r.queued[f]
      BY <1>2, <2>1, <2>3, AddKeeps
    <3>2. t = raise_maskable_interrupt(a, "IP7")
      BY <2>3 DEF Dispatch, r
    <3> HIDE DEF a
    <3>3. /\ t.queued = a.queued /\ t.intr = a.intr
          /\ t.reset_hard_job = a.reset_hard_job
      BY <3>1, <3>2, MaskableKeeps DEF IP
    <3> QED BY <2>1, <2>3, <3>1, <3>3
  <2>4. CASE e = "HW2"
    <3>1. t = hw2_int_handler(r)
      BY <2>4 DEF Dispatch, r
    <3>2. /\ t.queued = r.queued /\ t.intr = r.intr
          /\ t.reset_hard_job = r.reset_hard_job
      BY <2>1, <3>1 DEF hw2_int_handler, exception_general, Machine
    <3> QED BY <2>1, <2>4, <3>2
  <2>5. CASE e \notin {"VI", "COMPARE", "HW2"}
    <3>1. e \in Lines
      BY <1>2, <2>5 DEF Events, Internal
    <3>2. t = raise_rcp_interrupt(r, e) \/ (t = r /\ e = "SP")
      BY <2>0, <2>5 DEF Dispatch, r
    <3>3. /\ t.queued = r.queued /\ t.reset_hard_job = r.reset_hard_job
          /\ t.intr = r.intr \cup {e} \/ (t.intr = r.intr /\ e = "SP")
      BY <2>1, <3>1, <3>2, RaiseKeeps
    <3> QED BY <2>1, <2>5, <3>1, <3>3
  <2> QED BY <2>2, <2>3, <2>4, <2>5
<1> QED BY <1>1, <1>2 DEF Due

\* An NMI takes back the lines of PI, VI, AI and SP.
LEMMA NmiKeeps ==
  ASSUME NEW s, StateOK(s), "NMI" \in Due(s), NEW t \in Dispatch(s, "NMI")
  PROVE  t.intr = s.intr \ {"PI", "VI", "AI", "SP"}
<1>1. "NMI" \in Events /\ s.queued["NMI"] > 0
  BY DEF Due, Events, Internal
<1> DEFINE r == remove_event(s, "NMI")
<1>2. r \in Machine /\ r.intr = s.intr
  BY <1>1, RemoveKeeps
<1>3. t = nmi_int_handler(r)
  BY DEF Dispatch
<1> HIDE DEF r
<1> QED BY <1>2, <1>3
  DEF nmi_int_handler, RestartQueue, pifbootrom_hle_execute, Machine

\* Settle is the dispatch of a CHECK_INT, if there is one.
LEMMA SettleOK ==
  ASSUME NEW s, StateOK(s)
  PROVE  /\ StateOK(Settle(s))
         /\ Settle(s).queued = s.queued /\ Settle(s).intr = s.intr
         /\ Settle(s).reset_hard_job = s.reset_hard_job
BY TakeCheckOK, TakeCheckKeeps DEF Settle, StateOK, MachineOK

-----------------------------------------------------------------------------
(* The steps *)

LEMMA InitOK == Init => Inv
BY PowerOnOK DEF Init, Inv

\* An action that ends in a check: s is the machine before it.
LEMMA SameCounts ==
  ASSUME NEW s, NEW t \in Machine, StateOK(s),
         t.queued = s.queued, t.checks = s.checks, t.index = s.index
  PROVE  StateOK(check_interrupt(t))
<1>1. MachineOK(t)
  BY DEF StateOK, MachineOK, Counted
<1> QED BY <1>1, CheckOK

LEMMA PluginSetsOK ==
  ASSUME NEW s, StateOK(s), NEW lines \in SUBSET Lines
  PROVE  StateOK(PluginSets(s, lines))
<1>1. CASE lines = {}
  BY <1>1 DEF PluginSets
<1>2. CASE lines # {}
  <2> DEFINE t == [s EXCEPT !.intr = @ \cup lines, !.unchecked = TRUE]
  <2>1. /\ t \in Machine /\ t.queued = s.queued /\ t.checks = s.checks
        /\ t.index = s.index /\ t.status = s.status /\ t.cause = s.cause
        /\ t.refused = s.refused /\ t.unchecked
    BY DEF StateOK, MachineOK, Machine
  <2>2. PluginSets(s, lines) = t
    BY <1>2 DEF PluginSets
  <2> HIDE DEF t
  <2> QED BY <2>1, <2>2
    DEF StateOK, MachineOK, Counted, Armed, Follows, Deliverable, Enabled
<1> QED BY <1>1, <1>2

LEMMA DeferDpOK ==
  ASSUME NEW s, StateOK(s)
  PROVE  StateOK(DeferDp(s))
<1>1. CASE "DP" \notin s.intr
  BY <1>1 DEF DeferDp
<1>2. CASE "DP" \in s.intr
  <2> DEFINE a == add_interrupt_event(s, "DP")
             t == [a EXCEPT !.intr = @ \ {"DP"}, !.unchecked = TRUE]
  <2>1. StateOK(a)
    BY <1>2, AddEventOK DEF StateOK, MachineOK, Machine, Events
  <2>2. DeferDp(s) = t
    BY <1>2 DEF DeferDp
  <2> HIDE DEF a
  <2>3. /\ t \in Machine /\ t.queued = a.queued /\ t.checks = a.checks
        /\ t.index = a.index /\ t.status = a.status /\ t.cause = a.cause
        /\ t.refused = a.refused /\ t.unchecked
    BY <2>1 DEF StateOK, MachineOK, Machine
  <2> HIDE DEF t
  <2> QED BY <2>1, <2>2, <2>3
    DEF StateOK, MachineOK, Counted, Armed, Follows, Deliverable, Enabled
<1> QED BY <1>1, <1>2

LEMMA ResetHardOK == Inv /\ reset_hard => Inv'
<1> SUFFICES ASSUME StateOK(m), reset_hard PROVE StateOK(m')
  BY DEF Inv
<1>1. /\ m' \in Machine /\ m'.queued = m.queued /\ m'.checks = m.checks
      /\ m'.index = m.index /\ m'.status = m.status /\ m'.cause = m.cause
      /\ m'.intr = m.intr /\ m'.mask = m.mask
      /\ m'.refused = m.refused /\ m'.cleared = m.cleared
      /\ m'.unchecked = m.unchecked
  BY DEF StateOK, MachineOK, Machine, reset_hard
<1> QED BY <1>1
  DEF StateOK, MachineOK, Counted, Armed, Follows, Deliverable, Enabled

LEMMA StepOK == Inv /\ [Next]_m => Inv'
<1> SUFFICES ASSUME StateOK(m), Next PROVE StateOK(m')
  BY DEF Inv
<1>0. /\ m \in Machine /\ m.intr \in SUBSET Lines /\ m.cause \in SUBSET IP
      /\ m.status \in StatusValue
  BY DEF StateOK, MachineOK, Machine
<1>1. CASE Jump
  BY <1>1, PollOK DEF Jump
<1>2. CASE \E line \in Lines : SignalLine(line) \/ ClearLine(line)
  <2>1. PICK line \in Lines :
          \/ m' = check_interrupt([m EXCEPT !.intr = @ \cup {line}])
          \/ m' = check_interrupt([m EXCEPT !.intr = @ \ {line}])
    BY <1>2 DEF SignalLine, ClearLine, signal_rcp_interrupt,
                clear_rcp_interrupt
  <2>2. PICK x \in SUBSET Lines : m' = check_interrupt([m EXCEPT !.intr = x])
    <3>1. m.intr \cup {line} \in SUBSET Lines /\ m.intr \ {line} \in SUBSET Lines
      BY <1>0
    <3> QED BY <2>1, <3>1
  <2> DEFINE t == [m EXCEPT !.intr = x]
  <2>3. /\ t \in Machine
        /\ t.queued = m.queued /\ t.checks = m.checks /\ t.index = m.index
    BY <1>0 DEF Machine
  <2> QED BY <2>2, <2>3, SameCounts
<1>3. CASE \E lines \in SUBSET Lines : RspTask(lines)
  BY <1>3, PluginSetsOK, DeferDpOK DEF RspTask
<1>4. CASE \E clear, set \in SUBSET Lines : WriteMiIntrMask(clear, set)
  <2>1. PICK clear \in SUBSET Lines, set \in SUBSET Lines :
          WriteMiIntrMask(clear, set)
    BY <1>4
  <2> DEFINE t == update_mi_intr_mask(m, clear, set)
  <2>2. /\ t \in Machine
        /\ t.queued = m.queued /\ t.checks = m.checks /\ t.index = m.index
    BY <1>0 DEF Machine, update_mi_intr_mask
  <2>3. m' \in Poll(check_interrupt(t), FALSE)
    BY <2>1 DEF WriteMiIntrMask
  <2> HIDE DEF t
  <2> QED BY <2>2, <2>3, SameCounts, PollOK
<1>5. CASE \E v \in StatusValues : MTC0_Status(v)
  <2>1. PICK v \in StatusValues : MTC0_Status(v)
    BY <1>5
  <2> DEFINE t == [m EXCEPT !.status = v]
  <2>2. /\ t \in Machine
        /\ t.queued = m.queued /\ t.checks = m.checks /\ t.index = m.index
    BY <1>0, ConstantsAssumption DEF Machine
  <2>3. m' \in Poll(check_interrupt(t), TRUE)
    BY <2>1 DEF MTC0_Status
  <2> HIDE DEF t
  <2> QED BY <2>2, <2>3, SameCounts, PollOK
<1>6. CASE MTC0_Compare
  <2> DEFINE a == add_interrupt_event(remove_event(m, "COMPARE"), "COMPARE")
  <2>1. "COMPARE" \in Events
    BY DEF Events, Internal
  <2>2. StateOK(a)
    BY <2>1, RemoveEventOK, AddEventOK
  <2>3. m' = [a EXCEPT !.cause = @ \ {"IP7"}]
    BY <1>6 DEF MTC0_Compare
  <2> HIDE DEF a
  <2>4. /\ m' \in Machine /\ m'.queued = a.queued /\ m'.checks = a.checks
        /\ m'.index = a.index /\ m'.status = a.status
        /\ m'.cause = a.cause \ {"IP7"}
        /\ m'.intr = a.intr /\ m'.mask = a.mask
        /\ m'.refused = a.refused /\ m'.cleared = a.cleared
        /\ m'.unchecked = a.unchecked
    BY <2>2, <2>3 DEF StateOK, MachineOK, Machine
  <2> QED BY <2>2, <2>4
    DEF StateOK, MachineOK, Counted, Armed, Follows, Deliverable, Enabled
<1>7. CASE MTC0_Count
  <2>1. PICK s \in Poll(m, TRUE) :
          m' = add_interrupt_event(remove_event(s, "COMPARE"), "COMPARE")
    BY <1>7 DEF MTC0_Count
  <2>2. StateOK(s) /\ "COMPARE" \in Events
    BY <2>1, PollOK DEF Events, Internal
  <2> QED BY <2>1, <2>2, RemoveEventOK, AddEventOK
<1>8. CASE MTC0_Cause
  <2>1. /\ m' \in Machine /\ m'.queued = m.queued /\ m'.checks = m.checks
        /\ m'.index = m.index /\ m'.cause = {} /\ m'.cleared
    BY <1>0, <1>8 DEF Machine, MTC0_Cause
  <2> QED BY <2>1
    DEF StateOK, MachineOK, Counted, Armed, Follows, Deliverable
<1>9. CASE Exception
  <2> DEFINE t == [m EXCEPT !.cause = {}]
  <2>1. /\ t \in Machine
        /\ t.queued = m.queued /\ t.checks = m.checks /\ t.index = m.index
    BY <1>0 DEF Machine
  <2>2. m' = exception_general(t)
    BY <1>9 DEF Exception
  <2> HIDE DEF t
  <2>3. MachineOK(t)
    BY <2>1 DEF StateOK, MachineOK, Counted
  <2> QED BY <2>2, <2>3, ExceptionOK
<1>10. CASE ERET
  <2> DEFINE t == IF m.status.erl THEN [m EXCEPT !.stop = TRUE]
                  ELSE [m EXCEPT !.status.exl = FALSE]
  <2>1. /\ t \in Machine
        /\ t.queued = m.queued /\ t.checks = m.checks /\ t.index = m.index
    BY <1>0 DEF Machine, StatusValue
  <2>2. m' \in Poll(check_interrupt(t), FALSE)
    BY <1>10 DEF ERET
  <2> HIDE DEF t
  <2> QED BY <2>1, <2>2, SameCounts, PollOK
<1>11. CASE \E e \in Events : StartDevice(e)
  BY <1>11, AddEventOK DEF StartDevice
<1>12. CASE DiskInterrupt
  <2> DEFINE t == [m EXCEPT !.cause = @ \cup {"IP3"}]
  <2>1. /\ t \in Machine
        /\ t.queued = m.queued /\ t.checks = m.checks /\ t.index = m.index
    BY <1>0 DEF Machine, IP
  <2>2. m' = check_interrupt(t)
    BY <1>12 DEF DiskInterrupt
  <2> HIDE DEF t
  <2> QED BY <2>1, <2>2, SameCounts
<1>13. CASE DiskAcknowledge
  <2> DEFINE t == [m EXCEPT !.cause = @ \ {"IP3"}]
  <2>1. /\ t \in Machine
        /\ t.queued = m.queued /\ t.checks = m.checks /\ t.index = m.index
    BY <1>0 DEF Machine
  <2>2. m' = check_interrupt(t)
    BY <1>13 DEF DiskAcknowledge
  <2> HIDE DEF t
  <2> QED BY <2>1, <2>2, SameCounts
<1>14. CASE reset_soft
  <2>1. "HW2" \in Events /\ "NMI" \in Events
    BY DEF Events, Internal
  <2> QED BY <1>14, <2>1, AddEventOK DEF reset_soft
<1>15. CASE reset_hard
  BY <1>15, ResetHardOK DEF Inv
<1> QED
  BY <1>1, <1>2, <1>3, <1>4, <1>5, <1>6, <1>7, <1>8, <1>9, <1>10, <1>11,
     <1>12, <1>13, <1>14, <1>15 DEF Next

LEMMA Invariance == SafeSpec => []Inv
BY InitOK, StepOK, PTL DEF SafeSpec

\* No order of signals, acknowledgements, mask and Status writes, exceptions,
\* events and resets forgets a pending interrupt: a CHECK_INT is queued for it
\* or the full pool refused one (check_interrupt, raise_rcp_interrupt).
THEOREM DeliveryArmedAlways == SafeSpec => []DeliveryArmed
<1>1. Inv => DeliveryArmed
  BY DEF Inv, StateOK, MachineOK, Armed, DeliveryArmed, TypeOK
<1> QED BY <1>1, Invariance, PTL

\* While interrupts are enabled, IP2 of Cause is the or of the unmasked lines of
\* the MI, although exceptions overwrite Cause (check_interrupt at every way
\* back to enabled interrupts).
THEOREM CauseFollowsMiAlways == SafeSpec => []CauseFollowsMi
<1>1. Inv => CauseFollowsMi
  BY DEF Inv, StateOK, Follows, CauseFollowsMi
<1> QED BY <1>1, Invariance, PTL

\* The event pool's index counts the queued nodes exactly: alloc_node and
\* free_node are balanced over every handler, and the queue is full only when
\* that many events are in it.
THEOREM PoolCounted == SafeSpec => []Counted(m)
<1>1. Inv => Counted(m)
  BY DEF Inv, StateOK, MachineOK
<1> QED BY <1>1, Invariance, PTL

=============================================================================
