-------------------------- MODULE EventQueue_proofs --------------------------
(***************************************************************************)
(* The wrap marker is in the event queue exactly once as long as the pool  *)
(* of nodes never ran out, and the queue is never empty even when it did,  *)
(* for any modulus of Count, size of the pool, delays and register writes. *)
(* No event is dispatched before its time as long as none waits too long.  *)
(***************************************************************************)
EXTENDS EventQueue, FiniteSetTheorems, SequenceTheorems, WellFoundedInduction, TLAPS

-----------------------------------------------------------------------------
(* Induction, stated with a set instead of a predicate *)

LEMMA SmallestNat ==
  ASSUME NEW T \in SUBSET Nat, T # {}
  PROVE  \E x \in T : \A y \in T : x <= y
<1> DEFINE R == OpToRel(<, Nat)
<1>1. IsWellFoundedOn(R, Nat)
  BY NatLessThanWellFounded
<1>2. \A x, y \in Nat : y < x => <<y, x>> \in R
  BY DEF OpToRel
<1> HIDE DEF R
<1>3. PICK x \in T : \A y \in T : ~(<<y, x>> \in R)
  BY <1>1, WFMin
<1>4. ASSUME NEW y \in T PROVE ~(y < x)
  BY <1>2, <1>3, Zenon
<1>5. \A y \in T : x <= y
  BY <1>4
<1> QED BY <1>5

LEMMA InductionOnNat ==
  ASSUME NEW S, 0 \in S, \A n \in Nat : n \in S => n + 1 \in S
  PROVE  Nat \subseteq S
<1> SUFFICES ASSUME Nat \ S # {} PROVE FALSE
  OBVIOUS
<1>1. PICK n \in Nat \ S : \A y \in Nat \ S : n <= y
  BY SmallestNat
<1>2. n # 0 /\ n - 1 \in Nat /\ ~(n <= n - 1)
  OBVIOUS
<1>3. n - 1 \in S
  BY <1>1, <1>2
<1> QED BY <1>2, <1>3

-----------------------------------------------------------------------------
(* Sequences of events *)

\* The types that put themselves back when they are dispatched.
Lasting == {"SPECIAL", "VI", "COMPARE"}

NoSpecial(q) == \A k \in 1 .. Len(q) : q[k].type # "SPECIAL"

OneSpecial(q) ==
  \E k \in 1 .. Len(q) :
    /\ q[k].type = "SPECIAL"
    /\ \A j \in 1 .. Len(q) : q[j].type = "SPECIAL" => j = k

HasLasting(q) == \E k \in 1 .. Len(q) : q[k].type \in Lasting

\* w is q with e put in at p.
PutIn(q, e, p, w) ==
  /\ w \in Seq(Event) /\ Len(w) = Len(q) + 1
  /\ \A j \in 1 .. Len(w) :
       w[j] = IF j < p THEN q[j] ELSE IF j = p THEN e ELSE q[j - 1]

Inserted(q, e, w) == \E p \in 1 .. Len(q) + 1 : PutIn(q, e, p, w)

\* w is q without its k-th event.
Removed(q, k, w) ==
  /\ w \in Seq(Event) /\ Len(w) = Len(q) - 1
  /\ \A j \in 1 .. Len(w) : w[j] = IF j < k THEN q[j] ELSE q[j + 1]

\* w has events of the same types in the same places.
SameTypes(q, w) ==
  /\ w \in Seq(Event) /\ Len(w) = Len(q)
  /\ \A j \in 1 .. Len(w) : w[j].type = q[j].type

LEMMA PutFirst ==
  ASSUME NEW q \in Seq(Event), NEW e \in Event
  PROVE  PutIn(q, e, 1, <<e>> \o q)
<1> DEFINE w == <<e>> \o q
<1>1. <<e>> \in Seq(Event) /\ Len(<<e>>) = 1 /\ <<e>>[1] = e
  OBVIOUS
<1>2. w \in Seq(Event) /\ Len(w) = Len(q) + 1 /\ Len(q) \in Nat
  BY <1>1
<1>3. \A j \in 1 .. Len(w) : w[j] = IF j < 1 THEN q[j] ELSE IF j = 1 THEN e ELSE q[j - 1]
  BY <1>1, <1>2
<1> HIDE DEF w
<1>4. PutIn(q, e, 1, w)
  BY <1>2, <1>3 DEF PutIn
<1> QED BY <1>4 DEF w

LEMMA InsertFirst ==
  ASSUME NEW q \in Seq(Event), NEW e \in Event
  PROVE  Inserted(q, e, <<e>> \o q)
<1>1. 1 \in 1 .. Len(q) + 1
  OBVIOUS
<1> QED BY <1>1, PutFirst DEF Inserted

LEMMA PutAt ==
  ASSUME NEW q \in Seq(Event), NEW e \in Event, NEW p \in 1 .. Len(q) + 1
  PROVE  PutIn(q, e, p, InsertAt(q, p, e))
<1> DEFINE a == SubSeq(q, 1, p - 1)
           b == SubSeq(q, p, Len(q))
           w == a \o <<e>> \o b
<1>1. Len(q) \in Nat /\ p \in Nat
  OBVIOUS
<1>2. a \in Seq(Event) /\ Len(a) = p - 1 /\ \A j \in 1 .. p - 1 : a[j] = q[j]
  BY <1>1
<1>3. /\ b \in Seq(Event) /\ Len(b) = Len(q) - p + 1
      /\ \A j \in 1 .. Len(q) - p + 1 : b[j] = q[p + j - 1]
  BY <1>1
<1>4. w = InsertAt(q, p, e)
  BY DEF InsertAt
<1> HIDE DEF a, b
<1>5. w \in Seq(Event) /\ Len(w) = Len(q) + 1
  BY <1>1, <1>2, <1>3
<1>6. ASSUME NEW j \in 1 .. Len(w)
      PROVE  w[j] = IF j < p THEN q[j] ELSE IF j = p THEN e ELSE q[j - 1]
  <2> DEFINE c == a \o <<e>>
  <2>1. /\ c \in Seq(Event) /\ Len(c) = p /\ c[p] = e
        /\ \A i \in 1 .. p - 1 : c[i] = q[i]
    <3> DEFINE d == <<e>>
    <3>1. d \in Seq(Event) /\ Len(d) = 1 /\ d[1] = e
      OBVIOUS
    <3> HIDE DEF d
    <3>2. /\ a \o d \in Seq(Event) /\ Len(a \o d) = Len(a) + Len(d)
          /\ \A i \in 1 .. Len(a) + Len(d) :
               (a \o d)[i] = IF i <= Len(a) THEN a[i] ELSE d[i - Len(a)]
      BY <1>2, <3>1, ConcatProperties
    <3>3. c = a \o d
      BY DEF d
    <3> HIDE DEF c
    <3> QED BY <1>1, <1>2, <3>1, <3>2, <3>3
  <2>2. w = c \o b
    OBVIOUS
  <2> HIDE DEF c, w
  <2>3. CASE j <= p
    <3>1. w[j] = c[j]
      BY <1>1, <1>3, <1>5, <2>1, <2>2, <2>3
    <3> QED BY <1>1, <2>1, <2>3, <3>1
  <2>4. CASE j > p
    <3>1. w[j] = b[j - p]
      BY <1>1, <1>3, <1>5, <2>1, <2>2, <2>4
    <3>2. j - p \in 1 .. Len(q) - p + 1 /\ p + (j - p) - 1 = j - 1
      BY <1>1, <1>5, <2>4
    <3> QED BY <1>1, <1>3, <2>4, <3>1, <3>2
  <2> QED BY <1>1, <2>3, <2>4
<1> HIDE DEF w
<1>7. PutIn(q, e, p, w)
  BY <1>5, <1>6 DEF PutIn
<1> QED BY <1>4, <1>7

LEMMA InsertAtOK ==
  ASSUME NEW q \in Seq(Event), NEW e \in Event, NEW p \in 1 .. Len(q) + 1
  PROVE  Inserted(q, e, InsertAt(q, p, e))
BY PutAt DEF Inserted

LEMMA RemoveAtOK ==
  ASSUME NEW q \in Seq(Event), NEW k \in 1 .. Len(q)
  PROVE  Removed(q, k, RemoveAt(q, k))
<1> DEFINE a == SubSeq(q, 1, k - 1)
           b == SubSeq(q, k + 1, Len(q))
           w == a \o b
<1>1. Len(q) \in Nat /\ k \in Nat
  OBVIOUS
<1>2. a \in Seq(Event) /\ Len(a) = k - 1 /\ \A j \in 1 .. k - 1 : a[j] = q[j]
  BY <1>1
<1>3. /\ b \in Seq(Event) /\ Len(b) = Len(q) - k
      /\ \A j \in 1 .. Len(q) - k : b[j] = q[k + j]
  BY <1>1
<1>4. w = RemoveAt(q, k)
  BY DEF RemoveAt
<1> HIDE DEF a, b
<1>5. w \in Seq(Event) /\ Len(w) = Len(q) - 1
  <2>1. a \o b \in Seq(Event) /\ Len(a \o b) = Len(a) + Len(b)
    BY <1>2, <1>3, ConcatProperties
  <2> QED BY <1>1, <1>2, <1>3, <2>1
<1>6. ASSUME NEW j \in 1 .. Len(w) PROVE w[j] = IF j < k THEN q[j] ELSE q[j + 1]
  <2>1. CASE j < k
    <3>1. w[j] = a[j]
      BY <1>1, <1>2, <1>3, <1>5, <2>1
    <3> QED BY <1>1, <1>2, <2>1, <3>1
  <2>2. CASE j >= k
    <3>1. w[j] = b[j - k + 1]
      BY <1>1, <1>2, <1>3, <1>5, <2>2
    <3>2. j - k + 1 \in 1 .. Len(q) - k /\ k + (j - k + 1) = j + 1
      BY <1>1, <1>5, <2>2
    <3> QED BY <1>1, <1>3, <2>2, <3>1, <3>2
  <2> QED BY <1>1, <2>1, <2>2
<1> HIDE DEF w
<1> QED BY <1>4, <1>5, <1>6 DEF Removed

LEMMA TailOK ==
  ASSUME NEW q \in Seq(Event), Len(q) >= 1
  PROVE  Removed(q, 1, Tail(q))
<1>1. Len(q) \in Nat /\ q # << >>
  OBVIOUS
<1>2. Tail(q) \in Seq(Event) /\ Len(Tail(q)) = Len(q) - 1
  BY <1>1
<1>3. \A j \in 1 .. Len(Tail(q)) : Tail(q)[j] = q[j + 1]
  BY <1>1, <1>2
<1> QED BY <1>2, <1>3 DEF Removed

LEMMA InsertKeeps ==
  ASSUME NEW q \in Seq(Event), NEW e \in Event, NEW w, Inserted(q, e, w)
  PROVE  /\ w \in Seq(Event) /\ Len(w) = Len(q) + 1
         /\ e.type # "SPECIAL" /\ NoSpecial(q) => NoSpecial(w)
         /\ e.type # "SPECIAL" /\ OneSpecial(q) => OneSpecial(w)
         /\ e.type = "SPECIAL" /\ NoSpecial(q) => OneSpecial(w)
         /\ e.type \in Lasting \/ HasLasting(q) => HasLasting(w)
<1>1. PICK p \in 1 .. Len(q) + 1 : PutIn(q, e, p, w)
  BY DEF Inserted
<1>2. /\ Len(q) \in Nat /\ p \in Nat /\ w \in Seq(Event) /\ Len(w) = Len(q) + 1
      /\ p \in 1 .. Len(w) /\ w[p] = e
  BY <1>1 DEF PutIn
<1> DEFINE Old(j) == IF j < p THEN j ELSE j - 1
           New(i) == IF i < p THEN i ELSE i + 1
<1>3. ASSUME NEW j \in 1 .. Len(w), j # p
      PROVE  Old(j) \in 1 .. Len(q) /\ w[j] = q[Old(j)] /\ j = New(Old(j))
  BY <1>1, <1>2, <1>3 DEF PutIn
<1>4. ASSUME NEW i \in 1 .. Len(q)
      PROVE  New(i) \in 1 .. Len(w) /\ New(i) # p /\ w[New(i)] = q[i]
  BY <1>1, <1>2 DEF PutIn
<1> HIDE DEF Old, New
<1>5. ASSUME e.type # "SPECIAL", NoSpecial(q) PROVE NoSpecial(w)
  BY <1>2, <1>3, <1>5 DEF NoSpecial
<1>6. ASSUME e.type # "SPECIAL", OneSpecial(q) PROVE OneSpecial(w)
  <2>1. PICK k \in 1 .. Len(q) :
          /\ q[k].type = "SPECIAL"
          /\ \A j \in 1 .. Len(q) : q[j].type = "SPECIAL" => j = k
    BY <1>6 DEF OneSpecial
  <2>2. New(k) \in 1 .. Len(w) /\ w[New(k)].type = "SPECIAL"
    BY <1>4, <2>1
  <2>3. ASSUME NEW j \in 1 .. Len(w), w[j].type = "SPECIAL" PROVE j = New(k)
    <3>1. j # p
      BY <1>2, <1>6, <2>3
    <3> QED BY <1>3, <2>1, <2>3, <3>1
  <2> QED BY <2>2, <2>3 DEF OneSpecial
<1>7. ASSUME e.type = "SPECIAL", NoSpecial(q) PROVE OneSpecial(w)
  <2>1. ASSUME NEW j \in 1 .. Len(w), w[j].type = "SPECIAL" PROVE j = p
    BY <1>3, <1>7, <2>1 DEF NoSpecial
  <2> QED BY <1>2, <1>7, <2>1 DEF OneSpecial
<1>8. ASSUME e.type \in Lasting PROVE HasLasting(w)
  BY <1>2, <1>8 DEF HasLasting
<1>9. ASSUME HasLasting(q) PROVE HasLasting(w)
  BY <1>4, <1>9 DEF HasLasting
<1> QED BY <1>2, <1>5, <1>6, <1>7, <1>8, <1>9

LEMMA RemoveKeeps ==
  ASSUME NEW q \in Seq(Event), NEW k \in 1 .. Len(q), NEW w, Removed(q, k, w)
  PROVE  /\ w \in Seq(Event) /\ Len(w) = Len(q) - 1
         /\ NoSpecial(q) => NoSpecial(w)
         /\ q[k].type # "SPECIAL" /\ OneSpecial(q) => OneSpecial(w)
         /\ q[k].type = "SPECIAL" /\ OneSpecial(q) => NoSpecial(w)
         /\ q[k].type \notin Lasting /\ HasLasting(q) => HasLasting(w)
<1>1. /\ Len(q) \in Nat /\ k \in Nat /\ w \in Seq(Event) /\ Len(w) = Len(q) - 1
  BY DEF Removed
<1> DEFINE Old(j) == IF j < k THEN j ELSE j + 1
           New(i) == IF i < k THEN i ELSE i - 1
<1>2. ASSUME NEW j \in 1 .. Len(w)
      PROVE  /\ Old(j) \in 1 .. Len(q) /\ Old(j) # k /\ w[j] = q[Old(j)]
             /\ j = New(Old(j))
  BY <1>1 DEF Removed
<1>3. ASSUME NEW i \in 1 .. Len(q), i # k
      PROVE  New(i) \in 1 .. Len(w) /\ w[New(i)] = q[i]
  BY <1>1, <1>3 DEF Removed
<1> HIDE DEF Old, New
<1>4. ASSUME NoSpecial(q) PROVE NoSpecial(w)
  BY <1>2, <1>4 DEF NoSpecial
<1>5. ASSUME q[k].type # "SPECIAL", OneSpecial(q) PROVE OneSpecial(w)
  <2>1. PICK i \in 1 .. Len(q) :
          /\ q[i].type = "SPECIAL"
          /\ \A j \in 1 .. Len(q) : q[j].type = "SPECIAL" => j = i
    BY <1>5 DEF OneSpecial
  <2>2. New(i) \in 1 .. Len(w) /\ w[New(i)].type = "SPECIAL"
    BY <1>3, <1>5, <2>1
  <2>3. ASSUME NEW j \in 1 .. Len(w), w[j].type = "SPECIAL" PROVE j = New(i)
    BY <1>2, <2>1, <2>3
  <2> QED BY <2>2, <2>3 DEF OneSpecial
<1>6. ASSUME q[k].type = "SPECIAL", OneSpecial(q) PROVE NoSpecial(w)
  <2>1. \A j \in 1 .. Len(q) : q[j].type = "SPECIAL" => j = k
    BY <1>6 DEF OneSpecial
  <2> QED BY <1>2, <2>1 DEF NoSpecial
<1>7. ASSUME q[k].type \notin Lasting, HasLasting(q) PROVE HasLasting(w)
  <2>1. PICK i \in 1 .. Len(q) : q[i].type \in Lasting
    BY <1>7 DEF HasLasting
  <2>2. i # k
    BY <1>7, <2>1
  <2> QED BY <1>3, <2>1, <2>2 DEF HasLasting
<1> QED BY <1>1, <1>4, <1>5, <1>6, <1>7

LEMMA SameTypesKeep ==
  ASSUME NEW q \in Seq(Event), NEW w, SameTypes(q, w)
  PROVE  /\ w \in Seq(Event) /\ Len(w) = Len(q)
         /\ NoSpecial(q) => NoSpecial(w)
         /\ OneSpecial(q) => OneSpecial(w)
         /\ HasLasting(q) => HasLasting(w)
<1>1. w \in Seq(Event) /\ Len(w) = Len(q)
  BY DEF SameTypes
<1>2. \A j \in 1 .. Len(q) : w[j].type = q[j].type
  BY <1>1 DEF SameTypes
<1>3. NoSpecial(q) => NoSpecial(w)
  BY <1>1, <1>2 DEF NoSpecial
<1>4. OneSpecial(q) => OneSpecial(w)
  BY <1>1, <1>2 DEF OneSpecial
<1>5. HasLasting(q) => HasLasting(w)
  BY <1>1, <1>2 DEF HasLasting
<1> QED BY <1>1, <1>3, <1>4, <1>5

-----------------------------------------------------------------------------
(* The machine *)

Machine ==
  [q : Seq(Event), count : Count, next_interrupt : Count,
   SPECIAL_done : BOOLEAN, compare : Count, next_vi : Count,
   skip_jump : BOOLEAN, reset_hard_job : BOOLEAN, dropped : BOOLEAN,
   disturbed : BOOLEAN, early : BOOLEAN, straddled : BOOLEAN,
   vi_fired : BOOLEAN]

Fits(s) == s \in Machine /\ Len(s.q) <= POOL_CAPACITY

\* Between two handlers: the queue has an event that puts itself back, and the
\* marker once unless something was dropped.
Whole(s) ==
  Fits(s) /\ HasLasting(s.q) /\ (~s.dropped => OneSpecial(s.q))

\* Inside a handler that has taken its own event out.
Gap(s) ==
  Fits(s) /\ Len(s.q) < POOL_CAPACITY /\ (~s.dropped => OneSpecial(s.q))

\* Inside a handler that has taken the marker out.
Unmarked(s) ==
  Fits(s) /\ Len(s.q) < POOL_CAPACITY /\ (~s.dropped => NoSpecial(s.q))

\* The inductive invariant.
QueueInv == Whole(m) /\ ops \in 0 .. MaxOps

LEMMA Numbers ==
  /\ M \in Nat /\ M >= 1 /\ Half \in 0 .. M /\ Past \in 0 .. M /\ Half < M
  /\ POOL_CAPACITY \in Nat /\ POOL_CAPACITY >= 1
  /\ BootCount \in Count /\ BootVi \in Count /\ ViDelay \in Nat
  /\ Delays \subseteq 0 .. M - 1 /\ NmiDelay \in 0 .. M - 1
  /\ CompareValues \subseteq Count /\ CountValues \subseteq Count
  /\ MaxTick \in Nat /\ MaxTick >= 1 /\ MaxOps \in Nat /\ 0 \in Count
BY ConstantsAssumption DEF ConstantsAssumption, Half, Past, Count

LEMMA ModCount == ASSUME NEW x \in Int PROVE x % M \in Count
BY Numbers DEF Count

LEMMA EventFields ==
  ASSUME NEW e \in Event
  PROVE  e.type \in Type /\ e.count \in Count /\ e.left \in -1 .. M
BY DEF Event

LEMMA EventIs ==
  ASSUME NEW type \in Type, NEW count \in Count, NEW left \in -1 .. M
  PROVE  [type |-> type, count |-> count, left |-> left] \in Event
BY DEF Event

LEMMA MachineFields ==
  ASSUME NEW s \in Machine
  PROVE  /\ s.q \in Seq(Event) /\ s.count \in Count /\ s.next_interrupt \in Count
         /\ s.compare \in Count /\ s.next_vi \in Count
         /\ s.SPECIAL_done \in BOOLEAN /\ s.skip_jump \in BOOLEAN
         /\ s.reset_hard_job \in BOOLEAN /\ s.dropped \in BOOLEAN
         /\ s.disturbed \in BOOLEAN /\ s.early \in BOOLEAN
         /\ s.straddled \in BOOLEAN /\ s.vi_fired \in BOOLEAN
BY DEF Machine

\* Registers change and the queue does not.
LEMMA SameQueue ==
  ASSUME NEW s, NEW r \in Machine, r.q = s.q, r.dropped = s.dropped
  PROVE  /\ Fits(s) => Fits(r)
         /\ Whole(s) => Whole(r)
         /\ Gap(s) => Gap(r)
         /\ Unmarked(s) => Unmarked(r)
BY DEF Fits, Whole, Gap, Unmarked

\* A new event goes to the end, or before an event that it is to come before.
LEMMA PlaceOK ==
  ASSUME NEW s \in Machine, NEW e
  PROVE  /\ Place(s, e) \in 1 .. Len(s.q) + 1
         /\ e.type = "SPECIAL" => Place(s, e) = Len(s.q) + 1
         /\ Place(s, e) <= Len(s.q) =>
              Place(s, e) # 1 /\ before_event(s, e.count, s.q[Place(s, e)])
<1> DEFINE later == {k \in 2 .. Len(s.q) : before_event(s, e.count, s.q[k])}
<1>1. Len(s.q) \in Nat
  BY MachineFields
<1>2. CASE e.type = "SPECIAL" \/ later = {}
  <2>1. Place(s, e) = Len(s.q) + 1
    BY <1>2 DEF Place
  <2> QED BY <1>1, <2>1
<1>3. CASE ~(e.type = "SPECIAL" \/ later = {})
  <2>1. Place(s, e) = CHOOSE k \in later : \A j \in later : k <= j
    BY <1>3 DEF Place
  <2>2. later \in SUBSET Nat /\ later # {}
    BY <1>1, <1>3
  <2>3. \E k \in later : \A j \in later : k <= j
    <3> HIDE DEF later
    <3> QED BY <2>2, SmallestNat
  <2>4. Place(s, e) \in later
    <3> HIDE DEF later
    <3> QED BY <2>1, <2>3, Zenon
  <2> QED BY <1>1, <1>3, <2>4
<1> QED BY <1>2, <1>3

\* What add_interrupt_event_count does to the queue and the pool.
LEMMA AddOK ==
  ASSUME NEW s, Fits(s), NEW e \in Event
  PROVE  LET r == add_interrupt_event_count(s, e)
         IN  /\ Fits(r)
             /\ \/ Len(s.q) = POOL_CAPACITY /\ r.dropped /\ r.q = s.q
                \/ /\ Len(s.q) < POOL_CAPACITY /\ r.dropped = s.dropped
                   /\ Inserted(s.q, e, r.q)
<1> DEFINE b == s.SPECIAL_done /\ ~(s.count > Half)
           t == [s EXCEPT !.SPECIAL_done = b]
           r == add_interrupt_event_count(s, e)
           f == <<e>> \o s.q
           g == InsertAt(s.q, Place(t, e), e)
<1>1. s \in Machine /\ s.q \in Seq(Event) /\ Len(s.q) \in Nat
      /\ Len(s.q) <= POOL_CAPACITY /\ e.count \in Count
  BY MachineFields, EventFields DEF Fits
<1>2. b \in BOOLEAN
  OBVIOUS
<1> HIDE DEF b
<1>3. t \in Machine /\ t.q = s.q /\ t.dropped = s.dropped
  BY <1>1, <1>2 DEF Machine
<1>4. r = IF Len(t.q) >= POOL_CAPACITY THEN [t EXCEPT !.dropped = TRUE]
          ELSE IF GoesFirst(t, e)
               THEN [t EXCEPT !.q = <<e>> \o t.q, !.next_interrupt = e.count]
               ELSE [t EXCEPT !.q = InsertAt(t.q, Place(t, e), e)]
  BY DEF add_interrupt_event_count, b
<1> HIDE DEF t, r
<1>5. CASE Len(s.q) >= POOL_CAPACITY
  <2>1. r = [t EXCEPT !.dropped = TRUE]
    BY <1>3, <1>4, <1>5
  <2>2. r \in Machine /\ r.q = s.q /\ r.dropped = TRUE
    BY <1>3, <2>1 DEF Machine
  <2> QED BY <1>1, <1>5, <2>2, Numbers DEF Fits, r
<1>6. CASE Len(s.q) < POOL_CAPACITY /\ GoesFirst(t, e)
  <2>1. Inserted(s.q, e, f)
    BY <1>1, InsertFirst
  <2>2. f \in Seq(Event) /\ Len(f) = Len(s.q) + 1
    BY <1>1, <2>1, InsertKeeps
  <2>3. r = [t EXCEPT !.q = f, !.next_interrupt = e.count]
    BY <1>1, <1>3, <1>4, <1>6, Numbers
  <2> HIDE DEF f
  <2>4. r \in Machine /\ r.q = f /\ r.dropped = s.dropped
    BY <1>1, <1>3, <2>2, <2>3 DEF Machine
  <2> QED BY <1>1, <1>6, <2>1, <2>2, <2>4, Numbers DEF Fits, r
<1>7. CASE Len(s.q) < POOL_CAPACITY /\ ~GoesFirst(t, e)
  <2>1. Place(t, e) \in 1 .. Len(s.q) + 1
    BY <1>3, PlaceOK
  <2>2. Inserted(s.q, e, g)
    BY <1>1, <2>1, InsertAtOK
  <2>3. g \in Seq(Event) /\ Len(g) = Len(s.q) + 1
    BY <1>1, <2>2, InsertKeeps
  <2>4. r = [t EXCEPT !.q = g]
    BY <1>1, <1>3, <1>4, <1>7, Numbers
  <2> HIDE DEF g
  <2>5. r \in Machine /\ r.q = g /\ r.dropped = s.dropped
    BY <1>3, <2>3, <2>4 DEF Machine
  <2> QED BY <1>1, <1>7, <2>2, <2>3, <2>5, Numbers DEF Fits, r
<1> QED BY <1>1, <1>5, <1>6, <1>7, Numbers

LEMMA AddWhole ==
  ASSUME NEW s, Whole(s), NEW e \in Event, e.type # "SPECIAL"
  PROVE  Whole(add_interrupt_event_count(s, e))
<1> DEFINE r == add_interrupt_event_count(s, e)
<1>1. /\ Fits(r)
      /\ \/ Len(s.q) = POOL_CAPACITY /\ r.dropped /\ r.q = s.q
         \/ /\ Len(s.q) < POOL_CAPACITY /\ r.dropped = s.dropped
            /\ Inserted(s.q, e, r.q)
  BY AddOK DEF Whole
<1> SUFFICES Whole(r)
  OBVIOUS
<1> HIDE DEF r
<1>2. s.q \in Seq(Event)
  BY MachineFields DEF Whole, Fits
<1>3. CASE r.dropped /\ r.q = s.q
  BY <1>1, <1>3 DEF Whole
<1>4. CASE r.dropped = s.dropped /\ Inserted(s.q, e, r.q)
  BY <1>1, <1>2, <1>4, InsertKeeps DEF Whole
<1> QED BY <1>1, <1>3, <1>4

LEMMA AddToGap ==
  ASSUME NEW s, Gap(s), NEW e \in Event, e.type # "SPECIAL", e.type \in Lasting
  PROVE  Whole(add_interrupt_event_count(s, e))
<1> DEFINE r == add_interrupt_event_count(s, e)
<1>1. Fits(r) /\ r.dropped = s.dropped /\ Inserted(s.q, e, r.q)
  <2>1. Len(s.q) \in Nat
    BY MachineFields DEF Gap, Fits
  <2> QED BY <2>1, AddOK, Numbers DEF Gap
<1> HIDE DEF r
<1>2. s.q \in Seq(Event)
  BY MachineFields DEF Gap, Fits
<1> QED BY <1>1, <1>2, InsertKeeps DEF Gap, Whole, r

LEMMA SpecialIsEvent == Special \in Event /\ Special.type = "SPECIAL"
BY Numbers DEF Special, Event, Type

LEMMA AddMarker ==
  ASSUME NEW s, Unmarked(s)
  PROVE  Whole(add_interrupt_event_count(s, Special))
<1> DEFINE r == add_interrupt_event_count(s, Special)
<1>1. Fits(r) /\ r.dropped = s.dropped /\ Inserted(s.q, Special, r.q)
  <2>1. Len(s.q) \in Nat
    BY MachineFields DEF Unmarked, Fits
  <2> QED BY <2>1, AddOK, SpecialIsEvent, Numbers DEF Unmarked
<1> HIDE DEF r
<1>2. s.q \in Seq(Event)
  BY MachineFields DEF Unmarked, Fits
<1> QED BY <1>1, <1>2, InsertKeeps, SpecialIsEvent DEF Unmarked, Whole, Lasting, r

-----------------------------------------------------------------------------
(* Taking events out *)

LEMMA RearmOK ==
  ASSUME NEW q \in Seq(Event), NEW count PROVE Rearm(q, count) \in Count
<1>1. q # << >> => q[1] \in Event
  OBVIOUS
<1> QED BY <1>1, EventFields, Numbers DEF Rearm

\* The first event is taken out.
LEMMA RemoveFirstOK ==
  ASSUME NEW s, Whole(s)
  PROVE  LET r == remove_interrupt_event(s)
         IN  /\ Fits(r) /\ Len(r.q) < POOL_CAPACITY /\ r.dropped = s.dropped
             /\ s.q[1].type = "SPECIAL" => Unmarked(r)
             /\ s.q[1].type # "SPECIAL" => Gap(r)
             /\ s.q[1].type \notin Lasting => Whole(r)
<1> DEFINE w == Tail(s.q)
           n == Rearm(Tail(s.q), s.count)
           r == remove_interrupt_event(s)
<1>1. /\ s \in Machine /\ s.q \in Seq(Event) /\ Len(s.q) \in Nat
      /\ Len(s.q) <= POOL_CAPACITY
  BY MachineFields DEF Whole, Fits
<1>2. Len(s.q) >= 1
  BY <1>1 DEF Whole, HasLasting
<1>3. Removed(s.q, 1, w) /\ 1 \in 1 .. Len(s.q)
  BY <1>1, <1>2, TailOK
<1>4. w \in Seq(Event)
  BY <1>3 DEF Removed
<1>5. n \in Count
  BY <1>4, RearmOK
<1>6. r = [s EXCEPT !.q = w, !.next_interrupt = n]
  BY DEF remove_interrupt_event
<1> HIDE DEF w, n
<1>7. r \in Machine /\ r.q = w /\ r.dropped = s.dropped
  BY <1>1, <1>4, <1>5, <1>6 DEF Machine
<1> HIDE DEF r
<1>8. /\ Len(w) = Len(s.q) - 1
      /\ NoSpecial(s.q) => NoSpecial(w)
      /\ s.q[1].type # "SPECIAL" /\ OneSpecial(s.q) => OneSpecial(w)
      /\ s.q[1].type = "SPECIAL" /\ OneSpecial(s.q) => NoSpecial(w)
      /\ s.q[1].type \notin Lasting /\ HasLasting(s.q) => HasLasting(w)
  BY <1>1, <1>3, RemoveKeeps
<1>9. Fits(r) /\ Len(r.q) < POOL_CAPACITY
  BY <1>1, <1>7, <1>8, Numbers DEF Fits
<1>10. s.q[1].type = "SPECIAL" => Unmarked(r)
  BY <1>7, <1>8, <1>9 DEF Whole, Unmarked
<1>11. s.q[1].type # "SPECIAL" => Gap(r)
  BY <1>7, <1>8, <1>9 DEF Whole, Gap
<1>12. s.q[1].type \notin Lasting => Whole(r)
  BY <1>7, <1>8, <1>9 DEF Whole, Lasting
<1> QED BY <1>7, <1>9, <1>10, <1>11, <1>12 DEF r

\* The first event of a type is taken out, if there is one.
LEMMA RemoveEventOK ==
  ASSUME NEW s, Fits(s), NEW type
  PROVE  LET r == remove_event(s, type)
         IN  /\ Fits(r) /\ r.dropped = s.dropped
             /\ r = s \/ Len(r.q) < POOL_CAPACITY
             /\ NoSpecial(s.q) => NoSpecial(r.q)
             /\ type # "SPECIAL" /\ OneSpecial(s.q) => OneSpecial(r.q)
             /\ type = "SPECIAL" /\ OneSpecial(s.q) => NoSpecial(r.q)
<1> DEFINE found == {k \in 1 .. Len(s.q) : s.q[k].type = type}
           k == CHOOSE i \in found : \A j \in found : i <= j
           w == RemoveAt(s.q, k)
           r == remove_event(s, type)
<1>1. /\ s \in Machine /\ s.q \in Seq(Event) /\ Len(s.q) \in Nat
      /\ Len(s.q) <= POOL_CAPACITY
  BY MachineFields DEF Fits
<1>2. r = IF found = {} THEN s ELSE [s EXCEPT !.q = w]
  BY DEF remove_event
<1>3. CASE found = {}
  <2>1. r = s
    BY <1>2, <1>3
  <2>2. ~(type = "SPECIAL" /\ OneSpecial(s.q))
    BY <1>3 DEF OneSpecial
  <2> HIDE DEF r
  <2> QED BY <2>1, <2>2 DEF r
<1>4. CASE found # {}
  <2>1. k \in 1 .. Len(s.q) /\ s.q[k].type = type
    <3>1. found \in SUBSET Nat
      BY <1>1
    <3>2. k \in found
      <4> HIDE DEF found
      <4>1. \E i \in found : \A j \in found : i <= j
        BY <1>4, <3>1, SmallestNat
      <4> QED BY <4>1, Zenon
    <3> HIDE DEF k
    <3> QED BY <3>2
  <2> HIDE DEF k
  <2>2. Removed(s.q, k, w)
    BY <1>1, <2>1, RemoveAtOK
  <2>3. r = [s EXCEPT !.q = w]
    BY <1>2, <1>4
  <2> HIDE DEF w, r, found
  <2>4. /\ w \in Seq(Event) /\ Len(w) = Len(s.q) - 1
        /\ NoSpecial(s.q) => NoSpecial(w)
        /\ type # "SPECIAL" /\ OneSpecial(s.q) => OneSpecial(w)
        /\ type = "SPECIAL" /\ OneSpecial(s.q) => NoSpecial(w)
    BY <1>1, <2>1, <2>2, RemoveKeeps
  <2>5. r \in Machine /\ r.q = w /\ r.dropped = s.dropped
    BY <1>1, <2>3, <2>4 DEF Machine
  <2>6. Fits(r) /\ Len(r.q) < POOL_CAPACITY
    BY <1>1, <2>4, <2>5, Numbers DEF Fits
  <2> QED BY <2>4, <2>5, <2>6 DEF r
<1> QED BY <1>3, <1>4

-----------------------------------------------------------------------------
(* The handlers *)

LEMMA SpecialHandlerOK ==
  ASSUME NEW s, Whole(s), s.q[1].type = "SPECIAL"
  PROVE  Whole(special_int_handler(s))
<1> DEFINE d == [s EXCEPT !.SPECIAL_done = TRUE]
<1>1. CASE s.count > Past
  BY <1>1 DEF special_int_handler
<1>2. CASE ~(s.count > Past)
  <2>1. s \in Machine
    BY DEF Whole, Fits
  <2>2. d \in Machine /\ d.q = s.q /\ d.dropped = s.dropped
    BY <2>1 DEF Machine
  <2> HIDE DEF d
  <2>3. Whole(d) /\ d.q[1].type = "SPECIAL"
    BY <2>2, SameQueue
  <2>4. Unmarked(remove_interrupt_event(d))
    BY <2>3, RemoveFirstOK
  <2>5. Whole(add_interrupt_event_count(remove_interrupt_event(d), Special))
    BY <2>4, AddMarker
  <2> QED BY <1>2, <2>5 DEF special_int_handler, d
<1> QED BY <1>1, <1>2

LEMMA UntilOK ==
  ASSUME NEW deadline \in Count, NEW count \in Count
  PROVE  Until(deadline, count) \in -1 .. M
<1> DEFINE d == (deadline - count) % M
<1>1. d \in Count
  BY ModCount DEF Count
<1> HIDE DEF d
<1>2. Until(deadline, count) = IF d < Half THEN d ELSE -1
  BY DEF Until, d
<1> QED BY <1>1, <1>2, Numbers DEF Count

LEMMA CompareHandlerOK ==
  ASSUME NEW s, Whole(s), s.q[1].type = "COMPARE"
  PROVE  Whole(compare_int_handler(s))
<1> DEFINE g == remove_interrupt_event(s)
           c == (g.count + 1) % M
           r == [g EXCEPT !.count = c]
           left == NextMatch(s.compare, s.count)
           e == [type |-> "COMPARE", count |-> s.compare, left |-> left]
           a == add_interrupt_event_count(r, e)
<1>1. s \in Machine /\ s.count \in Count /\ s.compare \in Count
  BY MachineFields DEF Whole, Fits
<1>2. Gap(g)
  BY RemoveFirstOK
<1>3. g \in Machine /\ g.count \in Count
  BY <1>2, MachineFields DEF Gap, Fits
<1> HIDE DEF g
<1>4. c \in Count
  BY <1>3, ModCount, Numbers DEF Count
<1> HIDE DEF c
<1>5. r \in Machine /\ r.q = g.q /\ r.dropped = g.dropped
  BY <1>3, <1>4 DEF Machine
<1> HIDE DEF r
<1>6. Gap(r)
  BY <1>2, <1>5, SameQueue
<1>7. left \in -1 .. M
  <2> DEFINE d == (s.compare - (s.count + 1)) % M
  <2>1. d \in Count
    BY <1>1, ModCount, Numbers DEF Count
  <2> HIDE DEF d
  <2>2. left = d + 1
    BY DEF NextMatch, d
  <2> QED BY <2>1, <2>2, Numbers DEF Count
<1> HIDE DEF left
<1>8. e \in Event /\ e.type = "COMPARE"
  BY <1>1, <1>7, EventIs DEF Type
<1> HIDE DEF e
<1>9. Whole(a)
  BY <1>6, <1>8, AddToGap DEF Lasting
<1> HIDE DEF a
<1>10. Whole([a EXCEPT !.count = s.count])
  <2> DEFINE z == [a EXCEPT !.count = s.count]
  <2>1. z \in Machine /\ z.q = a.q /\ z.dropped = a.dropped
    BY <1>1, <1>9 DEF Machine, Whole, Fits
  <2> HIDE DEF z
  <2>2. Whole(z)
    BY <1>9, <2>1, SameQueue
  <2> QED BY <2>2 DEF z
<1> QED BY <1>10 DEF compare_int_handler, a, e, r, g, c, left

LEMMA FireOK ==
  ASSUME NEW s, Whole(s) PROVE Whole(Fire(s)) /\ Fire(s).q = s.q
<1> DEFINE v == (s.q[1].type = "VI")
           e == s.early \/ (s.q[1].left > 0 /\ ~s.disturbed)
           r == Fire(s)
<1>1. s \in Machine
  BY DEF Whole, Fits
<1>2. v \in BOOLEAN /\ e \in BOOLEAN
  OBVIOUS
<1>3. r = [s EXCEPT !.vi_fired = v, !.early = e]
  BY DEF Fire
<1> HIDE DEF v, e, r
<1>4. r \in Machine /\ r.q = s.q /\ r.dropped = s.dropped
  BY <1>1, <1>2, <1>3 DEF Machine
<1>5. Whole(r)
  BY <1>4, SameQueue
<1> QED BY <1>4, <1>5 DEF r

LEMMA VerticalOK ==
  ASSUME NEW s, Gap(s) PROVE Whole(vi_vertical_interrupt_event(s))
<1> DEFINE n == (s.next_vi + ViDelay) % M
           r == [s EXCEPT !.next_vi = n]
           left == Until(n, s.count)
           e == [type |-> "VI", count |-> n, left |-> left]
<1>1. s \in Machine /\ s.next_vi \in Count /\ s.count \in Count
  BY MachineFields DEF Gap, Fits
<1>2. n \in Count
  BY <1>1, ModCount, Numbers DEF Count
<1>2a. vi_vertical_interrupt_event(s) = add_interrupt_event_count(r, e)
  BY DEF vi_vertical_interrupt_event
<1> HIDE DEF n
<1>3. r \in Machine /\ r.q = s.q /\ r.dropped = s.dropped
  BY <1>1, <1>2 DEF Machine
<1>4. left \in -1 .. M
  BY <1>1, <1>2, UntilOK
<1> HIDE DEF r, left
<1>5. e \in Event /\ e.type = "VI"
  BY <1>2, <1>4, EventIs DEF Type
<1> HIDE DEF e
<1>6. Gap(r)
  BY <1>3, SameQueue
<1>7. Whole(add_interrupt_event_count(r, e))
  BY <1>5, <1>6, AddToGap DEF Lasting
<1> QED BY <1>2a, <1>7

\* A reset empties the queue, whatever was in it.
LEMMA StartViOK ==
  ASSUME NEW s \in Machine, NEW count \in Count, NEW next_vi \in Count
  PROVE  Whole(StartVi(s, count, next_vi))
<1> DEFINE t == [s EXCEPT !.count = count, !.next_vi = next_vi, !.disturbed = FALSE]
           u == [t EXCEPT !.SPECIAL_done = TRUE, !.q = << >>]
           r == add_interrupt_event_count(u, Special)
           left == Until(next_vi, count)
           e == [type |-> "VI", count |-> next_vi, left |-> left]
<1>1. t \in Machine
  BY DEF Machine
<1>2. StartVi(s, count, next_vi) = add_interrupt_event_count(r, e)
  BY DEF StartVi, init_interrupt
<1> HIDE DEF t
<1>3. u \in Machine /\ u.q = << >>
  <2>1. << >> \in Seq(Event)
    OBVIOUS
  <2> QED BY <1>1, <2>1 DEF Machine
<1> HIDE DEF u
<1>4. Unmarked(u)
  <2>1. Len(u.q) = 0
    BY <1>3
  <2> QED BY <1>3, <2>1, Numbers DEF Unmarked, Fits, NoSpecial
<1>5. Whole(r)
  BY <1>4, AddMarker
<1> HIDE DEF r
<1>6. left \in -1 .. M
  BY UntilOK
<1> HIDE DEF left
<1>7. e \in Event /\ e.type = "VI"
  BY <1>6, EventIs DEF Type
<1> HIDE DEF e
<1>8. Whole(add_interrupt_event_count(r, e))
  BY <1>5, <1>7, AddWhole
<1> QED BY <1>2, <1>8

LEMMA ResetHardOK == ASSUME NEW s \in Machine PROVE Whole(reset_hard(s))
<1> DEFINE r == [s EXCEPT !.reset_hard_job = FALSE, !.compare = 0]
<1>1. r \in Machine
  BY Numbers DEF Machine
<1>2. reset_hard(s) = StartVi(r, BootCount, BootVi)
  BY DEF reset_hard
<1> HIDE DEF r
<1> QED BY <1>1, <1>2, StartViOK, Numbers

\* The dispatch keeps the marker, and the queue from running empty.
LEMMA DispatchOK == ASSUME NEW s, Whole(s) PROVE Whole(Dispatch(s))
<1> DEFINE f == Fire(s)
           g == remove_interrupt_event(f)
<1>1. s.q[1].type \in Type
  <2>1. s.q \in Seq(Event) /\ Len(s.q) \in Nat
    BY MachineFields DEF Whole, Fits
  <2>2. Len(s.q) >= 1
    BY <2>1 DEF Whole, HasLasting
  <2>3. s.q[1] \in Event
    BY <2>1, <2>2
  <2> QED BY <2>3, EventFields
<1>2. Whole(f) /\ f.q = s.q
  BY FireOK
<1>3. /\ Fits(g)
      /\ s.q[1].type # "SPECIAL" => Gap(g)
      /\ s.q[1].type \notin Lasting => Whole(g)
  <2> HIDE DEF f
  <2> QED BY <1>2, RemoveFirstOK
<1>4. CASE s.q[1].type = "SPECIAL"
  BY <1>4, SpecialHandlerOK DEF Dispatch
<1>5. CASE s.q[1].type = "VI"
  BY <1>3, <1>5, VerticalOK DEF Dispatch
<1>6. CASE s.q[1].type = "COMPARE"
  BY <1>2, <1>6, CompareHandlerOK DEF Dispatch
<1>7. CASE s.q[1].type = "NMI"
  <2>1. Dispatch(s) = StartVi(g, 0, BootVi)
    BY <1>7 DEF Dispatch, nmi_int_handler
  <2> HIDE DEF g
  <2> QED BY <1>3, <2>1, StartViOK, Numbers DEF Fits
<1>8. CASE s.q[1].type \notin {"SPECIAL", "VI", "COMPARE", "NMI"}
  <2>1. Dispatch(s) = g
    BY <1>8 DEF Dispatch
  <2> HIDE DEF g
  <2> QED BY <1>3, <1>8, <2>1 DEF Lasting
<1> QED BY <1>4, <1>5, <1>6, <1>7, <1>8

LEMMA TestOK ==
  ASSUME NEW s, Whole(s), NEW unsafe \in BOOLEAN
  PROVE  Whole(TestInterrupt(s, unsafe))
<1>1. s \in Machine /\ s.q \in Seq(Event)
  BY MachineFields DEF Whole, Fits
<1>2. CASE ~(s.next_interrupt <= s.count)
  BY <1>2 DEF TestInterrupt
<1>3. CASE s.next_interrupt <= s.count /\ ~unsafe /\ s.reset_hard_job
  BY <1>1, <1>3, ResetHardOK DEF TestInterrupt, gen_interrupt
<1>4. CASE s.next_interrupt <= s.count /\ ~(~unsafe /\ s.reset_hard_job) /\ s.skip_jump
  <2> DEFINE n == Rearm(s.q, s.count)
             r == [s EXCEPT !.skip_jump = FALSE, !.next_interrupt = n]
  <2>1. TestInterrupt(s, unsafe) = r
    BY <1>4 DEF TestInterrupt, gen_interrupt
  <2>2. n \in Count
    BY <1>1, RearmOK
  <2> HIDE DEF n
  <2>3. r \in Machine /\ r.q = s.q /\ r.dropped = s.dropped
    BY <1>1, <2>2 DEF Machine
  <2> HIDE DEF r
  <2> QED BY <2>1, <2>3, SameQueue
<1>5. CASE s.next_interrupt <= s.count /\ ~(~unsafe /\ s.reset_hard_job) /\ ~s.skip_jump
  BY <1>5, DispatchOK DEF TestInterrupt, gen_interrupt
<1> QED BY <1>2, <1>3, <1>4, <1>5

LEMMA CheckOK == ASSUME NEW s, Whole(s) PROVE Whole(check_interrupt(s))
<1> DEFINE e == [type |-> "CHECK", count |-> s.count, left |-> 0]
           w == <<e>> \o s.q
           r == check_interrupt(s)
<1>1. /\ s \in Machine /\ s.q \in Seq(Event) /\ Len(s.q) \in Nat
      /\ Len(s.q) <= POOL_CAPACITY /\ s.count \in Count
  BY MachineFields DEF Whole, Fits
<1>2. CASE Len(s.q) >= POOL_CAPACITY
  <2>1. r = [s EXCEPT !.dropped = TRUE]
    BY <1>2 DEF check_interrupt
  <2> SUFFICES Whole(r)
    OBVIOUS
  <2> HIDE DEF r
  <2>2. r \in Machine /\ r.q = s.q /\ r.dropped = TRUE
    BY <1>1, <2>1 DEF Machine
  <2> QED BY <2>2 DEF Whole, Fits
<1>3. CASE Len(s.q) < POOL_CAPACITY
  <2>1. r = [s EXCEPT !.q = w, !.next_interrupt = s.count]
    BY <1>1, <1>3, Numbers DEF check_interrupt
  <2> SUFFICES Whole(r)
    OBVIOUS
  <2> HIDE DEF r
  <2>2. e \in Event /\ e.type # "SPECIAL"
    BY <1>1, Numbers, EventIs DEF Type
  <2>3. Inserted(s.q, e, w)
    <3> HIDE DEF e
    <3> QED BY <1>1, <2>2, InsertFirst
  <2> HIDE DEF e, w
  <2>4. /\ w \in Seq(Event) /\ Len(w) = Len(s.q) + 1 /\ HasLasting(w)
        /\ OneSpecial(s.q) => OneSpecial(w)
    BY <1>1, <2>2, <2>3, InsertKeeps DEF Whole
  <2>5. r \in Machine /\ r.q = w /\ r.dropped = s.dropped
    BY <1>1, <2>1, <2>4 DEF Machine
  <2> QED BY <1>1, <1>3, <2>4, <2>5, Numbers DEF Whole, Fits
<1> QED BY <1>1, <1>2, <1>3, Numbers

\* A sequence built event by event.
LEMMA MappedOK ==
  ASSUME NEW q \in Seq(Event), NEW w, w = [k \in 1 .. Len(q) |-> w[k]],
         \A k \in 1 .. Len(q) : w[k] \in Event /\ w[k].type = q[k].type
  PROVE  SameTypes(q, w)
<1>1. Len(q) \in Nat
  OBVIOUS
<1>2. w \in [1 .. Len(q) -> Event]
  OBVIOUS
<1>3. w \in Seq(Event) /\ Len(w) = Len(q)
  BY <1>1, <1>2, IsASeq
<1> QED BY <1>3 DEF SameTypes

LEMMA UpdateCountOK ==
  ASSUME NEW s, Whole(s), NEW d \in Nat PROVE Whole(cp0_update_count(s, d))
<1> DEFINE c == (s.count + d) % M
           w == [k \in 1 .. Len(s.q) |->
                   IF s.q[k].type = "SPECIAL" THEN s.q[k]
                   ELSE [s.q[k] EXCEPT !.left = Countdown(s.q[k].left, d)]]
           r == cp0_update_count(s, d)
<1>1. /\ s \in Machine /\ s.q \in Seq(Event) /\ s.count \in Count
      /\ Len(s.q) <= POOL_CAPACITY
  BY MachineFields DEF Whole, Fits
<1>2. c \in Count
  <2>1. s.count + d \in Int
    BY <1>1, Numbers DEF Count
  <2> QED BY <2>1, ModCount
<1>3. r = [s EXCEPT !.count = c, !.vi_fired = FALSE, !.q = w]
  BY DEF cp0_update_count
<1>4. ASSUME NEW k \in 1 .. Len(s.q) PROVE w[k] \in Event /\ w[k].type = s.q[k].type
  <2> DEFINE e == s.q[k]
             l == Countdown(e.left, d)
  <2>1. e \in Event
    BY <1>1
  <2>2. w[k] = IF e.type = "SPECIAL" THEN e ELSE [e EXCEPT !.left = l]
    OBVIOUS
  <2> HIDE DEF w, e
  <2>3. l \in -1 .. M
    BY <2>1, EventFields, Numbers DEF Countdown
  <2> HIDE DEF l
  <2>4. w[k] \in Event /\ w[k].type = e.type
    BY <2>1, <2>2, <2>3 DEF Event
  <2> QED BY <2>4 DEF e
<1>5. w = [k \in 1 .. Len(s.q) |-> w[k]]
  OBVIOUS
<1> SUFFICES Whole(r)
  OBVIOUS
<1> HIDE DEF c, w, r
<1>6. SameTypes(s.q, w)
  BY <1>1, <1>4, <1>5, MappedOK
<1>7. /\ w \in Seq(Event) /\ Len(w) = Len(s.q)
      /\ OneSpecial(s.q) => OneSpecial(w)
      /\ HasLasting(s.q) => HasLasting(w)
  BY <1>1, <1>6, SameTypesKeep
<1>8. r \in Machine /\ r.q = w /\ r.dropped = s.dropped
  BY <1>1, <1>2, <1>3, <1>7 DEF Machine
<1> QED BY <1>1, <1>7, <1>8 DEF Whole, Fits

\* A write of Count: the marker and the match are taken out and put back while
\* every other event is moved.
LEMMA TranslateOK ==
  ASSUME NEW s, Whole(s), NEW base \in Count
  PROVE  Whole(translate_event_queue(s, base))
<1> DEFINE p == remove_event(s, "COMPARE")
           r == remove_event(p, "SPECIAL")
           w == [k \in 1 .. Len(r.q) |->
                   [r.q[k] EXCEPT !.count = (r.q[k].count - s.count + base) % M]]
           t == [r EXCEPT !.q = w]
           left == (s.compare - base) % M
           e == [type |-> "COMPARE", count |-> s.compare, left |-> left]
           a == add_interrupt_event_count(t, e)
           b == add_interrupt_event_count(a, Special)
           z == [b EXCEPT !.count = base, !.disturbed = TRUE]
<1>1. translate_event_queue(s, base) = z
  BY DEF translate_event_queue
<1>2. Fits(s) /\ s.compare \in Count /\ s.count \in Count /\ HasLasting(s.q)
  BY MachineFields DEF Whole, Fits
<1>3. left \in -1 .. M
  <2>1. left \in Count
    BY <1>2, ModCount DEF Count
  <2> HIDE DEF left
  <2> QED BY <2>1, Numbers DEF Count
<1> HIDE DEF left
<1>4. e \in Event /\ e.type = "COMPARE"
  BY <1>2, <1>3, EventIs DEF Type
<1> HIDE DEF e
<1>5. /\ Fits(p) /\ p.dropped = s.dropped
      /\ p = s \/ Len(p.q) < POOL_CAPACITY
      /\ OneSpecial(s.q) => OneSpecial(p.q)
  BY <1>2, RemoveEventOK
<1> HIDE DEF p
<1>6. /\ Fits(r) /\ r.dropped = p.dropped
      /\ r = p \/ Len(r.q) < POOL_CAPACITY
      /\ OneSpecial(p.q) => NoSpecial(r.q)
  BY <1>5, RemoveEventOK
<1>7. HasLasting(r.q) \/ Len(r.q) < POOL_CAPACITY
  BY <1>2, <1>5, <1>6
<1> HIDE DEF r
<1>8. r.q \in Seq(Event) /\ r \in Machine /\ Len(r.q) \in Nat
  BY <1>6, MachineFields DEF Fits
<1>9. ASSUME NEW k \in 1 .. Len(r.q) PROVE w[k] \in Event /\ w[k].type = r.q[k].type
  <2> DEFINE f == r.q[k]
             c == (f.count - s.count + base) % M
  <2>1. f \in Event
    BY <1>8
  <2>2. w[k] = [f EXCEPT !.count = c]
    OBVIOUS
  <2> HIDE DEF w, f
  <2>3. c \in Count
    <3>1. f.count - s.count + base \in Int
      BY <1>2, <2>1, EventFields, Numbers DEF Count
    <3> QED BY <3>1, ModCount
  <2> HIDE DEF c
  <2>4. w[k] \in Event /\ w[k].type = f.type
    BY <2>1, <2>2, <2>3 DEF Event
  <2> QED BY <2>4 DEF f
<1>10. w = [k \in 1 .. Len(r.q) |-> w[k]]
  OBVIOUS
<1> HIDE DEF w
<1>11. /\ w \in Seq(Event) /\ Len(w) = Len(r.q)
       /\ NoSpecial(r.q) => NoSpecial(w)
       /\ HasLasting(r.q) => HasLasting(w)
  <2>1. SameTypes(r.q, w)
    BY <1>8, <1>9, <1>10, MappedOK
  <2> QED BY <1>8, <2>1, SameTypesKeep
<1>12. t \in Machine /\ t.q = w /\ t.dropped = r.dropped
  BY <1>8, <1>11 DEF Machine
<1> HIDE DEF t
<1>13. Fits(t)
  BY <1>6, <1>11, <1>12 DEF Fits
<1>14. /\ Fits(a)
       /\ \/ Len(t.q) = POOL_CAPACITY /\ a.dropped /\ a.q = t.q
          \/ /\ Len(t.q) < POOL_CAPACITY /\ a.dropped = t.dropped
             /\ Inserted(t.q, e, a.q)
  BY <1>4, <1>13, AddOK
<1> HIDE DEF a
<1>15. HasLasting(a.q) /\ (~a.dropped => NoSpecial(a.q))
  <2>1. CASE a.dropped /\ a.q = t.q /\ Len(t.q) = POOL_CAPACITY
    BY <1>7, <1>8, <1>11, <1>12, <2>1, Numbers
  <2>2. CASE a.dropped = t.dropped /\ Inserted(t.q, e, a.q)
    <3>1. HasLasting(a.q) /\ (NoSpecial(t.q) => NoSpecial(a.q))
      BY <1>4, <1>11, <1>12, <2>2, InsertKeeps DEF Lasting
    <3>2. ~t.dropped => NoSpecial(t.q)
      BY <1>5, <1>6, <1>11, <1>12 DEF Whole
    <3> QED BY <2>2, <3>1, <3>2
  <2> QED BY <1>14, <2>1, <2>2
<1>16. /\ Fits(b)
       /\ \/ Len(a.q) = POOL_CAPACITY /\ b.dropped /\ b.q = a.q
          \/ /\ Len(a.q) < POOL_CAPACITY /\ b.dropped = a.dropped
             /\ Inserted(a.q, Special, b.q)
  BY <1>14, AddOK, SpecialIsEvent
<1> HIDE DEF b
<1>17. Whole(b)
  <2>1. CASE b.dropped /\ b.q = a.q
    BY <1>15, <1>16, <2>1 DEF Whole
  <2>2. CASE b.dropped = a.dropped /\ Inserted(a.q, Special, b.q)
    <3>1. a.q \in Seq(Event)
      BY <1>14, MachineFields DEF Fits
    <3>2. HasLasting(b.q) /\ (NoSpecial(a.q) => OneSpecial(b.q))
      BY <1>15, <2>2, <3>1, InsertKeeps, SpecialIsEvent
    <3> QED BY <1>15, <1>16, <2>2, <3>2 DEF Whole
  <2> QED BY <1>16, <2>1, <2>2
<1>18. z \in Machine /\ z.q = b.q /\ z.dropped = b.dropped
  BY <1>16 DEF Machine, Fits
<1> HIDE DEF z
<1> QED BY <1>1, <1>17, <1>18, SameQueue

-----------------------------------------------------------------------------
(* Savestates *)

\* g[k] is the machine after the first k of n saved events.
Unfolded(g, s, saved, n) ==
  /\ load_eventqueue_infos(s, saved) = g[n]
  /\ g[0] = [s EXCEPT !.q = << >>]
  /\ \A k \in 1 .. n : g[k] = add_interrupt_event_count(g[k - 1], saved[k])

\* The recursion of load_eventqueue_infos unfolds.
LEMMA LoadUnfolds ==
  ASSUME NEW s, NEW saved, NEW n \in Nat, Len(saved) = n
  PROVE  \E g : Unfolded(g, s, saved, n)
<1> DEFINE b == [s EXCEPT !.q = << >>]
           F(g, k) == IF k = 0 THEN b ELSE add_interrupt_event_count(g[k - 1], saved[k])
           Ok(g, i) == g = [k \in 0 .. i |-> F(g, k)]
           S == {i \in Nat : \E g : Ok(g, i)}
<1>1. load_eventqueue_infos(s, saved) = (CHOOSE g : Ok(g, n))[n]
  BY DEF load_eventqueue_infos
<1> HIDE DEF b
<1>2. 0 \in S
  <2> DEFINE g == [k \in 0 .. 0 |-> b]
  <2>1. Ok(g, 0)
    OBVIOUS
  <2> QED BY <2>1
<1>3. ASSUME NEW i \in Nat, i \in S PROVE i + 1 \in S
  <2>1. PICK g : Ok(g, i)
    BY <1>3
  <2>2. \A k \in 0 .. i : g[k] = F(g, k)
    BY <2>1
  <2> DEFINE h == [k \in 0 .. i + 1 |->
                     IF k = i + 1 THEN add_interrupt_event_count(g[i], saved[i + 1])
                     ELSE g[k]]
  <2>3. ASSUME NEW k \in 0 .. i + 1 PROVE h[k] = F(h, k)
    <3>1. CASE k = 0
      BY <2>2, <3>1
    <3>2. CASE k # 0
      <4>1. k - 1 \in 0 .. i /\ h[k - 1] = g[k - 1]
        BY <3>2
      <4>2. CASE k = i + 1
        BY <3>2, <4>1, <4>2
      <4>3. CASE k # i + 1
        BY <2>2, <3>2, <4>1, <4>3
      <4> QED BY <4>2, <4>3
    <3> QED BY <3>1, <3>2
  <2>4. h = [k \in 0 .. i + 1 |-> F(h, k)]
    <3>1. h = [k \in 0 .. i + 1 |-> h[k]]
      OBVIOUS
    <3> HIDE DEF h, F
    <3> QED BY <2>3, <3>1
  <2>5. \E x : Ok(x, i + 1)
    <3> HIDE DEF h
    <3> QED BY <2>4
  <2> QED BY <2>5
<1>4. Nat \subseteq S
  <2> HIDE DEF S
  <2> QED BY <1>2, <1>3, InductionOnNat
<1>5. \E g : Ok(g, n)
  BY <1>4
<1> DEFINE a == CHOOSE g : Ok(g, n)
<1>6. Ok(a, n)
  BY <1>5, Zenon
<1>7. load_eventqueue_infos(s, saved) = a[n]
  BY <1>1
<1> HIDE DEF a
<1>8. \A k \in 0 .. n : a[k] = F(a, k)
  BY <1>6
<1>9. Unfolded(a, s, saved, n)
  BY <1>7, <1>8 DEF b, Unfolded
<1> QED BY <1>9

\* After k saved events: they are all there, none was dropped, and what they are
\* holds of the queue.
Loaded(s, saved, k, r) ==
  /\ Fits(r) /\ Len(r.q) = k /\ r.dropped = s.dropped
  /\ (\E i \in 1 .. k : saved[i].type \in Lasting) => HasLasting(r.q)
  /\ (\A i \in 1 .. k : saved[i].type # "SPECIAL") => NoSpecial(r.q)
  /\ (\E i \in 1 .. k :
        /\ saved[i].type = "SPECIAL"
        /\ \A j \in 1 .. k : saved[j].type = "SPECIAL" => j = i) => OneSpecial(r.q)

LEMMA LoadOneMore ==
  ASSUME NEW s, NEW saved \in Seq(Event), Len(saved) <= POOL_CAPACITY,
         NEW k \in Nat, k < Len(saved), NEW r, Loaded(s, saved, k, r)
  PROVE  Loaded(s, saved, k + 1, add_interrupt_event_count(r, saved[k + 1]))
<1> DEFINE e == saved[k + 1]
           z == add_interrupt_event_count(r, e)
<1>1. k + 1 \in 1 .. Len(saved) /\ Len(saved) \in Nat
  OBVIOUS
<1>2. e \in Event
  BY <1>1
<1>3. Fits(r) /\ r.q \in Seq(Event) /\ Len(r.q) = k /\ r.dropped = s.dropped
  BY MachineFields DEF Loaded, Fits
<1> HIDE DEF e
<1>4. Fits(z) /\ z.dropped = r.dropped /\ Inserted(r.q, e, z.q)
  <2>1. Len(r.q) # POOL_CAPACITY
    BY <1>1, <1>3, Numbers
  <2> QED BY <1>2, <1>3, <2>1, AddOK
<1> SUFFICES Loaded(s, saved, k + 1, z)
  BY DEF e
<1> HIDE DEF z
<1>5. /\ Len(z.q) = Len(r.q) + 1
      /\ e.type # "SPECIAL" /\ NoSpecial(r.q) => NoSpecial(z.q)
      /\ e.type # "SPECIAL" /\ OneSpecial(r.q) => OneSpecial(z.q)
      /\ e.type = "SPECIAL" /\ NoSpecial(r.q) => OneSpecial(z.q)
      /\ e.type \in Lasting \/ HasLasting(r.q) => HasLasting(z.q)
  BY <1>2, <1>3, <1>4, InsertKeeps
<1>6. \A i \in 1 .. k + 1 : i \in 1 .. k \/ i = k + 1
  OBVIOUS
<1>7. \A i \in 1 .. k : i \in 1 .. k + 1 /\ i # k + 1
  OBVIOUS
<1>8. k + 1 \in 1 .. k + 1
  OBVIOUS
<1>9. ASSUME NEW i \in 1 .. k + 1, saved[i].type \in Lasting PROVE HasLasting(z.q)
  BY <1>5, <1>6, <1>9 DEF Loaded, e
<1>10. ASSUME \A i \in 1 .. k + 1 : saved[i].type # "SPECIAL" PROVE NoSpecial(z.q)
  BY <1>5, <1>7, <1>8, <1>10 DEF Loaded, e
<1>11. ASSUME NEW i \in 1 .. k + 1, saved[i].type = "SPECIAL",
              \A j \in 1 .. k + 1 : saved[j].type = "SPECIAL" => j = i
       PROVE  OneSpecial(z.q)
  <2>1. CASE i = k + 1
    <3>1. \A j \in 1 .. k : saved[j].type # "SPECIAL"
      BY <1>7, <1>11, <2>1
    <3> QED BY <1>5, <1>11, <2>1, <3>1 DEF Loaded, e
  <2>2. CASE i \in 1 .. k
    <3>1. e.type # "SPECIAL"
      BY <1>7, <1>8, <1>11, <2>2 DEF e
    <3>2. OneSpecial(r.q)
      BY <1>7, <1>11, <2>2 DEF Loaded
    <3> QED BY <1>5, <3>1, <3>2
  <2> QED BY <1>6, <2>1, <2>2
<1> QED BY <1>3, <1>4, <1>5, <1>9, <1>10, <1>11 DEF Loaded

LEMMA LoadQueueOK ==
  ASSUME NEW s, Whole(s), NEW t \in Machine, t.q = s.q, t.dropped = s.dropped
  PROVE  Whole(load_eventqueue_infos(t, s.q))
<1> DEFINE n == Len(s.q)
           saved == s.q
<1>1. /\ s \in Machine /\ saved \in Seq(Event) /\ n \in Nat
      /\ Len(saved) = n /\ Len(saved) <= POOL_CAPACITY
  BY MachineFields DEF Whole, Fits
<1> HIDE DEF n, saved
<1>0. PICK g : Unfolded(g, t, saved, n)
  BY <1>1, LoadUnfolds
<1>2. /\ load_eventqueue_infos(t, saved) = g[n]
      /\ g[0] = [t EXCEPT !.q = << >>]
      /\ \A k \in 1 .. n : g[k] = add_interrupt_event_count(g[k - 1], saved[k])
  BY <1>0 DEF Unfolded
<1> DEFINE S == {k \in Nat : k <= n => Loaded(t, saved, k, g[k])}
<1>3. 0 \in S
  <2>1. /\ g[0] \in Machine /\ g[0].q = << >> /\ g[0].dropped = t.dropped
    <3>1. << >> \in Seq(Event)
      OBVIOUS
    <3> QED BY <1>2, <3>1 DEF Machine
  <2>2. Len(g[0].q) = 0
    BY <2>1
  <2>3. Loaded(t, saved, 0, g[0])
    BY <2>1, <2>2, Numbers DEF Loaded, Fits, NoSpecial
  <2> QED BY <2>3
<1>4. ASSUME NEW k \in Nat, k \in S PROVE k + 1 \in S
  <2> SUFFICES ASSUME k + 1 <= n PROVE Loaded(t, saved, k + 1, g[k + 1])
    OBVIOUS
  <2>1. Loaded(t, saved, k, g[k])
    BY <1>1, <1>4
  <2>2. g[k + 1] = add_interrupt_event_count(g[k], saved[k + 1])
    <3>1. k + 1 \in 1 .. n /\ (k + 1) - 1 = k
      BY <1>1
    <3> QED BY <1>2, <3>1
  <2>3. k < Len(saved)
    BY <1>1
  <2> QED BY <1>1, <2>1, <2>2, <2>3, LoadOneMore
<1>5. n \in S
  <2> HIDE DEF S
  <2> QED BY <1>1, <1>3, <1>4, InductionOnNat
<1>6. Loaded(t, saved, n, g[n])
  BY <1>1, <1>5
<1>7. Whole(g[n])
  <2>1. HasLasting(saved) /\ (~s.dropped => OneSpecial(saved))
    BY DEF Whole, saved
  <2>2. HasLasting(g[n].q)
    BY <1>1, <1>6, <2>1 DEF Loaded, HasLasting
  <2>3. OneSpecial(saved) => OneSpecial(g[n].q)
    BY <1>1, <1>6 DEF Loaded, OneSpecial
  <2> QED BY <1>6, <2>1, <2>2, <2>3 DEF Whole, Loaded
<1> QED BY <1>2, <1>7 DEF saved

-----------------------------------------------------------------------------
(* The steps of the machine *)

LEMMA StartWhole == Whole(PowerOn)
<1> DEFINE s == [q |-> << >>, count |-> 0, next_interrupt |-> 0,
                 SPECIAL_done |-> FALSE, compare |-> 0, next_vi |-> 0,
                 skip_jump |-> FALSE, reset_hard_job |-> FALSE,
                 dropped |-> FALSE, disturbed |-> FALSE,
                 early |-> FALSE, straddled |-> FALSE, vi_fired |-> FALSE]
<1>1. << >> \in Seq(Event) /\ 0 \in Count
  BY Numbers
<1>2. s \in Machine
  BY <1>1 DEF Machine
<1>3. PowerOn = reset_hard(s)
  BY DEF PowerOn
<1> HIDE DEF s
<1> QED BY <1>2, <1>3, ResetHardOK

\* A device or the reset button asks for an event after a delay.
LEMMA AddDelayed ==
  ASSUME NEW s, Whole(s), NEW type \in Type, type # "SPECIAL",
         NEW delay \in 0 .. M - 1
  PROVE  Whole(add_interrupt_event(s, type, delay))
<1> DEFINE c == (s.count + delay) % M
           e == [type |-> type, count |-> c, left |-> delay]
<1>1. c \in Count
  <2>1. s.count + delay \in Int
    BY MachineFields, Numbers DEF Whole, Fits, Count
  <2> QED BY <2>1, ModCount
<1>2. delay \in -1 .. M
  BY Numbers
<1>3. add_interrupt_event(s, type, delay) = add_interrupt_event_count(s, e)
  BY DEF add_interrupt_event
<1> HIDE DEF c
<1>4. e \in Event /\ e.type = type
  BY <1>1, <1>2, EventIs
<1> HIDE DEF e
<1> QED BY <1>3, <1>4, AddWhole

LEMMA JumpOK ==
  ASSUME QueueInv, NEW d \in 1 .. MaxTick, Jump(d) PROVE QueueInv'
<1> DEFINE s == cp0_update_count(m, d)
           r == TestInterrupt(s, FALSE)
           b == Straddles(d)
           z == [r EXCEPT !.straddled = b, !.disturbed = @ \/ b]
<1>1. d \in Nat
  BY Numbers
<1>2. Whole(s)
  BY <1>1, UpdateCountOK DEF QueueInv
<1> HIDE DEF s
<1>3. Whole(r) /\ FALSE \in BOOLEAN
  BY <1>2, TestOK
<1>4. m' = z /\ ops' = ops
  BY DEF Jump, s
<1> HIDE DEF r
<1>5. b \in BOOLEAN
  BY DEF Straddles
<1> HIDE DEF b
<1>6. z \in Machine /\ z.q = r.q /\ z.dropped = r.dropped
  <2>1. r.disturbed \/ b \in BOOLEAN
    BY <1>3, <1>5, MachineFields DEF Whole, Fits
  <2> QED BY <1>3, <1>5 DEF Machine, Whole, Fits
<1> HIDE DEF z
<1>7. Whole(z)
  BY <1>3, <1>6, SameQueue
<1> QED BY <1>4, <1>7 DEF QueueInv

LEMMA IdleSkipOK == ASSUME QueueInv, IdleSkip PROVE QueueInv'
<1> DEFINE skip == (m.next_interrupt - m.count) % M
           step == skip - (skip % (MaxTick + 1))
           s == cp0_update_count(m, step)
           b == m.count + step >= M + Past
           z == [s EXCEPT !.straddled = b]
<1>1. skip \in Nat
  <2>1. m.next_interrupt - m.count \in Int
    BY MachineFields, Numbers DEF QueueInv, Whole, Fits, Count
  <2> QED BY <2>1, ModCount, Numbers DEF Count
<1>2. m' = z /\ ops' = ops
  BY DEF IdleSkip
<1> HIDE DEF skip
<1>3. step \in Nat
  BY <1>1, Numbers
<1> HIDE DEF step
<1>4. Whole(s)
  BY <1>3, UpdateCountOK DEF QueueInv
<1> HIDE DEF s
<1>5. b \in BOOLEAN
  OBVIOUS
<1> HIDE DEF b
<1>6. z \in Machine /\ z.q = s.q /\ z.dropped = s.dropped
  BY <1>4, <1>5 DEF Machine, Whole, Fits
<1> HIDE DEF z
<1>7. Whole(z)
  BY <1>4, <1>6, SameQueue
<1> QED BY <1>2, <1>7 DEF QueueInv

LEMMA OpOK == ASSUME QueueInv, NEW s, Whole(s), Op(s) PROVE QueueInv'
<1>1. m' = s /\ ops' = ops + 1 /\ ops < MaxOps
  BY DEF Op
<1>2. ops' \in 0 .. MaxOps
  BY <1>1, Numbers DEF QueueInv
<1> QED BY <1>1, <1>2 DEF QueueInv

LEMMA WriteCompareOK == ASSUME QueueInv, WriteCompare PROVE QueueInv'
<1>1. PICK v \in CompareValues :
        Op([add_interrupt_event_count(remove_event(m, "COMPARE"),
              [type |-> "COMPARE", count |-> v, left |-> (v - m.count) % M])
            EXCEPT !.compare = v, !.disturbed = TRUE])
  BY DEF WriteCompare
<1> DEFINE s == remove_event(m, "COMPARE")
           l == (v - m.count) % M
           e == [type |-> "COMPARE", count |-> v, left |-> l]
           r == add_interrupt_event_count(s, e)
           z == [r EXCEPT !.compare = v, !.disturbed = TRUE]
<1>2. v \in Count
  BY Numbers
<1>3. l \in -1 .. M
  <2>1. v - m.count \in Int
    BY <1>2, MachineFields, Numbers DEF QueueInv, Whole, Fits, Count
  <2> QED BY <2>1, ModCount, Numbers DEF Count
<1>4. Op(z)
  BY <1>1
<1> HIDE DEF l
<1>5. e \in Event /\ e.type = "COMPARE"
  BY <1>2, <1>3, EventIs DEF Type
<1>6. /\ Fits(s) /\ s.dropped = m.dropped /\ (s = m \/ Len(s.q) < POOL_CAPACITY)
      /\ OneSpecial(m.q) => OneSpecial(s.q)
  BY RemoveEventOK DEF QueueInv, Whole
<1> HIDE DEF s, e
<1>7. Whole(r)
  <2>1. CASE s = m
    BY <1>5, <2>1, AddWhole DEF QueueInv
  <2>2. CASE Len(s.q) < POOL_CAPACITY
    <3>1. Gap(s)
      BY <1>6, <2>2 DEF QueueInv, Whole, Gap
    <3> QED BY <1>5, <3>1, AddToGap DEF Lasting
  <2> QED BY <1>6, <2>1, <2>2
<1> HIDE DEF r
<1>8. z \in Machine /\ z.q = r.q /\ z.dropped = r.dropped
  BY <1>2, <1>7 DEF Machine, Whole, Fits
<1> HIDE DEF z
<1>9. Whole(z)
  BY <1>7, <1>8, SameQueue
<1> QED BY <1>4, <1>9, OpOK

LEMMA GuestOK == ASSUME QueueInv, Guest PROVE QueueInv'
<1>m. Whole(m) /\ m \in Machine /\ 0 \in Count
  BY Numbers DEF QueueInv, Whole, Fits
<1>1. CASE StartDevice
  <2>1. PICK d \in Delays : Op(add_interrupt_event(m, "DEV", d))
    BY <1>1 DEF StartDevice
  <2>2. d \in 0 .. M - 1 /\ "DEV" \in Type
    BY Numbers DEF Type
  <2>3. Whole(add_interrupt_event(m, "DEV", d))
    BY <1>m, <2>2, AddDelayed
  <2> QED BY <2>1, <2>3, OpOK
<1>2. CASE SignalInterrupt
  BY <1>m, <1>2, CheckOK, OpOK DEF SignalInterrupt
<1>3. CASE EnableInterrupts
  <2>1. PICK u \in BOOLEAN, s \in {m, check_interrupt(m)} : Op(TestInterrupt(s, u))
    BY <1>3 DEF EnableInterrupts
  <2>2. Whole(s)
    BY <1>m, CheckOK
  <2>3. Whole(TestInterrupt(s, u))
    BY <2>2, TestOK
  <2> QED BY <2>1, <2>3, OpOK
<1>4. CASE WriteCompare
  BY <1>4, WriteCompareOK
<1>5. CASE WriteCount
  <2>1. PICK v \in CountValues : Op(translate_event_queue(TestInterrupt(m, TRUE), v))
    BY <1>5 DEF WriteCount
  <2>2. Whole(TestInterrupt(m, TRUE))
    BY <1>m, TestOK
  <2>3. Whole(translate_event_queue(TestInterrupt(m, TRUE), v))
    BY <2>2, TranslateOK, Numbers
  <2> QED BY <2>1, <2>3, OpOK
<1>6. CASE DelaySlotException
  <2> DEFINE s == [m EXCEPT !.skip_jump = TRUE, !.next_interrupt = 0]
  <2>1. s \in Machine /\ s.q = m.q /\ s.dropped = m.dropped
    BY <1>m DEF Machine
  <2>2. Op(s)
    BY <1>6 DEF DelaySlotException
  <2> HIDE DEF s
  <2> QED BY <1>m, <2>1, <2>2, SameQueue, OpOK
<1>7. CASE reset_soft
  <2> DEFINE s == add_interrupt_event(m, "HW2", 0)
  <2>1. "HW2" \in Type /\ "NMI" \in Type /\ 0 \in 0 .. M - 1 /\ NmiDelay \in 0 .. M - 1
    BY Numbers DEF Type
  <2>2. Whole(s)
    BY <1>m, <2>1, AddDelayed
  <2>3. Op(add_interrupt_event(s, "NMI", NmiDelay))
    BY <1>7 DEF reset_soft
  <2> HIDE DEF s
  <2>4. Whole(add_interrupt_event(s, "NMI", NmiDelay))
    BY <2>1, <2>2, AddDelayed
  <2> QED BY <2>3, <2>4, OpOK
<1>8. CASE RequestHardReset
  <2> DEFINE s == [m EXCEPT !.reset_hard_job = TRUE]
  <2>1. s \in Machine /\ s.q = m.q /\ s.dropped = m.dropped
    BY <1>m DEF Machine
  <2>2. Op(s)
    BY <1>8 DEF RequestHardReset
  <2> HIDE DEF s
  <2> QED BY <1>m, <2>1, <2>2, SameQueue, OpOK
<1>9. CASE LoadState
  <2>1. PICK done \in BOOLEAN :
          Op(load_eventqueue_infos([m EXCEPT !.SPECIAL_done = done], m.q))
    BY <1>9 DEF LoadState
  <2> DEFINE t == [m EXCEPT !.SPECIAL_done = done]
  <2>2. t \in Machine /\ t.q = m.q /\ t.dropped = m.dropped
    BY <1>m DEF Machine
  <2>3. Op(load_eventqueue_infos(t, m.q))
    BY <2>1
  <2> HIDE DEF t
  <2>4. Whole(load_eventqueue_infos(t, m.q))
    BY <1>m, <2>2, LoadQueueOK
  <2> QED BY <2>3, <2>4, OpOK
<1> QED BY <1>1, <1>2, <1>3, <1>4, <1>5, <1>6, <1>7, <1>8, <1>9 DEF Guest

LEMMA QueueInvariance == SafeSpec => []QueueInv
<1>1. Init => QueueInv
  BY StartWhole, Numbers DEF Init, QueueInv
<1>2. QueueInv /\ [Next]_vars => QueueInv'
  <2> SUFFICES ASSUME QueueInv, [Next]_vars PROVE QueueInv'
    OBVIOUS
  <2>1. CASE UNCHANGED vars
    BY <2>1 DEF vars, QueueInv
  <2>2. CASE Run
    <3>1. PICK d \in 1 .. MaxTick : Jump(d)
      BY <2>2 DEF Run
    <3> QED BY <3>1, JumpOK
  <2>3. CASE IdleSkip
    BY <2>3, IdleSkipOK
  <2>4. CASE Guest
    BY <2>4, GuestOK
  <2> QED BY <2>1, <2>2, <2>3, <2>4 DEF Next
<1> QED BY <1>1, <1>2, PTL DEF SafeSpec

\* While no event was lost to a full pool, the wrap marker of interrupt.c's
\* queue is in it exactly once, for every Count modulus, pool size, set of
\* delays and register values: through the handlers that take it out and put it
\* back, resets, Count and Compare writes, and savestates loaded event by event.
\* Every field keeps its type and the queue its pool.
THEOREM SpecialOnceAlways == SafeSpec => []SpecialOnce
<1>1. QueueInv => SpecialOnce
  <2> SUFFICES ASSUME QueueInv PROVE SpecialOnce
    OBVIOUS
  <2>1. m \in Machine /\ Len(m.q) <= POOL_CAPACITY /\ ops \in 0 .. MaxOps
    BY DEF QueueInv, Whole, Fits
  <2>2. {m.SPECIAL_done, m.skip_jump, m.reset_hard_job, m.dropped,
         m.disturbed, m.early, m.straddled, m.vi_fired} \subseteq BOOLEAN
    BY <2>1, MachineFields, Zenon
  <2>3. TypeOK
    BY <2>1, <2>2, MachineFields DEF TypeOK
  <2>4. ASSUME ~m.dropped
        PROVE  Cardinality({k \in 1 .. Len(m.q) : m.q[k].type = "SPECIAL"}) = 1
    <3> DEFINE S == {k \in 1 .. Len(m.q) : m.q[k].type = "SPECIAL"}
    <3>1. OneSpecial(m.q)
      BY <2>4 DEF QueueInv, Whole
    <3>2. \E k : S = {k}
      BY <3>1 DEF OneSpecial
    <3> QED BY <3>2, FS_Singleton
  <2> QED BY <2>3, <2>4 DEF SpecialOnce
<1> QED BY <1>1, QueueInvariance, PTL

\* gen_interrupt dereferences q.first without a test: the queue is never empty,
\* even after the pool ran out and the wrap marker may be gone, because an event
\* that puts itself back finds the node it has just freed.
THEOREM QueueNeverEmpty == SafeSpec => [](m.q # << >>)
<1>1. QueueInv => m.q # << >>
  <2> SUFFICES ASSUME QueueInv, m.q = << >> PROVE FALSE
    OBVIOUS
  <2>1. HasLasting(m.q)
    BY DEF QueueInv, Whole
  <2>2. Len(m.q) = 0
    OBVIOUS
  <2> QED BY <2>1, <2>2 DEF HasLasting
<1> QED BY <1>1, QueueInvariance, PTL

-----------------------------------------------------------------------------
(* Times of events *)

\* The k-th event is ahead of the marker.
Ahead(q, k) == \A j \in 1 .. k : q[j].type # "SPECIAL"

\* The time an event has left agrees with the count it was queued for.
DatedEvent(e, count) ==
  /\ e.type # "COMPARE"
  /\ e.type = "SPECIAL" => e.count = 0 /\ e.left = 0
  /\ e.type # "SPECIAL" /\ e.left >= 0 =>
       e.left < Half /\ e.count = (count + e.left) % M

Dated(q, count) == \A k \in 1 .. Len(q) : DatedEvent(q[k], count)

\* What is ahead of the marker and not due yet comes before the wrap.
ThisLap(q, count) ==
  \A k \in 1 .. Len(q) :
    Ahead(q, k) /\ q[k].left > 0 => count + q[k].left < M

\* next_interrupt waits for the first event, or skip_jump will make it.
Armed(s) ==
  Len(s.q) >= 1 /\ s.q[1].left > 0 =>
    s.next_interrupt = s.q[1].count \/ s.skip_jump

Marked(q) == \E k \in 1 .. Len(q) : q[k].type = "SPECIAL"

\* The queue of an undisturbed machine, inside a handler too.
Paced(s) == Dated(s.q, s.count) /\ ThisLap(s.q, s.count) /\ Armed(s)

\* Timely, of any machine.
NotLate(s) ==
  s.count > Half =>
    \A k \in 1 .. Len(s.q) :
      s.q[k].left = -1 /\ Ahead(s.q, k) => (s.count - s.q[k].count) % M < Past

LEMMA Windows ==
  /\ M \in Nat /\ Half \in Nat /\ Past \in Nat /\ Past >= 1
  /\ M = 2 * Half /\ Half = 8 * Past
<1>1. M = 16 * (M \div 16) /\ M \div 16 \in Nat
  BY ConstantsAssumption DEF ConstantsAssumption
<1> DEFINE p == M \div 16
<1>2. p \in Nat /\ M = 16 * p /\ p >= 1
  BY <1>1, ConstantsAssumption DEF ConstantsAssumption
<1> HIDE DEF p
<1>3. (16 * p) \div 2 = 8 * p
  BY <1>2
<1>4. Past = p /\ Half = 8 * p
  BY <1>2, <1>3 DEF Past, Half, p
<1> QED BY <1>2, <1>4

LEMMA WrapOnce ==
  ASSUME NEW x \in Int
  PROVE  /\ 0 <= x /\ x < M => x % M = x
         /\ M <= x /\ x < 2 * M => x % M = x - M
         /\ -M <= x /\ x < 0 => x % M = x + M
<1>1. M \in Nat /\ M >= 1
  BY Numbers
<1>2. ASSUME 0 <= x, x < M PROVE x % M = x
  BY <1>1, <1>2
<1>3. ASSUME M <= x, x < 2 * M PROVE x % M = x - M
  BY <1>1, <1>3
<1>4. ASSUME -M <= x, x < 0 PROVE x % M = x + M
  BY <1>1, <1>4
<1> QED BY <1>2, <1>3, <1>4

\* The distance to an event less than half a lap away.
LEMMA DistanceIsLeft ==
  ASSUME NEW c \in Count, NEW l \in 0 .. Half - 1
  PROVE  (((c + l) % M) - c) % M = l
<1> DEFINE x == (c + l) % M
<1>1. c \in 0 .. M - 1 /\ c + l \in Int
  BY Windows DEF Count
<1>2. x = IF c + l < M THEN c + l ELSE c + l - M
  BY <1>1, WrapOnce, Windows
<1> HIDE DEF x
<1>3. x - c \in Int /\ (x - c = l \/ x - c = l - M)
  BY <1>1, <1>2, Windows
<1>4. (x - c) % M = l
  BY <1>1, <1>3, WrapOnce, Windows
<1> QED BY <1>4 DEF x

\* An event that before_event puts ahead of x comes before the wrap, when x is
\* the marker or is ahead of it and not late.
LEMMA BeforeThisLap ==
  ASSUME NEW s \in Machine, NEW e \in Event, NEW x \in Event,
         DatedEvent(e, s.count), e.type # "SPECIAL", e.left > 0,
         DatedEvent(x, s.count), before_event(s, e.count, x),
         s.SPECIAL_done => ~(s.count > Half),
         x.type # "SPECIAL" /\ x.left > 0 => s.count + x.left < M,
         x.type # "SPECIAL" /\ x.left = -1 /\ s.count > Half =>
           (s.count - x.count) % M < Past
  PROVE  s.count + e.left < M
<1> DEFINE c == s.count
           d1 == (e.count - c) % M
           d2 == (x.count - c) % M
           late == (c - x.count) % M
<1>1. /\ c \in Count /\ c \in 0 .. M - 1
      /\ e.left \in 1 .. Half - 1 /\ x.left \in -1 .. M /\ x.count \in 0 .. M - 1
  BY MachineFields, EventFields, Windows DEF DatedEvent, Count
<1>2. CASE c <= Half
  BY <1>1, <1>2, Windows
<1>3. CASE c > Half
  <2>1. d1 = e.left
    <3>1. e.left \in 0 .. Half - 1 /\ e.count = (c + e.left) % M
      BY <1>1, Windows DEF DatedEvent
    <3> QED BY <1>1, <3>1, DistanceIsLeft
  <2>2. /\ IF d2 < Half THEN d1 < d2
           ELSE late < Past => x.type = "SPECIAL" /\ s.SPECIAL_done
    BY DEF before_event
  <2>3. ~s.SPECIAL_done
    BY <1>3
  <2>4. /\ d2 = IF x.count >= c THEN x.count - c ELSE x.count - c + M
        /\ late = IF c >= x.count THEN c - x.count ELSE c - x.count + M
    <3> DEFINE y == x.count - c
               z == c - x.count
    <3>1. /\ y \in Int /\ -M <= y /\ y < M /\ (x.count >= c <=> y >= 0)
          /\ z \in Int /\ -M <= z /\ z < M /\ (c >= x.count <=> z >= 0)
      BY <1>1, Windows
    <3>2. d2 = y % M /\ late = z % M
      OBVIOUS
    <3>3. y + M = x.count - c + M /\ z + M = c - x.count + M
      OBVIOUS
    <3> HIDE DEF y, z, d2, late
    <3>4. y % M = IF y >= 0 THEN y ELSE y + M
      BY <3>1, WrapOnce
    <3>5. z % M = IF z >= 0 THEN z ELSE z + M
      BY <3>1, WrapOnce
    <3> QED BY <3>1, <3>2, <3>3, <3>4, <3>5 DEF y, z
  <2> HIDE DEF d1, d2, late
  <2>5. CASE x.type = "SPECIAL"
    <3>1. d2 = M - c /\ d2 < Half
      BY <1>1, <1>3, <2>4, <2>5, Windows DEF DatedEvent
    <3> QED BY <1>1, <2>1, <2>2, <3>1, Windows
  <2>6. CASE x.type # "SPECIAL" /\ x.left > 0
    <3>1. x.left \in 1 .. Half - 1 /\ c + x.left < M
      BY <1>1, <2>6, Windows DEF DatedEvent
    <3>2. x.count = c + x.left
      <4>1. x.count = (c + x.left) % M /\ c + x.left \in Int
        BY <1>1, <2>6 DEF DatedEvent
      <4> QED BY <1>1, <3>1, <4>1, WrapOnce, Windows
    <3>3. d2 = x.left
      BY <1>1, <2>4, <3>1, <3>2, Windows
    <3> QED BY <1>1, <2>1, <2>2, <3>1, <3>3, Windows
  <2>7. CASE x.type # "SPECIAL" /\ x.left = 0
    <3>1. x.count = c
      <4>1. x.count = (c + 0) % M
        BY <1>1, <2>7 DEF DatedEvent
      <4> QED BY <1>1, <4>1, WrapOnce, Windows
    <3>2. d2 = 0
      BY <1>1, <2>4, <3>1
    <3> QED BY <1>1, <2>1, <2>2, <3>2, Windows
  <2>8. CASE x.type # "SPECIAL" /\ x.left = -1
    <3>1. late < Past
      BY <1>3, <2>8 DEF late
    <3>2. d2 >= Half \/ d2 = 0
      BY <1>1, <2>4, <3>1, Windows
    <3>3. d2 < Half /\ d1 < d2
      BY <2>2, <2>8, <3>1
    <3>4. d2 \in Int
      BY <1>1, <2>4, Windows
    <3> QED BY <1>1, <2>1, <3>2, <3>3, <3>4, Windows
  <2> QED BY <1>1, <2>5, <2>6, <2>7, <2>8
<1> QED BY <1>1, <1>2, <1>3, Windows

-----------------------------------------------------------------------------
(* Adding and removing on time *)

\* SPECIAL_done as add_interrupt_event_count compares with it.
Compared(s) == [s EXCEPT !.SPECIAL_done = @ /\ ~(s.count > Half)]

\* The clock and the history that adding and removing leave alone.
SameClock(s, r) ==
  /\ r.count = s.count /\ r.early = s.early /\ r.disturbed = s.disturbed
  /\ r.skip_jump = s.skip_jump

\* r is s with e put in at p.
AddedAt(s, e, p, r) ==
  /\ PutIn(s.q, e, p, r.q)
  /\ e.type = "SPECIAL" => p = Len(s.q) + 1
  /\ p <= Len(s.q) => before_event(Compared(s), e.count, s.q[p])
  /\ r.next_interrupt = IF p = 1 THEN e.count ELSE s.next_interrupt

LEMMA AddPlace ==
  ASSUME NEW s, Fits(s), NEW e \in Event
  PROVE  LET r == add_interrupt_event_count(s, e)
         IN  /\ SameClock(s, r)
             /\ \/ /\ Len(s.q) = POOL_CAPACITY
                   /\ r.q = s.q /\ r.next_interrupt = s.next_interrupt
                \/ \E p \in 1 .. Len(s.q) + 1 : AddedAt(s, e, p, r)
<1> DEFINE b == s.SPECIAL_done /\ ~(s.count > Half)
           t == [s EXCEPT !.SPECIAL_done = b]
           r == add_interrupt_event_count(s, e)
           f == <<e>> \o s.q
           p == Place(t, e)
           g == InsertAt(s.q, p, e)
<1>1. s \in Machine /\ s.q \in Seq(Event) /\ Len(s.q) \in Nat
      /\ Len(s.q) <= POOL_CAPACITY /\ POOL_CAPACITY \in Nat
  BY MachineFields, Numbers DEF Fits
<1>2. b \in BOOLEAN /\ t = Compared(s)
  BY DEF Compared
<1> HIDE DEF b
<1>3. /\ t \in Machine /\ t.q = s.q /\ t.next_interrupt = s.next_interrupt
      /\ SameClock(s, t)
  BY <1>1, <1>2 DEF Machine, SameClock
<1>4. r = IF Len(t.q) >= POOL_CAPACITY THEN [t EXCEPT !.dropped = TRUE]
          ELSE IF GoesFirst(t, e)
               THEN [t EXCEPT !.q = <<e>> \o t.q, !.next_interrupt = e.count]
               ELSE [t EXCEPT !.q = InsertAt(t.q, Place(t, e), e)]
  BY DEF add_interrupt_event_count, b
<1>5. GoesFirst(t, e) <=>
        t.q = << >> \/ (e.type # "SPECIAL" /\ before_event(t, e.count, t.q[1]))
  BY DEF GoesFirst
<1> HIDE DEF t, r
<1>6. CASE Len(s.q) >= POOL_CAPACITY
  <2>1. r = [t EXCEPT !.dropped = TRUE]
    BY <1>3, <1>4, <1>6
  <2>2. r.q = s.q /\ r.next_interrupt = s.next_interrupt /\ SameClock(s, r)
    BY <1>3, <2>1 DEF Machine, SameClock
  <2> QED BY <1>1, <1>6, <2>2 DEF r
<1>7. CASE Len(s.q) < POOL_CAPACITY /\ GoesFirst(t, e)
  <2>1. PutIn(s.q, e, 1, f)
    BY <1>1, PutFirst
  <2>2. r = [t EXCEPT !.q = f, !.next_interrupt = e.count]
    BY <1>1, <1>3, <1>4, <1>7
  <2> HIDE DEF f
  <2>3. r.q = f /\ r.next_interrupt = e.count /\ SameClock(s, r)
    BY <1>3, <2>2 DEF Machine, SameClock
  <2>4. /\ e.type = "SPECIAL" => 1 = Len(s.q) + 1
        /\ 1 <= Len(s.q) => before_event(Compared(s), e.count, s.q[1])
    BY <1>1, <1>2, <1>3, <1>5, <1>7
  <2>5. AddedAt(s, e, 1, r) /\ 1 \in 1 .. Len(s.q) + 1
    BY <1>1, <2>1, <2>3, <2>4 DEF AddedAt
  <2> QED BY <2>3, <2>5 DEF r
<1>8. CASE Len(s.q) < POOL_CAPACITY /\ ~GoesFirst(t, e)
  <2>1. /\ p \in 1 .. Len(s.q) + 1
        /\ e.type = "SPECIAL" => p = Len(s.q) + 1
        /\ p <= Len(s.q) => p # 1 /\ before_event(t, e.count, s.q[p])
    BY <1>3, PlaceOK
  <2>2. r = [t EXCEPT !.q = g]
    BY <1>1, <1>3, <1>4, <1>8
  <2>3. p # 1
    BY <1>1, <1>3, <1>5, <1>8, <2>1
  <2> HIDE DEF p
  <2>4. PutIn(s.q, e, p, g)
    BY <1>1, <2>1, PutAt
  <2> HIDE DEF g
  <2>5. r.q = g /\ r.next_interrupt = s.next_interrupt /\ SameClock(s, r)
    BY <1>3, <2>2 DEF Machine, SameClock
  <2>6. AddedAt(s, e, p, r)
    BY <1>2, <2>1, <2>3, <2>4, <2>5 DEF AddedAt
  <2> QED BY <2>1, <2>5, <2>6 DEF r
<1> QED BY <1>1, <1>6, <1>7, <1>8

\* Where the events of q are after e was put in at p.
Shift(i, p) == IF i < p THEN i ELSE i + 1

Shifted(q, e, p, w) ==
  /\ p \in 1 .. Len(w) /\ w[p] = e
  /\ \A i \in 1 .. Len(q) : Shift(i, p) \in 1 .. Len(w) /\ w[Shift(i, p)] = q[i]
  /\ \A j \in 1 .. Len(w) : j = p \/ \E i \in 1 .. Len(q) : j = Shift(i, p)

LEMMA PutInPlaces ==
  ASSUME NEW q \in Seq(Event), NEW e, NEW p \in 1 .. Len(q) + 1, NEW w,
         PutIn(q, e, p, w)
  PROVE  Shifted(q, e, p, w)
<1>1. Len(q) \in Nat /\ Len(w) = Len(q) + 1 /\ p \in Nat
  BY DEF PutIn
<1>2. p \in 1 .. Len(w) /\ w[p] = e
  BY <1>1 DEF PutIn
<1>3. ASSUME NEW i \in 1 .. Len(q)
      PROVE  Shift(i, p) \in 1 .. Len(w) /\ w[Shift(i, p)] = q[i]
  BY <1>1 DEF PutIn, Shift
<1>4. ASSUME NEW j \in 1 .. Len(w), j # p
      PROVE  \E i \in 1 .. Len(q) : j = Shift(i, p)
  <2> DEFINE i == IF j < p THEN j ELSE j - 1
  <2>1. i \in 1 .. Len(q) /\ j = Shift(i, p)
    BY <1>1, <1>4 DEF Shift
  <2> QED BY <2>1
<1> QED BY <1>2, <1>3, <1>4 DEF Shifted

\* The marker is behind no event that it was not behind before, and behind all of
\* them still unless it was put in.
LEMMA PutInAhead ==
  ASSUME NEW q \in Seq(Event), NEW e, NEW p \in 1 .. Len(q) + 1, NEW w,
         PutIn(q, e, p, w), NEW i \in 1 .. Len(q)
  PROVE  /\ Ahead(w, Shift(i, p)) => Ahead(q, i)
         /\ Ahead(w, p) /\ i < p => Ahead(q, i)
         /\ Ahead(q, i) /\ (e.type = "SPECIAL" => p = Len(q) + 1) =>
              Ahead(w, Shift(i, p))
<1>0. Shifted(q, e, p, w)
  BY PutInPlaces
<1>a. p \in Nat /\ Len(q) \in Nat
  OBVIOUS
<1>b. w[p] = e
  BY <1>0 DEF Shifted
<1>c. \A l \in 1 .. Len(q) : w[Shift(l, p)] = q[l]
  BY <1>0, Zenon DEF Shifted
<1>d. \A j \in 1 .. Len(w) : j = p \/ \E l \in 1 .. Len(q) : j = Shift(l, p)
  BY <1>0, Zenon DEF Shifted
<1>1. /\ w[p] = e /\ p \in Nat /\ Len(q) \in Nat
      /\ \A l \in 1 .. Len(q) : w[Shift(l, p)] = q[l]
      /\ \A j \in 1 .. Len(w) : j = p \/ \E l \in 1 .. Len(q) : j = Shift(l, p)
  BY <1>a, <1>b, <1>c, <1>d
<1>2. Len(w) = Len(q) + 1
  BY DEF PutIn
<1>3. ASSUME Ahead(w, Shift(i, p)) PROVE Ahead(q, i)
  <2>1. ASSUME NEW l \in 1 .. i PROVE q[l].type # "SPECIAL"
    <3>1. l \in 1 .. Len(q) /\ Shift(l, p) \in 1 .. Shift(i, p)
      BY <1>1 DEF Shift
    <3> QED BY <1>1, <1>3, <3>1 DEF Ahead
  <2> QED BY <2>1 DEF Ahead
<1>4. ASSUME Ahead(w, p), i < p PROVE Ahead(q, i)
  <2>1. ASSUME NEW l \in 1 .. i PROVE q[l].type # "SPECIAL"
    <3>1. l \in 1 .. Len(q) /\ Shift(l, p) \in 1 .. p
      BY <1>1, <1>4 DEF Shift
    <3> QED BY <1>1, <1>4, <3>1 DEF Ahead
  <2> QED BY <2>1 DEF Ahead
<1>5. ASSUME Ahead(q, i), e.type = "SPECIAL" => p = Len(q) + 1
      PROVE  Ahead(w, Shift(i, p))
  <2>1. ASSUME NEW j \in 1 .. Shift(i, p) PROVE w[j].type # "SPECIAL"
    <3>1. j \in 1 .. Len(w)
      BY <1>1, <1>2 DEF Shift
    <3>2. CASE j = p
      <4>1. p # Len(q) + 1
        BY <1>1, <3>2 DEF Shift
      <4> QED BY <1>1, <1>5, <3>2, <4>1
    <3>3. CASE j # p
      <4>1. PICK l \in 1 .. Len(q) : j = Shift(l, p)
        BY <1>1, <3>1, <3>3
      <4>2. l \in 1 .. i
        BY <1>1, <4>1 DEF Shift
      <4> QED BY <1>1, <1>5, <4>1, <4>2 DEF Ahead
    <3> QED BY <3>2, <3>3
  <2> QED BY <2>1 DEF Ahead
<1> QED BY <1>3, <1>4, <1>5

\* No event is less late for another one being added.
LEMMA AddLate ==
  ASSUME NEW s, Fits(s), NEW e \in Event, NotLate(add_interrupt_event_count(s, e))
  PROVE  NotLate(s)
<1> DEFINE r == add_interrupt_event_count(s, e)
<1>1. /\ SameClock(s, r)
      /\ \/ r.q = s.q
         \/ \E p \in 1 .. Len(s.q) + 1 : AddedAt(s, e, p, r)
  BY AddPlace
<1>2. NotLate(r) /\ s.q \in Seq(Event)
  BY MachineFields DEF Fits
<1> HIDE DEF r
<1>3. r.count = s.count
  BY <1>1 DEF SameClock
<1> SUFFICES ASSUME s.count > Half, NEW k \in 1 .. Len(s.q),
                    s.q[k].left = -1, Ahead(s.q, k)
             PROVE  (s.count - s.q[k].count) % M < Past
  BY DEF NotLate
<1>4. CASE r.q = s.q
  BY <1>2, <1>3, <1>4 DEF NotLate
<1>5. ASSUME NEW p \in 1 .. Len(s.q) + 1, AddedAt(s, e, p, r)
      PROVE  (s.count - s.q[k].count) % M < Past
  <2>1. PutIn(s.q, e, p, r.q) /\ (e.type = "SPECIAL" => p = Len(s.q) + 1)
    BY <1>5 DEF AddedAt
  <2>2. Shift(k, p) \in 1 .. Len(r.q) /\ r.q[Shift(k, p)] = s.q[k]
    <3>1. Shifted(s.q, e, p, r.q)
      BY <1>2, <2>1, PutInPlaces
    <3> QED BY <3>1, Zenon DEF Shifted
  <2>3. Ahead(r.q, Shift(k, p))
    BY <1>2, <2>1, PutInAhead
  <2> QED BY <1>2, <1>3, <2>2, <2>3 DEF NotLate
<1> QED BY <1>1, <1>4, <1>5

\* An event is added on time: it is known to come before the wrap, or
\* before_event compares it with the marker and with events that are not late.
LEMMA AddPaced ==
  ASSUME NEW s, Fits(s), Paced(s), NEW e \in Event, DatedEvent(e, s.count),
         \/ e.left > 0 => s.count + e.left < M
         \/ Marked(s.q) /\ NotLate(s)
  PROVE  Paced(add_interrupt_event_count(s, e))
<1> DEFINE r == add_interrupt_event_count(s, e)
           t == Compared(s)
<1>1. /\ SameClock(s, r)
      /\ \/ r.q = s.q /\ r.next_interrupt = s.next_interrupt
         \/ \E p \in 1 .. Len(s.q) + 1 : AddedAt(s, e, p, r)
  BY AddPlace
<1> SUFFICES Paced(r)
  OBVIOUS
<1> HIDE DEF r
<1>2. /\ s \in Machine /\ s.q \in Seq(Event) /\ Len(s.q) \in Nat
      /\ r.count = s.count /\ r.skip_jump = s.skip_jump
  BY <1>1, MachineFields DEF Fits, SameClock
<1>3. /\ t \in Machine /\ t.count = s.count /\ t.q = s.q
      /\ t.SPECIAL_done => ~(t.count > Half)
  <2>1. (s.SPECIAL_done /\ ~(s.count > Half)) \in BOOLEAN
    OBVIOUS
  <2> QED BY <1>2, <2>1 DEF Compared, Machine
<1> HIDE DEF t
<1>4. CASE r.q = s.q /\ r.next_interrupt = s.next_interrupt
  BY <1>2, <1>4 DEF Paced, Armed
<1>5. ASSUME NEW p \in 1 .. Len(s.q) + 1, AddedAt(s, e, p, r) PROVE Paced(r)
  <2>1. /\ PutIn(s.q, e, p, r.q)
        /\ p <= Len(s.q) => before_event(t, e.count, s.q[p])
        /\ r.next_interrupt = IF p = 1 THEN e.count ELSE s.next_interrupt
    BY <1>5 DEF AddedAt, t
  <2>2. Shifted(s.q, e, p, r.q)
    BY <1>2, <2>1, PutInPlaces
  <2>3. ASSUME NEW j \in 1 .. Len(r.q), j # p
        PROVE  \E i \in 1 .. Len(s.q) : j = Shift(i, p) /\ r.q[j] = s.q[i]
    BY <2>2, <2>3, Zenon DEF Shifted
  <2>4. p \in 1 .. Len(r.q) /\ r.q[p] = e
    BY <2>2 DEF Shifted
  <2>5. Dated(r.q, r.count)
    BY <1>2, <2>3, <2>4 DEF Paced, Dated
  <2>6. ASSUME Ahead(r.q, p), e.left > 0 PROVE s.count + e.left < M
    <3> SUFFICES ASSUME Marked(s.q), NotLate(s) PROVE s.count + e.left < M
      BY <2>6
    <3>1. e.type # "SPECIAL"
      BY <2>6 DEF DatedEvent
    <3>2. PICK k \in 1 .. Len(s.q) : s.q[k].type = "SPECIAL"
      BY DEF Marked
    <3>3. p <= k
      <4> SUFFICES ASSUME ~(p <= k) PROVE FALSE
        OBVIOUS
      <4>1. k < p
        BY <1>2
      <4>2. Ahead(s.q, k)
        BY <1>2, <2>1, <2>6, <4>1, PutInAhead
      <4>3. k \in 1 .. k
        OBVIOUS
      <4> QED BY <3>2, <4>2, <4>3 DEF Ahead
    <3>4. p \in 1 .. Len(s.q)
      BY <1>2, <3>3
    <3> DEFINE x == s.q[p]
    <3>5. x \in Event /\ DatedEvent(x, s.count)
      BY <1>2, <3>4 DEF Paced, Dated
    <3>6. before_event(t, e.count, x)
      BY <2>1, <3>4
    <3>7. x.type # "SPECIAL" => Ahead(s.q, p)
      <4> SUFFICES ASSUME x.type # "SPECIAL", NEW i \in 1 .. p
                   PROVE  s.q[i].type # "SPECIAL"
        BY DEF Ahead
      <4>1. CASE i = p
        BY <4>1
      <4>2. CASE i < p
        <5>1. i \in 1 .. Len(s.q) /\ i \in 1 .. i
          BY <1>2, <3>4
        <5>2. Ahead(s.q, i)
          BY <1>2, <2>1, <2>6, <4>2, <5>1, PutInAhead
        <5> QED BY <5>1, <5>2 DEF Ahead
      <4> QED BY <1>2, <3>4, <4>1, <4>2
    <3>8. x.type # "SPECIAL" /\ x.left > 0 => s.count + x.left < M
      BY <3>4, <3>7 DEF Paced, ThisLap
    <3>9. x.type # "SPECIAL" /\ x.left = -1 /\ s.count > Half =>
            (s.count - x.count) % M < Past
      BY <3>4, <3>7 DEF NotLate
    <3> HIDE DEF x
    <3>10. t.count + e.left < M
      BY <1>3, <2>6, <3>1, <3>5, <3>6, <3>8, <3>9, BeforeThisLap
    <3> QED BY <1>3, <3>10
  <2>7. ThisLap(r.q, r.count)
    <3> SUFFICES ASSUME NEW j \in 1 .. Len(r.q), Ahead(r.q, j), r.q[j].left > 0
                 PROVE  s.count + r.q[j].left < M
      BY <1>2 DEF ThisLap
    <3>1. CASE j = p
      BY <2>4, <2>6, <3>1
    <3>2. CASE j # p
      <4>1. PICK i \in 1 .. Len(s.q) : j = Shift(i, p) /\ r.q[j] = s.q[i]
        BY <2>3, <3>2
      <4>2. Ahead(s.q, i)
        BY <1>2, <2>1, <4>1, PutInAhead
      <4> QED BY <4>1, <4>2 DEF Paced, ThisLap
    <3> QED BY <3>1, <3>2
  <2>8. Armed(r)
    <3>1. CASE p = 1
      BY <2>1, <2>4, <3>1 DEF Armed
    <3>2. CASE p # 1
      <4>1. 1 \in 1 .. Len(s.q) /\ Shift(1, p) = 1
        BY <1>2, <3>2 DEF Shift
      <4>2. r.q[1] = s.q[1]
        <5>1. r.q[Shift(1, p)] = s.q[1]
          BY <2>2, <4>1, Zenon DEF Shifted
        <5> QED BY <4>1, <5>1
      <4>3. r.next_interrupt = s.next_interrupt
        BY <2>1, <3>2
      <4> QED BY <1>2, <4>1, <4>2, <4>3 DEF Paced, Armed
    <3> QED BY <3>1, <3>2
  <2> QED BY <2>5, <2>7, <2>8 DEF Paced
<1> QED BY <1>1, <1>4, <1>5

LEMMA AddMarked ==
  ASSUME NEW s, Fits(s), NEW e \in Event,
         Marked(s.q) \/ (e.type = "SPECIAL" /\ Len(s.q) < POOL_CAPACITY)
  PROVE  Marked(add_interrupt_event_count(s, e).q)
<1> DEFINE r == add_interrupt_event_count(s, e)
<1>1. \/ Len(s.q) = POOL_CAPACITY /\ r.q = s.q
      \/ \E p \in 1 .. Len(s.q) + 1 : AddedAt(s, e, p, r)
  BY AddPlace
<1> SUFFICES Marked(r.q)
  OBVIOUS
<1> HIDE DEF r
<1>2. CASE Len(s.q) = POOL_CAPACITY /\ r.q = s.q
  <2>1. ~(Len(s.q) < POOL_CAPACITY)
    BY <1>2, Numbers
  <2> QED BY <1>2, <2>1
<1>3. ASSUME NEW p \in 1 .. Len(s.q) + 1, AddedAt(s, e, p, r) PROVE Marked(r.q)
  <2>1. PutIn(s.q, e, p, r.q) /\ s.q \in Seq(Event)
    BY <1>3, MachineFields DEF AddedAt, Fits
  <2>2. Shifted(s.q, e, p, r.q)
    BY <2>1, PutInPlaces
  <2>3. CASE Marked(s.q)
    <3>1. PICK k \in 1 .. Len(s.q) : s.q[k].type = "SPECIAL"
      BY <2>3 DEF Marked
    <3>2. Shift(k, p) \in 1 .. Len(r.q) /\ r.q[Shift(k, p)] = s.q[k]
      BY <2>2, Zenon DEF Shifted
    <3> QED BY <3>1, <3>2 DEF Marked
  <2>4. CASE e.type = "SPECIAL"
    <3>1. p \in 1 .. Len(r.q) /\ r.q[p] = e
      BY <2>2 DEF Shifted
    <3> QED BY <2>4, <3>1 DEF Marked
  <2> QED BY <2>3, <2>4
<1> QED BY <1>1, <1>2, <1>3

\* The first event, when it is not due yet, lies above Count: it is the one
\* that next_interrupt is set to.
LEMMA FirstArmed ==
  ASSUME NEW q \in Seq(Event), NEW c \in Count, Dated(q, c), ThisLap(q, c),
         Len(q) >= 1, q[1].left > 0
  PROVE  q[1].count > c /\ Rearm(q, c) = q[1].count
<1>1. 1 \in 1 .. Len(q) /\ q # << >>
  OBVIOUS
<1>2. q[1] \in Event /\ DatedEvent(q[1], c)
  BY <1>1 DEF Dated
<1>3. q[1].type # "SPECIAL" /\ q[1].left \in Int /\ c \in 0 .. M - 1
  BY <1>2, EventFields, Windows DEF DatedEvent, Count
<1>4. q[1].count = (c + q[1].left) % M
  BY <1>2, <1>3 DEF DatedEvent
<1>5. Ahead(q, 1)
  BY <1>3 DEF Ahead
<1>6. c + q[1].left < M /\ c + q[1].left \in Int
  BY <1>1, <1>3, <1>5 DEF ThisLap
<1>7. q[1].count = c + q[1].left
  <2> DEFINE y == c + q[1].left
  <2>1. y \in Int /\ 0 <= y /\ y < M
    BY <1>3, <1>6
  <2> HIDE DEF y
  <2>2. y % M = y
    BY <2>1, WrapOnce
  <2> QED BY <1>4, <2>2 DEF y
<1>8. q[1].count > c
  BY <1>3, <1>7
<1> QED BY <1>1, <1>8 DEF Rearm

\* The first event is taken out: it is not the marker, or Count is past the wrap.
LEMMA RemovePaced ==
  ASSUME NEW s, Whole(s), Paced(s), s.q[1].type # "SPECIAL" \/ ~(s.count > Past)
  PROVE  LET r == remove_interrupt_event(s)
         IN  /\ Paced(r) /\ SameClock(s, r)
             /\ s.q[1].type # "SPECIAL" /\ Marked(s.q) => Marked(r.q)
<1> DEFINE w == Tail(s.q)
           n == Rearm(Tail(s.q), s.count)
           r == remove_interrupt_event(s)
<1>1. s \in Machine /\ s.q \in Seq(Event) /\ Len(s.q) \in Nat /\ s.count \in Count
  BY MachineFields DEF Whole, Fits
<1>2. Len(s.q) >= 1
  BY <1>1 DEF Whole, HasLasting
<1>3. Removed(s.q, 1, w)
  BY <1>1, <1>2, TailOK
<1>4. /\ w \in Seq(Event) /\ Len(w) = Len(s.q) - 1
      /\ \A j \in 1 .. Len(w) : j + 1 \in 1 .. Len(s.q) /\ w[j] = s.q[j + 1]
  BY <1>1, <1>3 DEF Removed
<1>5. r = [s EXCEPT !.q = w, !.next_interrupt = n]
  BY DEF remove_interrupt_event
<1>6. n = Rearm(w, s.count)
  OBVIOUS
<1> HIDE DEF w, n, r
<1>7. r.q = w /\ r.next_interrupt = n /\ SameClock(s, r)
  BY <1>1, <1>5 DEF Machine, SameClock
<1>8. Dated(w, s.count)
  BY <1>4 DEF Paced, Dated
<1>9. ThisLap(w, s.count)
  <2> SUFFICES ASSUME NEW j \in 1 .. Len(w), Ahead(w, j), w[j].left > 0
               PROVE  s.count + w[j].left < M
    BY DEF ThisLap
  <2>1. CASE s.q[1].type # "SPECIAL"
    <3>1. ASSUME NEW i \in 1 .. j + 1 PROVE s.q[i].type # "SPECIAL"
      <4>1. CASE i = 1
        BY <2>1, <4>1
      <4>2. CASE i # 1
        <5>1. i - 1 \in 1 .. j /\ i - 1 \in 1 .. Len(w) /\ (i - 1) + 1 = i
          BY <1>1, <1>4, <4>2
        <5>2. w[i - 1] = s.q[i]
          BY <1>4, <5>1
        <5> QED BY <5>1, <5>2 DEF Ahead
      <4> QED BY <4>1, <4>2
    <3>2. Ahead(s.q, j + 1)
      BY <3>1 DEF Ahead
    <3> QED BY <1>4, <3>2 DEF Paced, ThisLap
  <2>2. CASE ~(s.count > Past)
    <3>1. w[j] \in Event /\ DatedEvent(w[j], s.count)
      BY <1>4, <1>8 DEF Dated
    <3>2. w[j].left < Half /\ w[j].left \in Int
      BY <3>1, EventFields DEF DatedEvent
    <3> QED BY <1>1, <2>2, <3>2, Windows DEF Count
  <2> QED BY <2>1, <2>2
<1>10. Armed(r)
  BY <1>1, <1>4, <1>6, <1>7, <1>8, <1>9, FirstArmed DEF Armed
<1>11. ASSUME s.q[1].type # "SPECIAL", Marked(s.q) PROVE Marked(w)
  <2>1. PICK k \in 1 .. Len(s.q) : s.q[k].type = "SPECIAL"
    BY <1>11 DEF Marked
  <2>2. k - 1 \in 1 .. Len(w) /\ (k - 1) + 1 = k
    BY <1>1, <1>4, <1>11, <2>1
  <2>3. w[k - 1] = s.q[k]
    BY <1>4, <2>2
  <2> QED BY <2>1, <2>2, <2>3 DEF Marked
<1>12. r.count = s.count
  BY <1>7 DEF SameClock
<1>13. Paced(r)
  BY <1>7, <1>8, <1>9, <1>10, <1>12 DEF Paced
<1> QED BY <1>7, <1>11, <1>13 DEF r

\* Until is the time left to a deadline.
LEMMA UntilDated ==
  ASSUME NEW deadline \in Count, NEW c \in Count
  PROVE  DatedEvent([type |-> "VI", count |-> deadline, left |-> Until(deadline, c)], c)
<1> DEFINE x == deadline - c
           d == x % M
<1>1. c \in 0 .. M - 1 /\ deadline \in 0 .. M - 1
  BY DEF Count
<1>2. x \in Int /\ -M <= x /\ x < M /\ deadline = c + x
  BY <1>1, Windows
<1>3. Until(deadline, c) = IF d < Half THEN d ELSE -1
  BY DEF Until
<1> HIDE DEF x
<1>4. d = IF x >= 0 THEN x ELSE x + M
  BY <1>2, WrapOnce
<1> HIDE DEF d
<1>5. deadline = (c + d) % M
  <2>1. c + d \in Int /\ (c + d = deadline \/ c + d = deadline + M)
    BY <1>1, <1>2, <1>4, Windows
  <2> DEFINE y == c + d
  <2> HIDE DEF y
  <2>2. y \in Int /\ (y = deadline \/ y = deadline + M)
    BY <2>1 DEF y
  <2>3. y % M = deadline
    BY <1>1, <2>2, WrapOnce, Windows
  <2> QED BY <2>3 DEF y
<1> QED BY <1>3, <1>5, Windows DEF DatedEvent

\* One event, d counts later.
LEMMA CountdownDated ==
  ASSUME NEW e \in Event, NEW c \in Count, NEW d \in 0 .. Half,
         DatedEvent(e, c), e.type # "SPECIAL"
  PROVE  LET f == [e EXCEPT !.left = Countdown(e.left, d)]
         IN  /\ DatedEvent(f, (c + d) % M)
             /\ f.left > 0 => e.left = f.left + d
<1> DEFINE l == Countdown(e.left, d)
           f == [e EXCEPT !.left = l]
<1>1. /\ e.left \in Int /\ c \in 0 .. M - 1 /\ d \in Int
      /\ e.type # "COMPARE"
      /\ e.left >= 0 => e.left < Half /\ e.count = (c + e.left) % M
  BY EventFields, Windows DEF Count, DatedEvent
<1>2. l = IF e.left < d THEN -1 ELSE e.left - d
  BY DEF Countdown
<1> HIDE DEF l
<1>3. f.type = e.type /\ f.count = e.count /\ f.left = l
  BY DEF Event
<1>4. ASSUME l >= 0
      PROVE  l < Half /\ e.count = (((c + d) % M) + l) % M
  <2>1. e.left >= 0 /\ l = e.left - d /\ l \in Int
    BY <1>1, <1>2, <1>4
  <2>2. l < Half
    BY <1>1, <2>1, Windows
  <2> DEFINE x == (c + d) % M
             y == x + l
             z == c + e.left
  <2>3. x \in 0 .. M - 1 /\ (x = c + d \/ x = c + d - M)
    <3> DEFINE v == c + d
    <3>1. v \in Int /\ 0 <= v /\ v < 2 * M
      BY <1>1, Windows
    <3>2. x = v % M
      OBVIOUS
    <3>3. v = c + d
      OBVIOUS
    <3> HIDE DEF v, x
    <3>4. v % M = v \/ v % M = v - M
      BY <3>1, WrapOnce, Windows
    <3>5. v % M \in 0 .. M - 1
      BY <3>1, ModCount DEF Count
    <3>6. x = v \/ x = v - M
      BY <3>2, <3>4
    <3>7. x \in 0 .. M - 1
      BY <3>2, <3>5
    <3> QED BY <1>1, Windows, <3>3, <3>6, <3>7
  <2> HIDE DEF x
  <2>4. z \in Int /\ 0 <= z /\ z < 2 * M
    BY <1>1, <2>1, Windows
  <2>5. y \in Int /\ 0 <= y /\ y < 2 * M
    BY <2>1, <2>2, <2>3, <1>4, Windows
  <2>5a. y = z \/ y = z - M
    <3>1. c \in Int /\ d \in Int /\ e.left \in Int /\ x \in Int /\ M \in Int
      BY <1>1, <2>3, Windows
    <3>2. l + d = e.left
      BY <2>1, <3>1
    <3> QED BY <2>1, <2>3, <3>1, <3>2
  <2> HIDE DEF y, z
  <2>6. y % M = z % M
    <3>1. y % M = IF y < M THEN y ELSE y - M
      BY <2>5, WrapOnce, Windows
    <3>2. z % M = IF z < M THEN z ELSE z - M
      BY <2>4, WrapOnce, Windows
    <3> QED BY <2>4, <2>5, <2>5a, <3>1, <3>2, Windows
  <2>7. e.count = z % M
    BY <1>1, <2>1 DEF z
  <2> QED BY <2>2, <2>6, <2>7 DEF x, y
<1>5. DatedEvent(f, (c + d) % M)
  <2> HIDE DEF f
  <2> QED BY <1>1, <1>3, <1>4 DEF DatedEvent
<1>6. l > 0 => e.left = l + d
  BY <1>1, <1>2
<1> QED BY <1>3, <1>5, <1>6 DEF l

\* Count advances: what was ahead of the wrap is overdue after it.
LEMMA UpdatePaced ==
  ASSUME NEW s, Whole(s), Paced(s), NEW d \in 0 .. Half
  PROVE  LET r == cp0_update_count(s, d)
         IN  Paced(r) /\ (Marked(s.q) => Marked(r.q))
<1> DEFINE c == (s.count + d) % M
           w == [k \in 1 .. Len(s.q) |->
                   IF s.q[k].type = "SPECIAL" THEN s.q[k]
                   ELSE [s.q[k] EXCEPT !.left = Countdown(s.q[k].left, d)]]
           r == cp0_update_count(s, d)
<1>1. s \in Machine /\ s.q \in Seq(Event) /\ s.count \in Count /\ Len(s.q) \in Nat
  BY MachineFields DEF Whole, Fits
<1>2. r = [s EXCEPT !.count = c, !.vi_fired = FALSE, !.q = w]
  BY DEF cp0_update_count
<1>3. /\ r.count = c /\ r.q = w /\ r.next_interrupt = s.next_interrupt
      /\ r.skip_jump = s.skip_jump
  BY <1>1, <1>2 DEF Machine
<1>4. ASSUME NEW k \in 1 .. Len(s.q)
      PROVE  /\ s.q[k] \in Event /\ DatedEvent(w[k], c)
             /\ w[k].type = s.q[k].type /\ w[k].count = s.q[k].count
             /\ w[k].left > 0 => s.q[k].left = w[k].left + d
  <2> DEFINE e == s.q[k]
             f == [e EXCEPT !.left = Countdown(e.left, d)]
  <2>1. e \in Event /\ DatedEvent(e, s.count)
    BY <1>1 DEF Paced, Dated
  <2>2. w[k] = IF e.type = "SPECIAL" THEN e ELSE f
    OBVIOUS
  <2> HIDE DEF e, w
  <2>3. CASE e.type = "SPECIAL"
    <3>1. w[k] = e /\ e.left = 0
      BY <2>1, <2>2, <2>3 DEF DatedEvent
    <3>2. DatedEvent(e, c)
      BY <2>1, <2>3 DEF DatedEvent
    <3> QED BY <2>1, <3>1, <3>2 DEF e
  <2>4. CASE e.type # "SPECIAL"
    <3>1. DatedEvent(f, c) /\ (f.left > 0 => e.left = f.left + d)
      BY <1>1, <2>1, <2>4, CountdownDated
    <3>2. f.type = e.type /\ f.count = e.count
      BY <2>1 DEF Event
    <3>3. w[k] = f
      BY <2>2, <2>4
    <3> HIDE DEF f
    <3> QED BY <2>1, <3>1, <3>2, <3>3 DEF e
  <2> QED BY <2>3, <2>4
<1>5. w \in Seq(Event) /\ Len(w) = Len(s.q)
  <2>1. DOMAIN w = 1 .. Len(s.q)
    OBVIOUS
  <2>2. Whole(r)
    BY UpdateCountOK, Windows
  <2> HIDE DEF w, r
  <2>3. w \in Seq(Event)
    BY <1>3, <2>2, MachineFields DEF Whole, Fits
  <2>4. Len(w) \in Nat /\ DOMAIN w = 1 .. Len(w)
    BY <2>3
  <2> QED BY <1>1, <2>1, <2>3, <2>4
<1> HIDE DEF w, r
<1>6. Dated(w, c)
  BY <1>4, <1>5 DEF Dated
<1>7. \A k \in 1 .. Len(s.q) : Ahead(w, k) => Ahead(s.q, k)
  <2> SUFFICES ASSUME NEW k \in 1 .. Len(s.q), Ahead(w, k), NEW j \in 1 .. k
               PROVE  s.q[j].type # "SPECIAL"
    BY DEF Ahead
  <2>1. j \in 1 .. Len(s.q)
    BY <1>1
  <2> QED BY <1>4, <2>1 DEF Ahead
<1>8. ThisLap(w, c)
  <2> SUFFICES ASSUME NEW k \in 1 .. Len(s.q), Ahead(w, k), w[k].left > 0
               PROVE  c + w[k].left < M
    BY <1>5 DEF ThisLap
  <2>1. s.q[k].left = w[k].left + d /\ Ahead(s.q, k)
    BY <1>4, <1>7
  <2>2. w[k].left \in Int /\ s.q[k].left \in Int /\ s.count \in 0 .. M - 1
    <3>1. w[k] \in Event /\ s.q[k] \in Event
      BY <1>1, <1>5
    <3> QED BY <1>1, <3>1, EventFields DEF Count
  <2>3. s.q[k].left > 0
    BY <2>1, <2>2, Windows
  <2>4. s.count + s.q[k].left < M
    BY <2>1, <2>3 DEF Paced, ThisLap
  <2> DEFINE v == s.count + d
  <2>5. v \in Int /\ 0 <= v /\ v < M /\ v + w[k].left < M
    <3> DEFINE l == w[k].left
               x == s.count
    <3>1. x + (l + d) < M
      BY <2>1, <2>4
    <3>2. l \in Int /\ l > 0 /\ x \in 0 .. M - 1
      BY <2>2
    <3>3. v = x + d
      OBVIOUS
    <3> HIDE DEF l, x, v
    <3>4. v \in Int /\ 0 <= v /\ v < M /\ v + l < M
      BY <3>1, <3>2, <3>3, Windows
    <3> QED BY <3>4 DEF l
  <2>6. c = v % M
    OBVIOUS
  <2> HIDE DEF v, c
  <2>7. v % M = v
    BY <2>5, WrapOnce
  <2> QED BY <2>5, <2>6, <2>7
<1>9. Armed(r)
  <2> SUFFICES ASSUME Len(w) >= 1, w[1].left > 0
               PROVE  s.next_interrupt = w[1].count \/ s.skip_jump
    BY <1>3 DEF Armed
  <2>1. 1 \in 1 .. Len(s.q) /\ Len(s.q) >= 1
    BY <1>1, <1>5
  <2>2. s.q[1].left = w[1].left + d /\ w[1].count = s.q[1].count
    BY <1>4, <2>1
  <2>3. w[1] \in Event
    BY <1>5, <2>1
  <2>4. s.q[1].left > 0
    BY <2>2, <2>3, EventFields, Windows
  <2> QED BY <2>1, <2>2, <2>4 DEF Paced, Armed
<1>10. Marked(s.q) => Marked(w)
  BY <1>4, <1>5 DEF Marked
<1>11. Paced(r)
  BY <1>3, <1>6, <1>8, <1>9 DEF Paced
<1> QED BY <1>3, <1>10, <1>11 DEF r

-----------------------------------------------------------------------------
(* The handlers are on time *)

\* Between two steps: nothing was early, and nothing will be.
Sound(s) == ~s.early /\ (~s.disturbed => Paced(s) /\ Marked(s.q))

\* After a step that ends on time.
Kept(r) == ~r.early /\ (~r.disturbed /\ NotLate(r) => Paced(r) /\ Marked(r.q))

\* A reset starts over, whatever was queued.
LEMMA StartPaced ==
  ASSUME NEW s \in Machine, NEW count \in Count, count <= Past, NEW next_vi \in Count,
         ~s.early
  PROVE  Sound(StartVi(s, count, next_vi))
<1> DEFINE t == [s EXCEPT !.count = count, !.next_vi = next_vi, !.disturbed = FALSE]
           u == [t EXCEPT !.SPECIAL_done = TRUE, !.q = << >>]
           r == add_interrupt_event_count(u, Special)
           left == Until(next_vi, count)
           e == [type |-> "VI", count |-> next_vi, left |-> left]
           z == add_interrupt_event_count(r, e)
<1>1. t \in Machine /\ t.count = count /\ t.early = s.early
  BY DEF Machine
<1>2. StartVi(s, count, next_vi) = z
  BY DEF StartVi, init_interrupt
<1> HIDE DEF t
<1>3. u \in Machine /\ u.q = << >> /\ u.count = count /\ u.early = s.early
  <2>1. << >> \in Seq(Event)
    OBVIOUS
  <2> QED BY <1>1, <2>1 DEF Machine
<1> HIDE DEF u
<1>4. Len(u.q) = 0 /\ Fits(u)
  BY <1>3, Numbers DEF Fits
<1>5. Paced(u)
  BY <1>4 DEF Paced, Dated, ThisLap, Armed
<1>6. Special \in Event /\ Special.left = 0 /\ Special.type = "SPECIAL" /\ Special.count = 0
  BY SpecialIsEvent DEF Special
<1>7. Fits(r) /\ Paced(r) /\ Marked(r.q) /\ SameClock(u, r)
  <2>1. DatedEvent(Special, u.count)
    BY <1>6 DEF DatedEvent
  <2>2. Paced(r)
    BY <1>4, <1>5, <1>6, <2>1, AddPaced
  <2>3. Marked(r.q)
    BY <1>4, <1>6, AddMarked, Numbers
  <2>4. Fits(r)
    BY <1>4, <1>6, AddOK
  <2>5. SameClock(u, r)
    BY <1>4, <1>6, AddPlace
  <2> QED BY <2>2, <2>3, <2>4, <2>5
<1> HIDE DEF r
<1>8. r.count = count /\ ~r.early
  BY <1>3, <1>7 DEF SameClock
<1>9. left \in -1 .. M /\ (left > 0 => left < Half)
  <2>1. left \in -1 .. M
    BY UntilOK
  <2>2. DatedEvent(e, count) /\ e.type # "SPECIAL" /\ e.left = left
    BY UntilDated
  <2> HIDE DEF left, e
  <2>3. left >= 0 => left < Half
    BY <2>2 DEF DatedEvent
  <2> QED BY <2>1, <2>3
<1>10. DatedEvent(e, r.count)
  BY <1>8, UntilDated
<1> HIDE DEF left
<1>11. e \in Event /\ e.left = left
  BY <1>9, EventIs DEF Type
<1> HIDE DEF e
<1>12. e.left > 0 => r.count + e.left < M
  BY <1>8, <1>9, <1>11, Windows DEF Count
<1>13. Paced(z) /\ Marked(z.q) /\ SameClock(r, z)
  BY <1>7, <1>10, <1>11, <1>12, AddPaced, AddMarked, AddPlace
<1>14. ~z.early
  BY <1>8, <1>13 DEF SameClock
<1> QED BY <1>2, <1>13, <1>14 DEF Sound

\* The marker is taken when Count has come round: everything queued is less
\* than half a lap away, so that all of it comes before the next wrap.
LEMMA SpecialPaced ==
  ASSUME NEW s, Whole(s), Sound(s), s.q[1].type = "SPECIAL"
  PROVE  Sound(special_int_handler(s))
<1>1. CASE s.count > Past
  BY <1>1 DEF special_int_handler
<1>2. CASE ~(s.count > Past)
  <2> DEFINE d == [s EXCEPT !.SPECIAL_done = TRUE]
             g == remove_interrupt_event(d)
             r == add_interrupt_event_count(g, Special)
  <2>1. s \in Machine
    BY DEF Whole, Fits
  <2>2. /\ d \in Machine /\ d.q = s.q /\ d.dropped = s.dropped
        /\ d.next_interrupt = s.next_interrupt /\ SameClock(s, d)
    BY <2>1 DEF Machine, SameClock
  <2>3. special_int_handler(s) = r
    BY <1>2 DEF special_int_handler
  <2> HIDE DEF d
  <2>4. Whole(d) /\ (Paced(s) => Paced(d)) /\ d.q[1].type = "SPECIAL" /\ ~(d.count > Past)
    BY <1>2, <2>2, SameQueue DEF SameClock, Paced, Armed
  <2>5. Unmarked(g)
    BY <2>4, RemoveFirstOK
  <2>6. SameClock(d, g)
    BY <2>1, <2>2 DEF remove_interrupt_event, Machine, SameClock
  <2>7. Paced(d) => Paced(g)
    BY <2>4, RemovePaced
  <2> HIDE DEF g
  <2>8. /\ Special \in Event /\ Special.left = 0 /\ Special.type = "SPECIAL"
        /\ DatedEvent(Special, g.count)
    BY SpecialIsEvent DEF Special, DatedEvent
  <2>9. Fits(g) /\ Len(g.q) < POOL_CAPACITY
    BY <2>5 DEF Unmarked
  <2>10. SameClock(g, r) /\ Marked(r.q) /\ (Paced(g) => Paced(r))
    <3>1. SameClock(g, r)
      BY <2>8, <2>9, AddPlace
    <3>2. Marked(r.q)
      BY <2>8, <2>9, AddMarked
    <3>3. Paced(g) => Paced(r)
      BY <2>8, <2>9, AddPaced
    <3> QED BY <3>1, <3>2, <3>3
  <2> HIDE DEF r
  <2>11. r.early = s.early /\ r.disturbed = s.disturbed
    BY <2>2, <2>6, <2>10 DEF SameClock
  <2>12. Sound(r)
    BY <2>4, <2>7, <2>10, <2>11 DEF Sound
  <2> QED BY <2>3, <2>12
<1> QED BY <1>1, <1>2

\* An event that next_interrupt has come to is due.
LEMMA FirePaced ==
  ASSUME NEW s, Whole(s), Sound(s), ~s.skip_jump, s.next_interrupt <= s.count
  PROVE  Sound(Fire(s)) /\ SameClock(s, Fire(s))
<1> DEFINE v == (s.q[1].type = "VI")
           e == s.early \/ (s.q[1].left > 0 /\ ~s.disturbed)
           r == Fire(s)
<1>1. s \in Machine /\ s.q \in Seq(Event) /\ s.count \in Count /\ s.next_interrupt \in Count
      /\ Len(s.q) \in Nat
  BY MachineFields DEF Whole, Fits
<1>2. Len(s.q) >= 1
  BY <1>1 DEF Whole, HasLasting
<1>3. ASSUME s.q[1].left > 0, ~s.disturbed PROVE FALSE
  <2>1. Paced(s)
    BY <1>3 DEF Sound
  <2>2. s.next_interrupt = s.q[1].count
    BY <1>2, <1>3, <2>1 DEF Paced, Armed
  <2>3. s.q[1].count > s.count
    BY <1>1, <1>2, <1>3, <2>1, FirstArmed DEF Paced
  <2> QED BY <1>1, <2>2, <2>3, Windows DEF Count
<1>4. e = FALSE
  BY <1>3 DEF Sound
<1>5. r = [s EXCEPT !.vi_fired = v, !.early = e]
  BY DEF Fire
<1>6. s.early = FALSE
  BY <1>1, MachineFields DEF Sound
<1> HIDE DEF v, e, r
<1>7. /\ r.q = s.q /\ r.next_interrupt = s.next_interrupt /\ r.early = FALSE
      /\ SameClock(s, r)
  BY <1>1, <1>4, <1>5, <1>6 DEF Machine, SameClock
<1>8. Paced(s) => Paced(r)
  BY <1>7 DEF SameClock, Paced, Armed
<1>9. Sound(r)
  BY <1>7, <1>8 DEF Sound, SameClock
<1> QED BY <1>7, <1>9 DEF r

LEMMA SoundKept == ASSUME NEW s, Sound(s) PROVE Kept(s)
BY DEF Sound, Kept

\* The next vertical interrupt.
LEMMA VerticalPaced ==
  ASSUME NEW s, Gap(s), ~s.early, ~s.disturbed => Paced(s) /\ Marked(s.q)
  PROVE  Kept(vi_vertical_interrupt_event(s))
<1> DEFINE n == (s.next_vi + ViDelay) % M
           t == [s EXCEPT !.next_vi = n]
           left == Until(n, s.count)
           e == [type |-> "VI", count |-> n, left |-> left]
           r == add_interrupt_event_count(t, e)
<1>1. s \in Machine /\ s.next_vi \in Count /\ s.count \in Count
  BY MachineFields DEF Gap, Fits
<1>2. n \in Count
  BY <1>1, ModCount, Numbers DEF Count
<1>3. vi_vertical_interrupt_event(s) = r
  BY DEF vi_vertical_interrupt_event
<1> HIDE DEF n
<1>4. /\ t \in Machine /\ t.q = s.q /\ t.dropped = s.dropped
      /\ t.next_interrupt = s.next_interrupt /\ SameClock(s, t)
  BY <1>1, <1>2 DEF Machine, SameClock
<1>5. left \in -1 .. M
  BY <1>1, <1>2, UntilOK
<1>6. DatedEvent(e, s.count)
  BY <1>1, <1>2, UntilDated
<1> HIDE DEF t, left
<1>7. e \in Event
  BY <1>2, <1>5, EventIs DEF Type
<1> HIDE DEF e
<1>8. Fits(t)
  BY <1>4, SameQueue DEF Gap
<1>9. SameClock(t, r)
  BY <1>7, <1>8, AddPlace
<1>10. NotLate(r) => NotLate(t)
  BY <1>7, <1>8, AddLate
<1>11. Paced(s) => Paced(t)
  BY <1>4 DEF SameClock, Paced, Armed
<1>12. ASSUME Paced(t), Marked(t.q), NotLate(t) PROVE Paced(r) /\ Marked(r.q)
  <2>1. DatedEvent(e, t.count)
    BY <1>4, <1>6 DEF SameClock
  <2> QED BY <1>7, <1>8, <1>12, <2>1, AddPaced, AddMarked
<1> HIDE DEF r
<1>13. Kept(r)
  BY <1>4, <1>9, <1>10, <1>11, <1>12 DEF Kept, SameClock
<1> QED BY <1>3, <1>13

LEMMA DispatchPaced ==
  ASSUME NEW s, Whole(s), Sound(s), ~s.skip_jump, s.next_interrupt <= s.count
  PROVE  Kept(Dispatch(s))
<1> DEFINE f == Fire(s)
           g == remove_interrupt_event(f)
<1>1. /\ s \in Machine /\ s.q \in Seq(Event) /\ Len(s.q) \in Nat
      /\ 1 \in 1 .. Len(s.q) /\ s.q[1] \in Event
  <2>1. s \in Machine /\ s.q \in Seq(Event) /\ Len(s.q) \in Nat
    BY MachineFields DEF Whole, Fits
  <2>2. 1 \in 1 .. Len(s.q)
    BY <2>1 DEF Whole, HasLasting
  <2> QED BY <2>1, <2>2
<1>2. Whole(f) /\ f.q = s.q /\ Sound(f) /\ SameClock(s, f)
  BY FireOK, FirePaced
<1>3. CASE s.q[1].type = "SPECIAL"
  BY <1>3, SpecialPaced, SoundKept DEF Dispatch
<1>4. CASE s.q[1].type # "SPECIAL"
  <2>1. Gap(g) /\ SameClock(f, g)
    <3> HIDE DEF f
    <3>1. Gap(g)
      BY <1>2, <1>4, RemoveFirstOK
    <3>2. f \in Machine
      BY <1>2 DEF Whole, Fits
    <3>3. SameClock(f, g)
      BY <3>2 DEF remove_interrupt_event, Machine, SameClock
    <3> QED BY <3>1, <3>3
  <2>2. ~f.disturbed => Paced(g) /\ Marked(g.q)
    <3> HIDE DEF f
    <3> QED BY <1>2, <1>4, RemovePaced DEF Sound
  <2>3. ~g.early /\ (~g.disturbed => Paced(g) /\ Marked(g.q))
    <3> HIDE DEF f, g
    <3> QED BY <1>2, <2>1, <2>2 DEF Sound, SameClock
  <2>4. CASE s.q[1].type = "VI"
    <3>1. Dispatch(s) = vi_vertical_interrupt_event(g)
      BY <2>4 DEF Dispatch
    <3> HIDE DEF g
    <3> QED BY <2>1, <2>3, <3>1, VerticalPaced
  <2>5. CASE s.q[1].type = "COMPARE"
    <3>1. s.disturbed
      <4> SUFFICES ASSUME ~s.disturbed PROVE FALSE
        OBVIOUS
      <4>1. Dated(s.q, s.count)
        BY DEF Sound, Paced
      <4>2. DatedEvent(s.q[1], s.count)
        BY <1>1, <4>1 DEF Dated
      <4> QED BY <2>5, <4>2 DEF DatedEvent
    <3> DEFINE r == [g EXCEPT !.count = (g.count + 1) % M]
               e == [type |-> "COMPARE", count |-> f.compare,
                     left |-> NextMatch(f.compare, f.count)]
               a == add_interrupt_event_count(r, e)
               z == [a EXCEPT !.count = f.count]
    <3>2. Dispatch(s) = z
      BY <2>5 DEF Dispatch, compare_int_handler
    <3>3. f.compare \in Count /\ f.count \in Count /\ g \in Machine /\ g.count \in Count
      <4> HIDE DEF f, g
      <4> QED BY <1>2, <2>1, MachineFields DEF Whole, Gap, Fits
    <3> HIDE DEF f, g
    <3>4. (g.count + 1) % M \in Count
      BY <3>3, ModCount, Numbers DEF Count
    <3>5. r \in Machine /\ r.q = g.q /\ r.early = g.early /\ r.disturbed = g.disturbed
      BY <3>3, <3>4 DEF Machine
    <3> HIDE DEF r
    <3>6. Fits(r)
      BY <2>1, <3>5 DEF Gap, Fits
    <3>7. e \in Event
      <4> DEFINE d == (f.compare - (f.count + 1)) % M
      <4>1. d \in Count
        BY <3>3, ModCount, Numbers DEF Count
      <4> HIDE DEF d
      <4>2. NextMatch(f.compare, f.count) = d + 1
        BY DEF NextMatch, d
      <4>3. NextMatch(f.compare, f.count) \in -1 .. M
        BY <4>1, <4>2, Numbers DEF Count
      <4> QED BY <3>3, <4>3, EventIs DEF Type
    <3> HIDE DEF e
    <3>8. a \in Machine /\ SameClock(r, a)
      BY <3>6, <3>7, AddOK, AddPlace DEF Fits
    <3> HIDE DEF a
    <3>9. z.early = a.early /\ z.disturbed = a.disturbed
      BY <3>8 DEF Machine
    <3> HIDE DEF z
    <3>10. ~z.early /\ z.disturbed
      BY <1>2, <2>1, <2>3, <3>1, <3>5, <3>8, <3>9 DEF SameClock
    <3> QED BY <3>2, <3>10 DEF Kept
  <2>6. CASE s.q[1].type = "NMI"
    <3>1. Dispatch(s) = StartVi(g, 0, BootVi)
      BY <2>6 DEF Dispatch, nmi_int_handler
    <3> HIDE DEF g
    <3>2. g \in Machine /\ 0 \in Count /\ BootVi \in Count /\ 0 <= Past
      BY <2>1, Numbers, Windows DEF Gap, Fits
    <3> QED BY <2>3, <3>1, <3>2, StartPaced, SoundKept
  <2>7. CASE s.q[1].type \notin {"SPECIAL", "VI", "COMPARE", "NMI"}
    <3>1. Dispatch(s) = g
      BY <2>7 DEF Dispatch
    <3> HIDE DEF g
    <3> QED BY <2>3, <3>1 DEF Kept
  <2> QED BY <1>4, <2>4, <2>5, <2>6, <2>7
<1> QED BY <1>3, <1>4

LEMMA ResetPaced ==
  ASSUME NEW s \in Machine, ~s.early PROVE Sound(reset_hard(s))
<1> DEFINE r == [s EXCEPT !.reset_hard_job = FALSE, !.compare = 0]
<1>1. r \in Machine /\ r.early = s.early
  BY Numbers DEF Machine
<1>2. reset_hard(s) = StartVi(r, BootCount, BootVi)
  BY DEF reset_hard
<1>3. BootCount <= Past
  BY ConstantsAssumption, Windows DEF ConstantsAssumption
<1> HIDE DEF r
<1> QED BY <1>1, <1>2, <1>3, StartPaced, Numbers

LEMMA TestPaced ==
  ASSUME NEW s, Whole(s), Sound(s), NEW unsafe \in BOOLEAN
  PROVE  Kept(TestInterrupt(s, unsafe))
<1>1. s \in Machine /\ s.q \in Seq(Event) /\ s.count \in Count /\ ~s.early
  BY MachineFields DEF Whole, Fits, Sound
<1>2. CASE ~(s.next_interrupt <= s.count)
  BY <1>2, SoundKept DEF TestInterrupt
<1>3. CASE s.next_interrupt <= s.count /\ ~unsafe /\ s.reset_hard_job
  BY <1>1, <1>3, ResetPaced, SoundKept DEF TestInterrupt, gen_interrupt
<1>4. CASE s.next_interrupt <= s.count /\ ~(~unsafe /\ s.reset_hard_job) /\ s.skip_jump
  <2> DEFINE n == Rearm(s.q, s.count)
             r == [s EXCEPT !.skip_jump = FALSE, !.next_interrupt = n]
  <2>1. TestInterrupt(s, unsafe) = r
    BY <1>4 DEF TestInterrupt, gen_interrupt
  <2>2. n = Rearm(s.q, s.count)
    OBVIOUS
  <2> HIDE DEF n
  <2>3. /\ r.q = s.q /\ r.count = s.count /\ r.next_interrupt = n
        /\ r.early = s.early /\ r.disturbed = s.disturbed
    BY <1>1 DEF Machine
  <2> HIDE DEF r
  <2>4. ASSUME Paced(s) PROVE Paced(r)
    <3>1. Dated(r.q, r.count) /\ ThisLap(r.q, r.count)
      BY <2>3, <2>4 DEF Paced
    <3>2. Armed(r)
      BY <1>1, <2>2, <2>3, <3>1, FirstArmed DEF Armed
    <3> QED BY <3>1, <3>2 DEF Paced
  <2>5. Kept(r)
    BY <2>3, <2>4 DEF Sound, Kept
  <2> QED BY <2>1, <2>5
<1>5. CASE s.next_interrupt <= s.count /\ ~(~unsafe /\ s.reset_hard_job) /\ ~s.skip_jump
  BY <1>5, DispatchPaced DEF TestInterrupt, gen_interrupt
<1> QED BY <1>2, <1>3, <1>4, <1>5

\* A CHECK_INT is due at once.
LEMMA CheckPaced ==
  ASSUME NEW s, Whole(s), Sound(s) PROVE Sound(check_interrupt(s))
<1> DEFINE e == [type |-> "CHECK", count |-> s.count, left |-> 0]
           w == <<e>> \o s.q
           r == check_interrupt(s)
<1>1. /\ s \in Machine /\ s.q \in Seq(Event) /\ Len(s.q) \in Nat /\ s.count \in Count
      /\ POOL_CAPACITY \in Nat
  BY MachineFields, Numbers DEF Whole, Fits
<1>2. CASE Len(s.q) >= POOL_CAPACITY
  <2>1. r = [s EXCEPT !.dropped = TRUE]
    BY <1>2 DEF check_interrupt
  <2> SUFFICES Sound(r)
    OBVIOUS
  <2> HIDE DEF r
  <2>2. r.q = s.q /\ r.next_interrupt = s.next_interrupt /\ SameClock(s, r)
    BY <1>1, <2>1 DEF Machine, SameClock
  <2> QED BY <2>2 DEF Sound, Paced, Armed, SameClock
<1>3. CASE Len(s.q) < POOL_CAPACITY
  <2>1. r = [s EXCEPT !.q = w, !.next_interrupt = s.count]
    BY <1>1, <1>3 DEF check_interrupt
  <2> SUFFICES Sound(r)
    OBVIOUS
  <2> HIDE DEF r
  <2>2. e \in Event /\ e.type = "CHECK" /\ e.left = 0 /\ e.count = s.count
    BY <1>1, Numbers, EventIs DEF Type
  <2>3. DatedEvent(e, s.count)
    <3>1. (s.count + 0) % M = s.count
      <4>1. s.count + 0 = s.count /\ s.count \in Int /\ 0 <= s.count /\ s.count < M
        BY <1>1, Windows DEF Count
      <4> QED BY <4>1, WrapOnce
    <3> HIDE DEF e
    <3> QED BY <2>2, <3>1, Windows DEF DatedEvent
  <2> HIDE DEF e
  <2>4. PutIn(s.q, e, 1, w) /\ 1 \in 1 .. Len(s.q) + 1
    BY <1>1, <2>2, PutFirst
  <2> HIDE DEF w
  <2>5. Shifted(s.q, e, 1, w)
    BY <1>1, <2>4, PutInPlaces
  <2>6. r.q = w /\ SameClock(s, r)
    BY <1>1, <2>1 DEF Machine, SameClock
  <2>7. w[1] = e
    BY <2>5 DEF Shifted
  <2>8. ASSUME NEW j \in 1 .. Len(w), j # 1
        PROVE  \E i \in 1 .. Len(s.q) : j = Shift(i, 1) /\ w[j] = s.q[i]
    BY <2>5, <2>8, Zenon DEF Shifted
  <2>9. ASSUME Paced(s) PROVE Paced(r)
    <3>1. Dated(w, s.count)
      BY <2>3, <2>7, <2>8, <2>9 DEF Paced, Dated
    <3>2. ThisLap(w, s.count)
      <4> SUFFICES ASSUME NEW j \in 1 .. Len(w), Ahead(w, j), w[j].left > 0
                   PROVE  s.count + w[j].left < M
        BY DEF ThisLap
      <4>1. j # 1
        BY <2>2, <2>7
      <4>2. PICK i \in 1 .. Len(s.q) : j = Shift(i, 1) /\ w[j] = s.q[i]
        BY <2>8, <4>1
      <4>3. Ahead(s.q, i)
        BY <1>1, <2>4, <4>2, PutInAhead
      <4> QED BY <2>9, <4>2, <4>3 DEF Paced, ThisLap
    <3>3. Armed(r)
      BY <2>2, <2>6, <2>7 DEF Armed
    <3> QED BY <2>6, <3>1, <3>2, <3>3 DEF Paced, SameClock
  <2>10. ASSUME Marked(s.q) PROVE Marked(w)
    <3>1. PICK k \in 1 .. Len(s.q) : s.q[k].type = "SPECIAL"
      BY <2>10 DEF Marked
    <3>2. Shift(k, 1) \in 1 .. Len(w) /\ w[Shift(k, 1)] = s.q[k]
      BY <2>5, Zenon DEF Shifted
    <3> QED BY <3>1, <3>2 DEF Marked
  <2> QED BY <2>6, <2>9, <2>10 DEF Sound, SameClock
<1> QED BY <1>1, <1>2, <1>3

-----------------------------------------------------------------------------
(* The steps are on time *)

LEMMA AddDelayedPaced ==
  ASSUME NEW s, Whole(s), Kept(s), NEW type \in Type \ {"SPECIAL", "COMPARE"},
         NEW delay \in 0 .. Half - 1
  PROVE  Kept(add_interrupt_event(s, type, delay))
<1> DEFINE c == (s.count + delay) % M
           e == [type |-> type, count |-> c, left |-> delay]
           r == add_interrupt_event_count(s, e)
<1>1. c \in Count
  <2>1. s.count + delay \in Int
    BY MachineFields, Windows DEF Whole, Fits, Count
  <2> QED BY <2>1, ModCount
<1>2. delay \in -1 .. M
  BY Windows
<1>3. add_interrupt_event(s, type, delay) = r
  BY DEF add_interrupt_event
<1>4. DatedEvent(e, s.count)
  <2>1. c = (s.count + delay) % M
    OBVIOUS
  <2> HIDE DEF c
  <2> QED BY <2>1, Windows DEF DatedEvent
<1> HIDE DEF c
<1>5. e \in Event
  BY <1>1, <1>2, EventIs
<1> HIDE DEF e
<1>6. Fits(s)
  BY DEF Whole
<1>7. SameClock(s, r) /\ (NotLate(r) => NotLate(s))
  BY <1>5, <1>6, AddPlace, AddLate
<1>8. ASSUME Paced(s), Marked(s.q), NotLate(s) PROVE Paced(r) /\ Marked(r.q)
  BY <1>4, <1>5, <1>6, <1>8, AddPaced, AddMarked
<1> HIDE DEF r
<1>9. Kept(r)
  BY <1>7, <1>8 DEF Kept, SameClock
<1> QED BY <1>3, <1>9

\* The first k saved events, added one by one.
OnLoad(t, k, r) ==
  Fits(r) /\ Len(r.q) = k /\ SameClock(t, r)

\* They are on time, and the marker is back once it was among them.
LoadPaced(saved, k, r) ==
  /\ Paced(r)
  /\ (\E i \in 1 .. k : saved[i].type = "SPECIAL") => Marked(r.q)

LEMMA OnLoadOneMore ==
  ASSUME NEW t, NEW saved \in Seq(Event), Len(saved) <= POOL_CAPACITY,
         NEW k \in Nat, k < Len(saved), NEW r, OnLoad(t, k, r)
  PROVE  OnLoad(t, k + 1, add_interrupt_event_count(r, saved[k + 1]))
<1> DEFINE e == saved[k + 1]
           z == add_interrupt_event_count(r, e)
<1>1. k + 1 \in 1 .. Len(saved) /\ Len(saved) \in Nat
  OBVIOUS
<1>2. e \in Event
  BY <1>1
<1>3. Fits(r) /\ r.q \in Seq(Event) /\ Len(r.q) = k /\ SameClock(t, r)
  BY MachineFields DEF OnLoad, Fits
<1> HIDE DEF e
<1>4. Len(r.q) # POOL_CAPACITY
  BY <1>1, <1>3, Numbers
<1>5. Fits(z) /\ Inserted(r.q, e, z.q)
  BY <1>2, <1>3, <1>4, AddOK
<1>6. SameClock(r, z)
  BY <1>2, <1>3, AddPlace
<1> SUFFICES OnLoad(t, k + 1, z)
  BY DEF e
<1> HIDE DEF z
<1>7. Len(z.q) = k + 1
  BY <1>2, <1>3, <1>5, InsertKeeps
<1> QED BY <1>3, <1>5, <1>6, <1>7 DEF OnLoad, SameClock

LEMMA LoadPacedOneMore ==
  ASSUME NEW t, NEW saved \in Seq(Event), Len(saved) <= POOL_CAPACITY,
         Dated(saved, t.count), ThisLap(saved, t.count),
         NEW k \in Nat, k < Len(saved), NEW r, OnLoad(t, k, r),
         NotLate(r), LoadPaced(saved, k, r)
  PROVE  LoadPaced(saved, k + 1, add_interrupt_event_count(r, saved[k + 1]))
<1> DEFINE e == saved[k + 1]
           z == add_interrupt_event_count(r, e)
<1>1. k + 1 \in 1 .. Len(saved) /\ Len(saved) \in Nat
  OBVIOUS
<1>2. e \in Event /\ DatedEvent(e, t.count)
  BY <1>1 DEF Dated
<1>3. Fits(r) /\ Len(r.q) = k /\ r.count = t.count /\ k < POOL_CAPACITY
  BY <1>1, Numbers DEF OnLoad, SameClock
<1>4. \A i \in 1 .. k + 1 : i \in 1 .. k \/ i = k + 1
  OBVIOUS
<1>5. ASSUME e.left > 0, ~Marked(r.q) PROVE t.count + e.left < M
  <2>1. e.type # "SPECIAL"
    BY <1>2, <1>5 DEF DatedEvent
  <2>2. \A i \in 1 .. k : saved[i].type # "SPECIAL"
    BY <1>5 DEF LoadPaced
  <2>3. Ahead(saved, k + 1)
    BY <1>4, <2>1, <2>2 DEF Ahead
  <2> QED BY <1>1, <1>5, <2>3 DEF ThisLap
<1>6. ASSUME e.type = "SPECIAL" \/ Marked(r.q) PROVE Marked(z.q)
  <2> HIDE DEF e
  <2> QED BY <1>2, <1>3, <1>6, AddMarked
<1>7. Paced(z)
  <2> HIDE DEF e
  <2> QED BY <1>2, <1>3, <1>5, AddPaced DEF LoadPaced
<1> SUFFICES LoadPaced(saved, k + 1, z)
  BY DEF e
<1> HIDE DEF z
<1>8. ASSUME NEW i \in 1 .. k + 1, saved[i].type = "SPECIAL" PROVE Marked(z.q)
  <2>1. CASE i = k + 1
    BY <1>6, <1>8, <2>1
  <2>2. CASE i \in 1 .. k
    BY <1>6, <1>8, <2>2 DEF LoadPaced
  <2> QED BY <1>4, <2>1, <2>2
<1> QED BY <1>7, <1>8 DEF LoadPaced

LEMMA LoadQueuePaced ==
  ASSUME NEW s, Whole(s), Sound(s), NEW t \in Machine, t.q = s.q, SameClock(s, t)
  PROVE  Kept(load_eventqueue_infos(t, s.q))
<1> DEFINE n == Len(s.q)
           saved == s.q
<1>1. /\ s \in Machine /\ saved \in Seq(Event) /\ n \in Nat
      /\ Len(saved) = n /\ Len(saved) <= POOL_CAPACITY
  BY MachineFields DEF Whole, Fits
<1>2. t.count = s.count /\ t.early = s.early /\ t.disturbed = s.disturbed
  BY DEF SameClock
<1>3. ~s.disturbed => Dated(saved, t.count) /\ ThisLap(saved, t.count) /\ Marked(saved)
  BY <1>2 DEF Sound, Paced
<1> HIDE DEF n, saved
<1>4. PICK g : Unfolded(g, t, saved, n)
  BY <1>1, LoadUnfolds
<1>5. /\ load_eventqueue_infos(t, saved) = g[n]
      /\ g[0] = [t EXCEPT !.q = << >>]
      /\ \A k \in 1 .. n : g[k] = add_interrupt_event_count(g[k - 1], saved[k])
  BY <1>4 DEF Unfolded
<1>6. ASSUME NEW k \in Nat, k + 1 <= n
      PROVE  k < Len(saved) /\ g[k + 1] = add_interrupt_event_count(g[k], saved[k + 1])
  <2>1. k + 1 \in 1 .. n /\ (k + 1) - 1 = k
    BY <1>1, <1>6
  <2> QED BY <1>1, <1>5, <2>1
<1>7. g[0].q = << >> /\ Len(g[0].q) = 0 /\ OnLoad(t, 0, g[0])
  <2>1. g[0] \in Machine /\ g[0].q = << >> /\ SameClock(t, g[0])
    <3>1. << >> \in Seq(Event)
      OBVIOUS
    <3> QED BY <1>5, <3>1 DEF Machine, SameClock
  <2>2. Len(g[0].q) = 0
    BY <2>1
  <2> QED BY <2>1, <2>2, Numbers DEF OnLoad, Fits
<1>8. ASSUME NEW k \in Nat, k <= n PROVE OnLoad(t, k, g[k])
  <2> DEFINE S == {i \in Nat : i <= n => OnLoad(t, i, g[i])}
  <2>1. 0 \in S
    BY <1>7
  <2>2. ASSUME NEW i \in Nat, i \in S PROVE i + 1 \in S
    <3> SUFFICES ASSUME i + 1 <= n PROVE OnLoad(t, i + 1, g[i + 1])
      OBVIOUS
    <3>1. OnLoad(t, i, g[i])
      BY <1>1, <2>2
    <3> QED BY <1>1, <1>6, <3>1, OnLoadOneMore
  <2>3. k \in S
    <3> HIDE DEF S
    <3> QED BY <2>1, <2>2, InductionOnNat
  <2> QED BY <1>8, <2>3
<1>9. ASSUME NotLate(g[n]), NEW k \in Nat, k <= n PROVE NotLate(g[k])
  <2> DEFINE S == {i \in Nat : i <= n => NotLate(g[n - i])}
  <2>1. 0 \in S
    BY <1>1, <1>9
  <2>2. ASSUME NEW i \in Nat, i \in S PROVE i + 1 \in S
    <3> SUFFICES ASSUME i + 1 <= n PROVE NotLate(g[n - (i + 1)])
      OBVIOUS
    <3> DEFINE j == n - (i + 1)
    <3>1. j \in Nat /\ j <= n /\ j + 1 <= n /\ j + 1 = n - i /\ j + 1 \in 1 .. Len(saved)
      BY <1>1
    <3>2. NotLate(g[j + 1])
      BY <1>1, <2>2, <3>1
    <3> HIDE DEF j
    <3>3. g[j + 1] = add_interrupt_event_count(g[j], saved[j + 1]) /\ saved[j + 1] \in Event
      BY <1>1, <1>6, <3>1
    <3>4. Fits(g[j])
      BY <1>8, <3>1 DEF OnLoad
    <3>5. NotLate(g[j])
      BY <3>2, <3>3, <3>4, AddLate
    <3> QED BY <3>5 DEF j
  <2>3. n - k \in Nat /\ n - k <= n /\ n - (n - k) = k
    BY <1>1, <1>9
  <2>4. n - k \in S
    <3> HIDE DEF S
    <3> QED BY <2>1, <2>2, <2>3, InductionOnNat
  <2> QED BY <2>3, <2>4
<1>10. ASSUME ~s.disturbed, NotLate(g[n]) PROVE LoadPaced(saved, n, g[n])
  <2> DEFINE S == {i \in Nat : i <= n => LoadPaced(saved, i, g[i])}
  <2>1. 0 \in S
    <3>1. LoadPaced(saved, 0, g[0])
      BY <1>7 DEF LoadPaced, Paced, Dated, ThisLap, Armed
    <3> QED BY <3>1
  <2>2. ASSUME NEW i \in Nat, i \in S PROVE i + 1 \in S
    <3> SUFFICES ASSUME i + 1 <= n PROVE LoadPaced(saved, i + 1, g[i + 1])
      OBVIOUS
    <3>1. i <= n
      BY <1>1
    <3>2. LoadPaced(saved, i, g[i]) /\ OnLoad(t, i, g[i]) /\ NotLate(g[i])
      BY <1>8, <1>9, <1>10, <2>2, <3>1
    <3> QED BY <1>1, <1>3, <1>6, <1>10, <3>2, LoadPacedOneMore
  <2>3. n \in S
    <3> HIDE DEF S
    <3> QED BY <1>1, <2>1, <2>2, InductionOnNat
  <2> QED BY <1>1, <2>3
<1>11. SameClock(t, g[n])
  BY <1>1, <1>8 DEF OnLoad
<1>12. Kept(g[n])
  <2>1. ~g[n].early /\ g[n].disturbed = s.disturbed
    BY <1>2, <1>11 DEF SameClock, Sound
  <2>2. ASSUME ~s.disturbed, NotLate(g[n]) PROVE Paced(g[n]) /\ Marked(g[n].q)
    <3>1. LoadPaced(saved, n, g[n]) /\ Marked(saved)
      BY <1>3, <1>10, <2>2
    <3> QED BY <1>1, <3>1 DEF LoadPaced, Marked
  <2> QED BY <2>1, <2>2 DEF Kept
<1> QED BY <1>5, <1>12 DEF saved

LEMMA UpdateSound ==
  ASSUME NEW s, Whole(s), Sound(s), NEW d \in 0 .. Half
  PROVE  Sound(cp0_update_count(s, d))
<1> DEFINE r == cp0_update_count(s, d)
<1>1. s \in Machine
  BY DEF Whole, Fits
<1>2. r.early = s.early /\ r.disturbed = s.disturbed
  BY <1>1 DEF cp0_update_count, Machine
<1>3. Paced(s) => Paced(r) /\ (Marked(s.q) => Marked(r.q))
  BY UpdatePaced
<1> HIDE DEF r
<1> QED BY <1>2, <1>3 DEF Sound, r

\* Registers that the timing does not depend on.
LEMMA KeptOn ==
  ASSUME NEW r, Kept(r), NEW z, z.q = r.q, z.count = r.count,
         z.next_interrupt = r.next_interrupt, z.skip_jump = r.skip_jump,
         z.early = r.early, r.disturbed => z.disturbed
  PROVE  Kept(z)
<1>1. NotLate(z) => NotLate(r)
  BY DEF NotLate
<1>2. Paced(r) => Paced(z)
  BY DEF Paced, Armed
<1> QED BY <1>1, <1>2 DEF Kept

\* The inductive invariant, and what a step leaves of it before Timely is known of
\* the new state.
SoundInv == Sound(m)
KeptInv == Kept(m)

LEMMA JumpPaced ==
  ASSUME QueueInv, SoundInv, NEW d \in 1 .. MaxTick, Jump(d) PROVE KeptInv'
<1> DEFINE s == cp0_update_count(m, d)
           r == TestInterrupt(s, FALSE)
           b == Straddles(d)
           z == [r EXCEPT !.straddled = b, !.disturbed = @ \/ b]
<1>1. d \in 0 .. Half /\ d \in Nat
  BY ConstantsAssumption, Windows DEF ConstantsAssumption
<1>2. Whole(s) /\ Sound(s)
  BY <1>1, UpdateCountOK, UpdateSound DEF QueueInv, SoundInv
<1> HIDE DEF s
<1>3. Whole(r) /\ Kept(r)
  BY <1>2, TestOK, TestPaced
<1>4. m' = z
  BY DEF Jump, s
<1> HIDE DEF r
<1>5. b \in BOOLEAN
  BY DEF Straddles
<1> HIDE DEF b
<1>6. r \in Machine
  BY <1>3 DEF Whole, Fits
<1>7. /\ z.q = r.q /\ z.count = r.count /\ z.next_interrupt = r.next_interrupt
      /\ z.skip_jump = r.skip_jump /\ z.early = r.early
      /\ z.disturbed = (r.disturbed \/ b)
  BY <1>6 DEF Machine
<1> HIDE DEF z
<1>8. Kept(z)
  BY <1>3, <1>7, KeptOn
<1> QED BY <1>4, <1>8 DEF KeptInv

LEMMA IdleSkipPaced == ASSUME QueueInv, SoundInv, IdleSkip PROVE KeptInv'
<1> DEFINE skip == (m.next_interrupt - m.count) % M
           step == skip - (skip % (MaxTick + 1))
           s == cp0_update_count(m, step)
           b == m.count + step >= M + Past
           z == [s EXCEPT !.straddled = b]
<1>1. skip \in Nat
  <2>1. m.next_interrupt - m.count \in Int
    BY MachineFields, Numbers DEF QueueInv, Whole, Fits, Count
  <2> QED BY <2>1, ModCount, Numbers DEF Count
<1>2. m' = z /\ skip < Half
  BY DEF IdleSkip
<1> HIDE DEF skip
<1>3. step \in 0 .. Half /\ step \in Nat
  BY <1>1, <1>2, Numbers
<1> HIDE DEF step
<1>4. Whole(s) /\ Sound(s)
  BY <1>3, UpdateCountOK, UpdateSound DEF QueueInv, SoundInv
<1> HIDE DEF s
<1>5. s \in Machine /\ Kept(s)
  BY <1>4, SoundKept DEF Whole, Fits
<1> HIDE DEF b
<1>6. /\ z.q = s.q /\ z.count = s.count /\ z.next_interrupt = s.next_interrupt
      /\ z.skip_jump = s.skip_jump /\ z.early = s.early
      /\ z.disturbed = s.disturbed
  BY <1>5 DEF Machine
<1> HIDE DEF z
<1>7. Kept(z)
  BY <1>5, <1>6, KeptOn
<1> QED BY <1>2, <1>7 DEF KeptInv

\* What is queued does not change what was early.
LEMMA AddEarly ==
  ASSUME NEW s, "early" \in DOMAIN s, NEW e
  PROVE  LET r == add_interrupt_event_count(s, e)
         IN  DOMAIN r = DOMAIN s /\ r.early = s.early
<1> DEFINE b == s.SPECIAL_done /\ ~(s.count > Half)
           t == [s EXCEPT !.SPECIAL_done = b]
           f == <<e>> \o t.q
           g == InsertAt(t.q, Place(t, e), e)
           r == add_interrupt_event_count(s, e)
<1>1. "early" \in DOMAIN t /\ DOMAIN t = DOMAIN s /\ t.early = s.early
  OBVIOUS
<1>2. r = IF Len(t.q) >= POOL_CAPACITY THEN [t EXCEPT !.dropped = TRUE]
          ELSE IF GoesFirst(t, e)
               THEN [t EXCEPT !.q = f, !.next_interrupt = e.count]
               ELSE [t EXCEPT !.q = g]
  BY DEF add_interrupt_event_count
<1> HIDE DEF t, f, g
<1>3. DOMAIN r = DOMAIN s /\ r.early = t.early
  <2> HIDE DEF r
  <2>1. CASE r = [t EXCEPT !.dropped = TRUE]
    BY <1>1, <2>1
  <2>2. CASE r = [t EXCEPT !.q = f, !.next_interrupt = e.count]
    BY <1>1, <2>2
  <2>3. CASE r = [t EXCEPT !.q = g]
    BY <1>1, <2>3
  <2> QED BY <1>2, <2>1, <2>2, <2>3
<1> QED BY <1>1, <1>3

LEMMA RemoveEarly ==
  ASSUME NEW s, "early" \in DOMAIN s, NEW type
  PROVE  LET r == remove_event(s, type)
         IN  DOMAIN r = DOMAIN s /\ r.early = s.early
<1> DEFINE found == {k \in 1 .. Len(s.q) : s.q[k].type = type}
           w == RemoveAt(s.q, CHOOSE i \in found : \A j \in found : i <= j)
           r == remove_event(s, type)
<1>1. r = IF found = {} THEN s ELSE [s EXCEPT !.q = w]
  BY DEF remove_event
<1> HIDE DEF found, w, r
<1>2. DOMAIN r = DOMAIN s /\ r.early = s.early
  <2>1. CASE r = s
    BY <2>1
  <2>2. CASE r = [s EXCEPT !.q = w]
    BY <2>2
  <2> QED BY <1>1, <2>1, <2>2
<1> QED BY <1>2 DEF r

\* Writes of Count and Compare only disturb.
LEMMA TranslateKept ==
  ASSUME NEW s \in Machine, ~s.early, NEW base
  PROVE  Kept(translate_event_queue(s, base))
<1> DEFINE p == remove_event(s, "COMPARE")
           r == remove_event(p, "SPECIAL")
           w == [k \in 1 .. Len(r.q) |->
                   [r.q[k] EXCEPT !.count = (r.q[k].count - s.count + base) % M]]
           t == [r EXCEPT !.q = w]
           e == [type |-> "COMPARE", count |-> s.compare,
                 left |-> (s.compare - base) % M]
           a == add_interrupt_event_count(t, e)
           b == add_interrupt_event_count(a, Special)
           z == [b EXCEPT !.count = base, !.disturbed = TRUE]
           Has(x) == DOMAIN x = DOMAIN s /\ x.early = s.early
<1>1. translate_event_queue(s, base) = z
  BY DEF translate_event_queue
<1>2. "early" \in DOMAIN s /\ DOMAIN s = {"q", "count", "next_interrupt",
         "SPECIAL_done", "compare", "next_vi", "skip_jump", "reset_hard_job",
         "dropped", "disturbed", "early", "straddled", "vi_fired"}
  BY DEF Machine
<1>3. Has(p)
  BY <1>2, RemoveEarly
<1> HIDE DEF p
<1>4. Has(r)
  BY <1>2, <1>3, RemoveEarly
<1> HIDE DEF r, w
<1>5. Has(t)
  BY <1>2, <1>4
<1> HIDE DEF t, e
<1>6. Has(a)
  BY <1>2, <1>5, AddEarly
<1> HIDE DEF a
<1>7. Has(b)
  BY <1>2, <1>6, AddEarly
<1> HIDE DEF b
<1>8. Has(z) /\ z.disturbed
  BY <1>2, <1>7
<1> HIDE DEF z
<1> QED BY <1>1, <1>8 DEF Kept

LEMMA GuestPaced == ASSUME QueueInv, SoundInv, Guest PROVE KeptInv'
<1>m. Whole(m) /\ m \in Machine /\ Sound(m) /\ Kept(m)
  BY SoundKept DEF QueueInv, SoundInv, Whole, Fits
<1>op. ASSUME NEW s, Kept(s), Op(s) PROVE KeptInv'
  BY <1>op DEF Op, KeptInv
<1>1. CASE StartDevice
  <2>1. PICK d \in Delays : Op(add_interrupt_event(m, "DEV", d))
    BY <1>1 DEF StartDevice
  <2>2. d \in 0 .. Half - 1 /\ "DEV" \in Type \ {"SPECIAL", "COMPARE"}
    BY ConstantsAssumption DEF ConstantsAssumption, Type
  <2>3. Kept(add_interrupt_event(m, "DEV", d))
    BY <1>m, <2>2, AddDelayedPaced
  <2> QED BY <1>op, <2>1, <2>3
<1>2. CASE SignalInterrupt
  BY <1>m, <1>2, <1>op, CheckPaced, SoundKept DEF SignalInterrupt
<1>3. CASE EnableInterrupts
  <2>1. PICK u \in BOOLEAN, s \in {m, check_interrupt(m)} : Op(TestInterrupt(s, u))
    BY <1>3 DEF EnableInterrupts
  <2>2. Whole(s) /\ Sound(s)
    BY <1>m, CheckOK, CheckPaced
  <2>3. Kept(TestInterrupt(s, u))
    BY <2>2, TestPaced
  <2> QED BY <1>op, <2>1, <2>3
<1>4. CASE WriteCompare
  <2>1. PICK v \in CompareValues :
          Op([add_interrupt_event_count(remove_event(m, "COMPARE"),
                [type |-> "COMPARE", count |-> v, left |-> (v - m.count) % M])
              EXCEPT !.compare = v, !.disturbed = TRUE])
    BY <1>4 DEF WriteCompare
  <2> DEFINE s == remove_event(m, "COMPARE")
             e == [type |-> "COMPARE", count |-> v, left |-> (v - m.count) % M]
             r == add_interrupt_event_count(s, e)
             z == [r EXCEPT !.compare = v, !.disturbed = TRUE]
  <2>2. Op(z)
    BY <2>1
  <2>3. {"early", "disturbed"} \subseteq DOMAIN m
    BY <1>m DEF Machine
  <2>4. DOMAIN s = DOMAIN m /\ s.early = m.early
    BY <2>3, RemoveEarly
  <2> HIDE DEF s, e
  <2>5. DOMAIN r = DOMAIN s /\ r.early = s.early
    BY <2>3, <2>4, AddEarly
  <2> HIDE DEF r
  <2>6. z.early = m.early /\ z.disturbed
    BY <2>3, <2>4, <2>5
  <2> HIDE DEF z
  <2>7. Kept(z)
    BY <1>m, <2>6 DEF Kept, Sound
  <2> QED BY <1>op, <2>2, <2>7
<1>5. CASE WriteCount
  <2>1. PICK v \in CountValues : Op(translate_event_queue(TestInterrupt(m, TRUE), v))
    BY <1>5 DEF WriteCount
  <2> DEFINE s == TestInterrupt(m, TRUE)
  <2>2. s \in Machine /\ ~s.early
    BY <1>m, TestOK, TestPaced DEF Whole, Fits, Kept
  <2> HIDE DEF s
  <2>3. Kept(translate_event_queue(s, v))
    BY <2>2, TranslateKept
  <2> QED BY <1>op, <2>1, <2>3 DEF s
<1>6. CASE DelaySlotException
  <2> DEFINE s == [m EXCEPT !.skip_jump = TRUE, !.next_interrupt = 0]
  <2>1. /\ s.q = m.q /\ s.count = m.count /\ s.early = m.early
        /\ s.disturbed = m.disturbed /\ s.skip_jump
    BY <1>m DEF Machine
  <2>2. Op(s)
    BY <1>6 DEF DelaySlotException
  <2> HIDE DEF s
  <2>3. Sound(s)
    BY <1>m, <2>1 DEF Sound, Paced, Armed
  <2> QED BY <1>op, <2>2, <2>3, SoundKept
<1>7. CASE reset_soft
  <2> DEFINE s == add_interrupt_event(m, "HW2", 0)
  <2>1. /\ {"HW2", "NMI"} \subseteq Type \ {"SPECIAL", "COMPARE"}
        /\ 0 \in 0 .. Half - 1 /\ 0 \in 0 .. M - 1 /\ NmiDelay \in 0 .. Half - 1
    BY ConstantsAssumption, Windows DEF ConstantsAssumption, Type
  <2>2. Whole(s) /\ Kept(s)
    BY <1>m, <2>1, AddDelayed, AddDelayedPaced
  <2>3. Op(add_interrupt_event(s, "NMI", NmiDelay))
    BY <1>7 DEF reset_soft
  <2> HIDE DEF s
  <2>4. Kept(add_interrupt_event(s, "NMI", NmiDelay))
    BY <2>1, <2>2, AddDelayedPaced
  <2> QED BY <1>op, <2>3, <2>4
<1>8. CASE RequestHardReset
  <2> DEFINE s == [m EXCEPT !.reset_hard_job = TRUE]
  <2>1. /\ s.q = m.q /\ s.count = m.count /\ s.next_interrupt = m.next_interrupt
        /\ s.skip_jump = m.skip_jump /\ s.early = m.early /\ s.disturbed = m.disturbed
    BY <1>m DEF Machine
  <2>2. Op(s)
    BY <1>8 DEF RequestHardReset
  <2> HIDE DEF s
  <2> QED BY <1>m, <1>op, <2>1, <2>2, KeptOn
<1>9. CASE LoadState
  <2>1. PICK done \in BOOLEAN :
          Op(load_eventqueue_infos([m EXCEPT !.SPECIAL_done = done], m.q))
    BY <1>9 DEF LoadState
  <2> DEFINE t == [m EXCEPT !.SPECIAL_done = done]
  <2>2. t \in Machine /\ t.q = m.q /\ SameClock(m, t)
    BY <1>m DEF Machine, SameClock
  <2>3. Op(load_eventqueue_infos(t, m.q))
    BY <2>1
  <2> HIDE DEF t
  <2>4. Kept(load_eventqueue_infos(t, m.q))
    BY <1>m, <2>2, LoadQueuePaced
  <2> QED BY <1>op, <2>3, <2>4
<1> QED BY <1>1, <1>2, <1>3, <1>4, <1>5, <1>6, <1>7, <1>8, <1>9 DEF Guest

\* As long as no event ahead of the wrap marker is left waiting for a sixteenth
\* of a lap in the upper half of Count, before_event's windows are right: between
\* a reset and the first disturbance no event is dispatched before its time, for
\* every Count modulus, pool size, delay and number of guest operations, through
\* wraps, idle skips, resets, delay-slot exceptions and savestates.
THEOREM NeverEarlyWhileTimely == SafeSpec /\ []Timely => []NeverEarly
<1>1. Init => KeptInv
  <2> SUFFICES ASSUME Init PROVE KeptInv
    OBVIOUS
  <2> DEFINE s == [q |-> << >>, count |-> 0, next_interrupt |-> 0,
                   SPECIAL_done |-> FALSE, compare |-> 0, next_vi |-> 0,
                   skip_jump |-> FALSE, reset_hard_job |-> FALSE,
                   dropped |-> FALSE, disturbed |-> FALSE,
                   early |-> FALSE, straddled |-> FALSE, vi_fired |-> FALSE]
  <2>1. << >> \in Seq(Event) /\ 0 \in Count
    BY Numbers
  <2>2. s \in Machine /\ ~s.early
    BY <2>1 DEF Machine
  <2>3. m = reset_hard(s)
    BY DEF Init, PowerOn
  <2> HIDE DEF s
  <2> QED BY <2>2, <2>3, ResetPaced, SoundKept DEF KeptInv
<1>2. QueueInv /\ SoundInv /\ KeptInv /\ [Next]_vars => KeptInv'
  <2> SUFFICES ASSUME QueueInv, SoundInv, KeptInv, [Next]_vars PROVE KeptInv'
    OBVIOUS
  <2>1. CASE UNCHANGED vars
    BY <2>1 DEF vars, KeptInv
  <2>2. CASE Run
    <3>1. PICK d \in 1 .. MaxTick : Jump(d)
      BY <2>2 DEF Run
    <3> QED BY <3>1, JumpPaced
  <2>3. CASE IdleSkip
    BY <2>3, IdleSkipPaced
  <2>4. CASE Guest
    BY <2>4, GuestPaced
  <2> QED BY <2>1, <2>2, <2>3, <2>4 DEF Next
<1>3. KeptInv /\ Timely => SoundInv
  <2> SUFFICES ASSUME KeptInv, Timely PROVE SoundInv
    OBVIOUS
  <2>1. ~m.disturbed => NotLate(m)
    BY DEF Timely, NotLate, Ahead
  <2> QED BY <2>1 DEF KeptInv, SoundInv, Kept, Sound
<1>4. SoundInv => NeverEarly
  BY DEF SoundInv, Sound, NeverEarly
<1> QED BY <1>1, <1>2, <1>3, <1>4, QueueInvariance, PTL DEF SafeSpec

=============================================================================
