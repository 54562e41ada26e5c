------------------------- MODULE CommandRing_proofs -------------------------
(***************************************************************************)
(* CommandRing for every ring size, every set of commands that fit and     *)
(* every number of commands.                                               *)
(*                                                                         *)
(* FifoDelivery is not inductive: what the reader will take out depends on *)
(* what the ring still holds.  Inv adds the framing of the unread words    *)
(* (Framed), where the reader stands in the history (Cursor), what         *)
(* thread_loop's local buffer holds (Buffered), how far completion lags    *)
(* (Lag) and where Stop may appear (Closing).                              *)
(***************************************************************************)
EXTENDS CommandRing, SequenceTheorems, TLAPS

-----------------------------------------------------------------------------
(* Arithmetic of ring positions *)

\* A remainder is a position of the ring.
LEMMA ModRange ==
  ASSUME NEW a \in Int PROVE a % Size \in 0 .. Size - 1
  BY SizeAssumption

\* Division with remainder is unique.
LEMMA ModUnique ==
  ASSUME NEW p \in Int, NEW q \in Int,
         NEW r \in 0 .. Size - 1, NEW s \in 0 .. Size - 1,
         Size * p + r = Size * q + s
  PROVE  r = s
<1> USE SizeAssumption
<1>1. ~(p < q)
  <2>1. SUFFICES ASSUME p < q PROVE FALSE
    OBVIOUS
  <2>2. Size * (p + 1) <= Size * q
    BY <2>1
  <2>3. Size * (p + 1) = Size * p + Size
    OBVIOUS
  <2> QED BY <2>2, <2>3
<1>2. ~(q < p)
  <2>1. SUFFICES ASSUME q < p PROVE FALSE
    OBVIOUS
  <2>2. Size * (q + 1) <= Size * p
    BY <2>1
  <2>3. Size * (q + 1) = Size * q + Size
    OBVIOUS
  <2> QED BY <2>2, <2>3
<1>3. p = q
  BY <1>1, <1>2
<1> QED BY <1>3

\* How far round the ring the cell i is from the position at.
Distance(i, at) == (i - at) % Size

\* The distance from at to a is a - at when a is less than one turn ahead,
\* and Size more when it is at most one turn behind.
LEMMA RingDistance ==
  ASSUME NEW a \in Int, NEW at \in Int
  PROVE  /\ at <= a /\ a < at + Size => Distance(a % Size, at) = a - at
         /\ at - Size <= a /\ a < at =>
              Distance(a % Size, at) = a - at + Size
<1> USE SizeAssumption
<1> DEFINE r == (a % Size) - at
           p == a \div Size
           q == r \div Size
<1>1. p \in Int /\ a = Size * p + (a % Size) /\ a % Size \in 0 .. Size - 1
  OBVIOUS
<1>2. r \in Int
  BY <1>1
<1>3. q \in Int /\ r = Size * q + (r % Size) /\ r % Size \in 0 .. Size - 1
  BY <1>2
<1>4. a - at = Size * p + Size * q + (r % Size)
  BY <1>1, <1>3
<1>5. Size * p + Size * q = Size * (p + q)
  BY <1>1, <1>3
<1> HIDE DEF r, p, q
<1>6. ASSUME at <= a, a < at + Size PROVE r % Size = a - at
  <2>1. Size * 0 + (a - at) = Size * (p + q) + (r % Size)
    BY <1>4, <1>5, <1>1, <1>3
  <2>2. a - at \in 0 .. Size - 1
    BY <1>6
  <2>3. p + q \in Int /\ 0 \in Int /\ r % Size \in 0 .. Size - 1
    BY <1>1, <1>3
  <2> QED BY <2>1, <2>2, <2>3, ModUnique
<1>7. ASSUME at - Size <= a, a < at PROVE r % Size = a - at + Size
  <2>0. Size * (-1) = -Size
    OBVIOUS
  <2>1. Size * (-1) + (a - at + Size) = Size * (p + q) + (r % Size)
    BY <1>4, <1>5, <1>1, <1>3, <2>0
  <2>2. a - at + Size \in 0 .. Size - 1
    BY <1>7
  <2>3. p + q \in Int /\ -1 \in Int /\ r % Size \in 0 .. Size - 1
    BY <1>1, <1>3
  <2> QED BY <2>1, <2>2, <2>3, ModUnique
<1> QED BY <1>6, <1>7 DEF r, Distance

-----------------------------------------------------------------------------
(* What writing a command does to the ring *)

\* The new command is readable at its place, and every word at most one turn
\* behind that the command does not need the room of is left alone.
LEMMA WriteEffect ==
  ASSUME ring \in [0 .. Size - 1 -> Nat],
         NEW at \in Nat, NEW w \in Seq(Nat), Len(w) + 1 <= Size
  PROVE  LET r == write_ring_command(at, w)
         IN  /\ r \in [0 .. Size - 1 -> Nat]
             /\ r[at % Size] = Len(w)
             /\ \A j \in 1 .. Len(w) : r[(at + j) % Size] = w[j]
             /\ \A a \in Int : at - Size + Len(w) + 1 <= a /\ a < at =>
                  r[a % Size] = ring[a % Size]
<1> DEFINE r == write_ring_command(at, w)
           d(i) == Distance(i, at)
<1>0. Len(w) \in Nat /\ \A j \in 1 .. Len(w) : w[j] \in Nat
  OBVIOUS
<1>1. \A i \in 0 .. Size - 1 : d(i) \in 0 .. Size - 1
  <2> TAKE i \in 0 .. Size - 1
  <2>1. i - at \in Int
    BY SizeAssumption
  <2> QED BY <2>1, ModRange DEF Distance
<1>2. \A i \in 0 .. Size - 1 :
        r[i] = IF d(i) = 0 THEN Len(w)
               ELSE IF d(i) <= Len(w) THEN w[d(i)] ELSE ring[i]
  BY DEF write_ring_command, Distance
<1>3. r = [i \in 0 .. Size - 1 |-> r[i]]
  BY DEF write_ring_command
<1> HIDE DEF r
<1>4. r \in [0 .. Size - 1 -> Nat]
  <2>1. \A i \in 0 .. Size - 1 : r[i] \in Nat
    <3> TAKE i \in 0 .. Size - 1
    <3>0. d(i) \in 0 .. Size - 1 /\ ring[i] \in Nat
      BY <1>1
    <3> HIDE DEF d
    <3>1. d(i) \in Nat /\ ring[i] \in Nat
      BY <3>0, SizeAssumption
    <3>2. CASE d(i) = 0
      BY <3>2, <1>2, <1>0
    <3>3. CASE d(i) # 0 /\ d(i) <= Len(w)
      BY <3>1, <3>3, <1>2, <1>0
    <3>4. CASE d(i) # 0 /\ ~(d(i) <= Len(w))
      BY <3>1, <3>4, <1>2, <1>0
    <3> QED BY <3>2, <3>3, <3>4
  <2> QED BY <2>1, <1>3
<1>5. \A a \in Int : a % Size \in 0 .. Size - 1
  BY ModRange
<1>6. r[at % Size] = Len(w)
  <2>1. at \in Int /\ at <= at /\ at < at + Size /\ at - at = 0
    BY SizeAssumption
  <2>2. d(at % Size) = 0
    BY <2>1, RingDistance
  <2> QED BY <2>1, <2>2, <1>2, <1>5
<1>7. \A j \in 1 .. Len(w) : r[(at + j) % Size] = w[j]
  <2> TAKE j \in 1 .. Len(w)
  <2> DEFINE a == at + j
  <2>1. a \in Int /\ at <= a /\ a < at + Size /\ a - at = j
    BY <1>0, SizeAssumption
  <2>2. j # 0 /\ j <= Len(w)
    BY <1>0
  <2> HIDE DEF a
  <2>3. d(a % Size) = j
    BY <2>1, RingDistance
  <2> HIDE DEF d
  <2>4. r[a % Size] = w[j]
    BY <2>1, <2>2, <2>3, <1>2, <1>5
  <2> QED BY <2>4 DEF a
<1>8. \A a \in Int : at - Size + Len(w) + 1 <= a /\ a < at =>
         r[a % Size] = ring[a % Size]
  <2> TAKE a \in Int
  <2> HAVE at - Size + Len(w) + 1 <= a /\ a < at
  <2>1. at - Size <= a /\ a - at + Size > Len(w) /\ at \in Int
    BY <1>0, SizeAssumption
  <2>2. d(a % Size) = a - at + Size
    BY <2>1, RingDistance
  <2>3. d(a % Size) # 0 /\ ~(d(a % Size) <= Len(w))
    BY <2>1, <2>2, <1>0, SizeAssumption
  <2> HIDE DEF d
  <2> QED BY <2>3, <1>2, <1>5
<1> QED BY <1>4, <1>6, <1>7, <1>8 DEF r

-----------------------------------------------------------------------------
(* The inductive invariant *)

\* Commands taken out of the ring so far.
Fetched ==
  IF (server = "process" /\ ~is_idle) \/ server = "exited"
  THEN Len(processed) + 1 ELSE Len(processed)

CommandEnd(k) == sent[k].at + Len(sent[k].words) + 1

\* The unread commands lie in the ring, in one piece and one after another.
Framed ==
  /\ \A k \in 1 .. Len(sent) : CommandEnd(k) <= write_count
  /\ \A k, l \in 1 .. Len(sent) : k < l => CommandEnd(k) <= sent[l].at
  /\ \A k \in 1 .. Len(sent) : k > Fetched =>
       /\ sent[k].at >= read_count
       /\ ring[sent[k].at % Size] = Len(sent[k].words)
       /\ \A j \in 1 .. Len(sent[k].words) :
            ring[(sent[k].at + j) % Size] = sent[k].words[j]

\* The reader stands at the first unread command, and the next command goes
\* where the last one ends.
Cursor ==
  /\ Fetched <= Len(sent)
  /\ Fetched < Len(sent) => sent[Fetched + 1].at = read_count
  /\ Fetched = Len(sent) => read_count = write_count
  /\ \A k \in 1 .. Len(sent) :
       k + 1 <= Len(sent) => sent[k + 1].at = CommandEnd(k)
  /\ Len(sent) > 0 => CommandEnd(Len(sent)) = write_count

Buffered ==
  /\ server = "process" /\ ~is_idle => tmp_buffer = sent[Fetched].words
  /\ server = "process" /\ is_idle => tmp_buffer = <<0>>

Lag ==
  IF (server = "process" /\ ~is_idle) \/ server \in {"complete", "exited"}
  THEN completed_count < read_count
  ELSE completed_count = read_count

Closing ==
  /\ \A k \in 1 .. Len(sent) : sent[k].words = Stop <=>
       client \in {"join", "done"} /\ k = Len(sent)
  /\ client \in {"join", "done"} => Len(sent) > 0
  /\ server = "exited" => client \in {"join", "done"} /\ Fetched = Len(sent)
  /\ client = "done" => server = "exited"

Inv ==
  /\ TypeOK
  /\ CountsOrdered
  /\ FifoDelivery
  /\ WaiterHasWaker
  /\ Framed /\ Cursor /\ Buffered /\ Lag /\ Closing

\* The range of the ring's counters and indices, for the leaves below.
LEMMA FetchedType ==
  ASSUME TypeOK PROVE Fetched \in Nat /\ Len(sent) \in Nat
  BY DEF TypeOK, Fetched

\* The fields of a history entry.
LEMMA SentEntry ==
  ASSUME TypeOK, NEW k \in 1 .. Len(sent)
  PROVE  /\ sent[k].at \in Nat
         /\ sent[k].words \in Commands \cup {Stop}
         /\ sent[k].words \in Seq(Nat)
         /\ Len(sent[k].words) \in Nat
         /\ Len(sent[k].words) + 1 <= Size
         /\ CommandEnd(k) \in Nat
<1>1. sent[k] \in [at : Nat, words : Commands \cup {Stop}]
  <2>1. sent \in Seq([at : Nat, words : Commands \cup {Stop}])
    BY DEF TypeOK
  <2> QED BY <2>1, ElementOfSeq
<1>2. sent[k].words \in Commands \/ sent[k].words = << >>
  BY <1>1 DEF Stop
<1>3. sent[k].words \in Seq(Nat) /\ Len(sent[k].words) + 1 <= Size
  <2>1. CASE sent[k].words \in Commands
    BY <2>1, CommandsAssumption
  <2>2. CASE sent[k].words = << >>
    BY <2>2, SizeAssumption
  <2> QED BY <1>2, <2>1, <2>2
<1> QED BY <1>1, <1>3 DEF CommandEnd

\* CommandRing starts with nothing in the ring and nothing in flight.
LEMMA InitInv == Init => Inv
<1> SUFFICES ASSUME Init PROVE Inv
  OBVIOUS
<1>1. TypeOK
  BY SizeAssumption DEF Init, TypeOK, ClientPC, ServerPC, Stop
<1>2. CountsOrdered /\ FifoDelivery /\ WaiterHasWaker
  BY SizeAssumption DEF Init, CountsOrdered, FifoDelivery, WaiterHasWaker
<1>3. Fetched = 0 /\ Len(sent) = 0
  BY DEF Init, Fetched
<1>4. Framed /\ Cursor
  BY <1>3 DEF Init, Framed, Cursor
<1>5. Buffered /\ Lag /\ Closing
  BY <1>3 DEF Init, Buffered, Lag, Closing
<1> QED BY <1>1, <1>2, <1>4, <1>5 DEF Inv

\* A step that moves no command and no counter, and leaves thread_loop's
\* position in the history alone, keeps the framing.
LEMMA FramePreserved ==
  ASSUME Inv, UNCHANGED <<ring, write_count, read_count, sent>>,
         Fetched' = Fetched
  PROVE  Framed' /\ Cursor'
  BY DEF Inv, Framed, Cursor, CommandEnd

\* enqueue_command writes behind the unread words and over none of them.
LEMMA EnqueueWriteInv == Inv /\ EnqueueWrite => Inv'
<1> SUFFICES ASSUME Inv, EnqueueWrite PROVE Inv'
  OBVIOUS
<1> DEFINE n == Len(sent)
           new == [at |-> write_count, words |-> arg]
           Entry == [at : Nat, words : Commands \cup {Stop}]
<1>1. TypeOK /\ n \in Nat /\ Fetched \in Nat /\ Fetched <= n
  BY FetchedType DEF Inv, Cursor
<1>2. /\ arg \in Seq(Nat) /\ Len(arg) \in Nat /\ Len(arg) + 1 <= Size
      /\ arg \in Commands \cup {Stop}
  <2>1. arg \in Commands \/ arg = << >>
    BY <1>1 DEF TypeOK, Stop
  <2>2. CASE arg \in Commands
    BY <2>2, CommandsAssumption
  <2>3. CASE arg = << >>
    BY <2>3, SizeAssumption DEF Stop
  <2> QED BY <2>1, <2>2, <2>3
<1>3. /\ write_count \in Nat /\ read_count \in Nat
      /\ completed_count \in Nat
      /\ write_count' = write_count + Len(arg) + 1
      /\ write_count + Len(arg) + 1 <= read_count + Size
      /\ read_count' = read_count /\ completed_count' = completed_count
      /\ completed_count <= read_count /\ read_count <= write_count
  BY <1>1 DEF EnqueueWrite, TypeOK, Inv, CountsOrdered,
              can_enqueue_ring_words
<1>4. new \in Entry /\ new.at = write_count /\ new.words = arg
  BY <1>2, <1>3
<1>5. sent \in Seq(Entry) /\ sent' = Append(sent, new)
  BY <1>1 DEF TypeOK, EnqueueWrite
<1> HIDE DEF Entry, new
<1>6. /\ sent' \in Seq(Entry)
      /\ Len(sent') = n + 1
      /\ sent'[n + 1] = new
      /\ \A k \in 1 .. n : sent'[k] = sent[k]
  BY <1>4, <1>5
<1>7. /\ ring' \in [0 .. Size - 1 -> Nat]
      /\ ring'[write_count % Size] = Len(arg)
      /\ \A j \in 1 .. Len(arg) : ring'[(write_count + j) % Size] = arg[j]
      /\ \A a \in Int : read_count <= a /\ a < write_count =>
           ring'[a % Size] = ring[a % Size]
  <2>1. ring \in [0 .. Size - 1 -> Nat]
    BY <1>1 DEF TypeOK
  <2>2. ring' = write_ring_command(write_count, arg)
    BY DEF EnqueueWrite
  <2>3. write_count - Size + Len(arg) + 1 <= read_count
    BY <1>2, <1>3, SizeAssumption
  <2>4. \A a \in Int : read_count <= a =>
          write_count - Size + Len(arg) + 1 <= a
    BY <2>3, <1>2, <1>3, SizeAssumption
  <2> QED BY <2>1, <2>2, <2>4, <1>2, <1>3, WriteEffect
<1>8. /\ client = "enqueue"
      /\ client' = (IF arg = Stop THEN "join" ELSE "run")
      /\ server \in ServerPC
      /\ server' = Woken(server)
      /\ UNCHANGED <<tmp_buffer, is_idle, arg, processed>>
  BY <1>1 DEF EnqueueWrite, TypeOK
<1>9. /\ server' \in ServerPC
      /\ (server' = "process") <=> (server = "process")
      /\ (server' = "complete") <=> (server = "complete")
      /\ (server' = "exited") <=> (server = "exited")
  BY <1>8 DEF Woken, ServerPC
<1>10. Fetched' = Fetched /\ server # "exited"
  BY <1>8, <1>9 DEF Fetched, Inv, Closing
<1>11. TypeOK'
  <2>1. sent' \in Seq([at : Nat, words : Commands \cup {Stop}])
    BY <1>6 DEF Entry
  <2>2. client' \in ClientPC
    BY <1>8 DEF ClientPC
  <2>3. write_count' \in Nat
    BY <1>2, <1>3
  <2> QED BY <2>1, <2>2, <2>3, <1>1, <1>3, <1>7, <1>8, <1>9 DEF TypeOK
<1>12. CountsOrdered'
  BY <1>2, <1>3, SizeAssumption DEF CountsOrdered
<1>13. FifoDelivery'
  <2>1. /\ Len(processed) \in Nat /\ Len(processed) <= n
        /\ \A k \in 1 .. Len(processed) : processed[k] = sent[k].words
    BY <1>1 DEF Inv, FifoDelivery, TypeOK
  <2> QED BY <2>1, <1>1, <1>6, <1>8 DEF FifoDelivery
<1>14. WaiterHasWaker'
  BY <1>8 DEF WaiterHasWaker
<1>15. /\ \A k \in 1 .. n : CommandEnd(k)' = CommandEnd(k)
       /\ CommandEnd(Len(sent))' = write_count'
  BY <1>1, <1>3, <1>4, <1>6 DEF CommandEnd
<1>16. \A k \in 1 .. n : /\ CommandEnd(k) <= write_count
                          /\ CommandEnd(k) \in Nat
                          /\ sent[k].at \in Nat
  BY <1>1, SentEntry DEF Inv, Framed
<1>17. Framed'
  <2>1. \A k \in 1 .. Len(sent') : CommandEnd(k)' <= write_count'
    <3> TAKE k \in 1 .. Len(sent')
    <3>1. CASE k = n + 1
      BY <3>1, <1>15, <1>6, <1>2, <1>3
    <3>2. CASE k \in 1 .. n
      BY <3>2, <1>15, <1>16, <1>2, <1>3
    <3> QED BY <3>1, <3>2, <1>1, <1>6
  <2>2. \A k, l \in 1 .. Len(sent') : k < l => CommandEnd(k)' <= sent'[l].at
    <3> TAKE k, l \in 1 .. Len(sent')
    <3> HAVE k < l
    <3>1. k \in 1 .. n
      BY <1>1, <1>6
    <3>2. CASE l = n + 1
      BY <3>1, <3>2, <1>4, <1>6, <1>15, <1>16
    <3>3. CASE l \in 1 .. n
      BY <3>1, <3>3, <1>6, <1>15 DEF Inv, Framed
    <3> QED BY <3>2, <3>3, <1>1, <1>6
  <2>3. ASSUME NEW k \in 1 .. Len(sent'), k > Fetched
        PROVE  /\ sent'[k].at >= read_count'
               /\ ring'[sent'[k].at % Size] = Len(sent'[k].words)
               /\ \A j \in 1 .. Len(sent'[k].words) :
                    ring'[(sent'[k].at + j) % Size] = sent'[k].words[j]
    <3>1. CASE k = n + 1
      BY <3>1, <1>3, <1>4, <1>6, <1>7
    <3>2. CASE k \in 1 .. n
      <4> DEFINE at == sent[k].at
                 w == sent[k].words
      <4>1. sent'[k] = sent[k]
        BY <3>2, <1>6
      <4>2. /\ at >= read_count
            /\ ring[at % Size] = Len(w)
            /\ \A j \in 1 .. Len(w) : ring[(at + j) % Size] = w[j]
        BY <2>3, <3>2 DEF Inv, Framed
      <4>3. at \in Nat /\ Len(w) \in Nat /\ at + Len(w) + 1 <= write_count
        BY <3>2, <1>1, <1>16, SentEntry DEF CommandEnd
      <4> HIDE DEF at, w
      <4>4. ring'[at % Size] = Len(w)
        <5>1. at \in Int /\ read_count <= at /\ at < write_count
          BY <4>2, <4>3, <1>3
        <5> QED BY <5>1, <4>2, <1>7
      <4>5. \A j \in 1 .. Len(w) : ring'[(at + j) % Size] = w[j]
        <5> TAKE j \in 1 .. Len(w)
        <5> DEFINE a == at + j
        <5>1. a \in Int /\ read_count <= a /\ a < write_count
          BY <4>2, <4>3, <1>3
        <5> HIDE DEF a
        <5>2. ring'[a % Size] = ring[a % Size]
          BY <5>1, <1>7
        <5> QED BY <5>2, <4>2 DEF a
      <4>6. at >= read_count'
        BY <4>2, <1>3
      <4> QED BY <4>1, <4>4, <4>5, <4>6 DEF at, w
    <3> QED BY <3>1, <3>2, <1>1, <1>6
  <2> QED BY <2>1, <2>2, <2>3, <1>10 DEF Framed
<1>18. Cursor'
  <2>1. Fetched' <= Len(sent') /\ ~(Fetched' = Len(sent'))
    BY <1>1, <1>6, <1>10
  <2>2. sent'[Fetched + 1].at = read_count'
    <3>1. CASE Fetched = n
      BY <3>1, <1>3, <1>4, <1>6 DEF Inv, Cursor
    <3>2. CASE Fetched < n
      <4>1. Fetched + 1 \in 1 .. n
        BY <3>2, <1>1
      <4> QED BY <4>1, <3>2, <1>3, <1>6 DEF Inv, Cursor
    <3> QED BY <3>1, <3>2, <1>1
  <2>3. \A k \in 1 .. Len(sent') :
          k + 1 <= Len(sent') => sent'[k + 1].at = CommandEnd(k)'
    <3> TAKE k \in 1 .. Len(sent')
    <3> HAVE k + 1 <= Len(sent')
    <3>1. k \in 1 .. n
      BY <1>1, <1>6
    <3>2. CASE k = n
      <4>1. n > 0 /\ k + 1 = n + 1
        BY <3>1, <3>2
      <4>2. CommandEnd(n) = write_count
        BY <4>1 DEF Inv, Cursor
      <4> QED BY <4>1, <4>2, <3>1, <3>2, <1>4, <1>6, <1>15
    <3>3. CASE k < n
      <4>1. k + 1 \in 1 .. n /\ k + 1 <= n
        BY <3>1, <3>3, <1>1
      <4> QED BY <4>1, <3>1, <1>6, <1>15 DEF Inv, Cursor
    <3> QED BY <3>1, <3>2, <3>3, <1>1
  <2> QED BY <2>1, <2>2, <2>3, <1>6, <1>10, <1>15 DEF Cursor
<1>19. Buffered'
  <2>1. ASSUME server = "process", ~is_idle
        PROVE  sent'[Fetched].words = sent[Fetched].words
    <3>1. Fetched \in 1 .. n
      BY <2>1, <1>1 DEF Fetched, TypeOK
    <3> QED BY <3>1, <1>6
  <2> QED BY <2>1, <1>8, <1>9, <1>10 DEF Inv, Buffered
<1>20. Lag'
  BY <1>3, <1>8, <1>9 DEF Inv, Lag
<1>21. Closing'
  <2>1. \A k \in 1 .. n : sent[k].words # Stop
    BY <1>8 DEF Inv, Closing
  <2>2. \A k \in 1 .. Len(sent') : sent'[k].words = Stop <=>
          client' \in {"join", "done"} /\ k = Len(sent')
    <3> TAKE k \in 1 .. Len(sent')
    <3>1. CASE k = n + 1
      BY <3>1, <1>4, <1>6, <1>8
    <3>2. CASE k \in 1 .. n
      BY <3>2, <2>1, <1>1, <1>6
    <3> QED BY <3>1, <3>2, <1>1, <1>6
  <2> QED BY <2>2, <1>1, <1>6, <1>8, <1>9, <1>10 DEF Closing
<1> QED BY <1>11, <1>12, <1>13, <1>14, <1>17, <1>18, <1>19, <1>20, <1>21
        DEF Inv

\* thread_loop takes out exactly the first unread command and leaves the
\* cursor at the next one.
LEMMA FetchInv ==
  ASSUME Inv, ServerFetch PROVE Inv'
<1> DEFINE n == Len(sent)
           f == Fetched
<1>1. /\ TypeOK /\ n \in Nat /\ f \in Nat /\ f <= n
      /\ f = Len(processed)
      /\ write_count \in Nat /\ read_count \in Nat
      /\ completed_count \in Nat
  BY FetchedType DEF Inv, Cursor, Fetched, TypeOK, ServerFetch
<1>2. f < n
  BY <1>1 DEF Inv, Cursor, ServerFetch
<1> DEFINE k0 == f + 1
<1>3. k0 \in 1 .. n /\ k0 > f
  BY <1>1, <1>2
<1>4. sent[k0].at = read_count
  BY <1>2 DEF Inv, Cursor
<1>5. /\ Len(sent[k0].words) \in Nat
      /\ sent[k0].words \in Seq(Nat)
      /\ CommandEnd(k0) = read_count + Len(sent[k0].words) + 1
  BY <1>1, <1>3, <1>4, SentEntry DEF CommandEnd
<1>6. /\ ring[read_count % Size] = Len(sent[k0].words)
      /\ \A j \in 1 .. Len(sent[k0].words) :
           ring[(read_count + j) % Size] = sent[k0].words[j]
  BY <1>3, <1>4 DEF Inv, Framed
<1>7. tmp_buffer' = sent[k0].words
  <2>1. tmp_buffer' = [j \in 1 .. Len(sent[k0].words) |->
                         ring[(read_count + j) % Size]]
    BY <1>6 DEF ServerFetch, read_ring_command
  <2>2. tmp_buffer' = [j \in 1 .. Len(sent[k0].words) |-> sent[k0].words[j]]
    BY <2>1, <1>6
  <2> QED BY <2>2, <1>5
<1>8. read_count' = CommandEnd(k0)
  BY <1>5, <1>6, <1>1 DEF ServerFetch
<1>9. /\ UNCHANGED <<ring, write_count, completed_count, client, arg, sent,
                     processed>>
      /\ server' = "process" /\ is_idle' = FALSE
  BY DEF ServerFetch
<1>10. Fetched' = k0
  BY <1>1, <1>9 DEF Fetched
<1>11. CommandEnd(k0) <= write_count /\ read_count < CommandEnd(k0)
  BY <1>1, <1>3, <1>5 DEF Inv, Framed
<1>12. /\ \A k \in 1 .. n : CommandEnd(k) \in Nat
       /\ \A k \in 1 .. n : CommandEnd(k)' = CommandEnd(k)
  BY <1>1, <1>9, SentEntry DEF CommandEnd
<1> HIDE DEF k0, f
<1>13. TypeOK'
  <2>1. read_count' \in Nat /\ tmp_buffer' \in Seq(Nat)
    BY <1>3, <1>5, <1>7, <1>8, <1>12
  <2> QED BY <2>1, <1>1, <1>9 DEF TypeOK, ServerPC
<1>14. CountsOrdered'
  <2>1. /\ completed_count <= read_count
        /\ write_count <= read_count + Size
    BY DEF Inv, CountsOrdered
  <2> QED BY <2>1, <1>1, <1>3, <1>8, <1>9, <1>11, <1>12, SizeAssumption
          DEF CountsOrdered
<1>15. FifoDelivery' /\ WaiterHasWaker'
  BY <1>9 DEF Inv, FifoDelivery, WaiterHasWaker
<1>16. Framed'
  <2>1. \A k \in 1 .. n : CommandEnd(k)' <= write_count'
    BY <1>9, <1>12 DEF Inv, Framed
  <2>2. \A k, l \in 1 .. n : k < l => CommandEnd(k)' <= sent'[l].at
    BY <1>9, <1>12 DEF Inv, Framed
  <2>3. ASSUME NEW k \in 1 .. n, k > k0
        PROVE  /\ sent'[k].at >= read_count'
               /\ ring'[sent'[k].at % Size] = Len(sent'[k].words)
               /\ \A j \in 1 .. Len(sent'[k].words) :
                    ring'[(sent'[k].at + j) % Size] = sent'[k].words[j]
    <3>1. CommandEnd(k0) <= sent[k].at /\ sent[k].at \in Nat
      BY <2>3, <1>1, <1>3, SentEntry DEF Inv, Framed
    <3>2. sent[k].at >= read_count'
      BY <3>1, <1>3, <1>8, <1>12
    <3>3. k > Fetched
      BY <2>3, <1>1, <1>3 DEF f, k0
    <3>4. /\ ring[sent[k].at % Size] = Len(sent[k].words)
          /\ \A j \in 1 .. Len(sent[k].words) :
               ring[(sent[k].at + j) % Size] = sent[k].words[j]
      BY <2>3, <3>3 DEF Inv, Framed
    <3> QED BY <3>2, <3>4, <1>9
  <2> QED BY <2>1, <2>2, <2>3, <1>9, <1>10 DEF Framed
<1>17. Cursor'
  <2>1. k0 <= n
    BY <1>1, <1>3
  <2>2. k0 < n => sent[k0 + 1].at = read_count'
    BY <1>1, <1>3, <1>8 DEF Inv, Cursor
  <2>3. k0 = n => read_count' = write_count
    BY <1>3, <1>8 DEF Inv, Cursor
  <2>4. /\ \A k \in 1 .. n : k + 1 <= n => sent'[k + 1].at = CommandEnd(k)'
        /\ n > 0 => CommandEnd(Len(sent))' = write_count'
    BY <1>9, <1>12 DEF Inv, Cursor, CommandEnd
  <2> QED BY <2>1, <2>2, <2>3, <2>4, <1>9, <1>10 DEF Cursor
<1>18. Buffered'
  BY <1>7, <1>9, <1>10 DEF Buffered
<1>19. Lag'
  <2>1. completed_count <= read_count
    BY DEF Inv, CountsOrdered
  <2> QED BY <2>1, <1>1, <1>3, <1>8, <1>9, <1>11, <1>12 DEF Lag
<1>20. Closing'
  <2>1. client # "done"
    BY DEF Inv, Closing, ServerFetch
  <2> QED BY <2>1, <1>9 DEF Inv, Closing
<1> QED BY <1>13, <1>14, <1>15, <1>16, <1>17, <1>18, <1>19, <1>20 DEF Inv

\* Handing the fetched command to the processor extends the delivered prefix.
LEMMA ProcessCommandInv == Inv /\ ProcessCommand => Inv'
<1> SUFFICES ASSUME Inv, ProcessCommand PROVE Inv'
  OBVIOUS
<1> DEFINE m == Len(processed)
<1>1. /\ TypeOK /\ m \in Nat /\ Fetched = m + 1
      /\ Fetched \in 1 .. Len(sent) /\ Len(sent) \in Nat
  BY FetchedType DEF Inv, Cursor, Fetched, TypeOK, ProcessCommand
<1>2. /\ tmp_buffer = sent[m + 1].words /\ tmp_buffer # Stop
      /\ processed' = Append(processed, tmp_buffer)
      /\ server = "process" /\ server' = "complete" /\ ~is_idle
      /\ UNCHANGED <<ring, counts, tmp_buffer, is_idle, client, arg, sent>>
  BY <1>1 DEF Inv, Buffered, ProcessCommand
<1>3. tmp_buffer \in Commands
  BY <1>1, <1>2, SentEntry
<1>4. /\ processed' \in Seq(Commands) /\ Len(processed') = m + 1
      /\ processed'[m + 1] = tmp_buffer
      /\ \A k \in 1 .. m : processed'[k] = processed[k]
  BY <1>1, <1>2, <1>3 DEF TypeOK
<1>5. Fetched' = Fetched
  BY <1>1, <1>2, <1>4 DEF Fetched
<1>6. TypeOK'
  BY <1>1, <1>2, <1>4 DEF TypeOK, counts, ServerPC
<1>7. FifoDelivery'
  <2>1. \A k \in 1 .. Len(processed') : processed'[k] = sent[k].words
    <3> TAKE k \in 1 .. Len(processed')
    <3>1. CASE k = m + 1
      BY <3>1, <1>2, <1>4
    <3>2. CASE k \in 1 .. m
      BY <3>2, <1>4 DEF Inv, FifoDelivery
    <3> QED BY <3>1, <3>2, <1>1, <1>4
  <2> QED BY <2>1, <1>1, <1>2, <1>4 DEF FifoDelivery
<1>8. CountsOrdered' /\ WaiterHasWaker'
  BY <1>2 DEF Inv, CountsOrdered, WaiterHasWaker, counts
<1>9. Framed' /\ Cursor'
  BY <1>2, <1>5, FramePreserved DEF counts
<1>10. Buffered' /\ Lag' /\ Closing'
  BY <1>2, <1>5 DEF Inv, Buffered, Lag, Closing, counts
<1> QED BY <1>6, <1>7, <1>8, <1>9, <1>10 DEF Inv

\* Stop is fetched last, so leaving the loop strands nothing.
LEMMA ProcessStopInv == Inv /\ ProcessStop => Inv'
<1> SUFFICES ASSUME Inv, ProcessStop PROVE Inv'
  OBVIOUS
<1>1. /\ server = "process" /\ server' = "exited" /\ tmp_buffer = Stop
      /\ UNCHANGED <<ring, counts, tmp_buffer, is_idle, client, arg, sent,
                     processed>>
  BY DEF ProcessStop
<1>2. ~is_idle /\ is_idle \in BOOLEAN
  BY <1>1 DEF Inv, Buffered, Stop, TypeOK
<1>3. Fetched' = Fetched /\ Fetched = Len(processed) + 1
  BY <1>1, <1>2 DEF Fetched
<1>4. Fetched \in 1 .. Len(sent)
  BY <1>3, FetchedType DEF Inv, Cursor, TypeOK
<1>5. client \in {"join", "done"} /\ Fetched = Len(sent)
  BY <1>1, <1>2, <1>4 DEF Inv, Buffered, Closing
<1>6. TypeOK' /\ CountsOrdered' /\ FifoDelivery' /\ WaiterHasWaker'
  BY <1>1, <1>5 DEF Inv, TypeOK, CountsOrdered, FifoDelivery,
                    WaiterHasWaker, counts, ServerPC
<1>7. Framed' /\ Cursor'
  BY <1>1, <1>3, FramePreserved DEF counts
<1>8. Buffered' /\ Lag' /\ Closing'
  BY <1>1, <1>2, <1>3, <1>5 DEF Inv, Buffered, Lag, Closing, counts
<1> QED BY <1>6, <1>7, <1>8 DEF Inv

\* Completion catches up with the reader and wakes the client.
LEMMA CompleteInv == Inv /\ Complete => Inv'
<1> SUFFICES ASSUME Inv, Complete PROVE Inv'
  OBVIOUS
<1>1. /\ server = "complete" /\ server' = "check"
      /\ client' = Woken(client) /\ completed_count' = read_count
      /\ UNCHANGED <<ring, write_count, read_count, tmp_buffer, is_idle, arg,
                     sent, processed>>
  BY DEF Complete
<1>2. client \in ClientPC
  BY DEF Inv, TypeOK
<1>3. /\ client' \in ClientPC
      /\ client' \notin {"enqueue_wait", "drain_wait"}
      /\ client' \in {"join", "done"} <=> client \in {"join", "done"}
      /\ client' = "done" <=> client = "done"
  BY <1>1, <1>2 DEF Woken, ClientPC
<1>4. Fetched' = Fetched
  BY <1>1 DEF Fetched
<1>5. TypeOK'
  BY <1>1, <1>3 DEF Inv, TypeOK, ServerPC
<1>6. CountsOrdered'
  <2>1. read_count \in Nat /\ read_count <= write_count
    BY DEF Inv, TypeOK, CountsOrdered
  <2> QED BY <1>1, <2>1 DEF Inv, CountsOrdered
<1>7. FifoDelivery' /\ WaiterHasWaker'
  BY <1>1, <1>3 DEF Inv, FifoDelivery, WaiterHasWaker
<1>8. Framed' /\ Cursor'
  BY <1>1, <1>4, FramePreserved
<1>9. Buffered' /\ Lag' /\ Closing'
  BY <1>1, <1>3, <1>4 DEF Inv, Buffered, Lag, Closing
<1> QED BY <1>5, <1>6, <1>7, <1>8, <1>9 DEF Inv

\* Steps of the client that only move its program counter and argument.
LEMMA ClientQuietInv ==
  ASSUME Inv,
         UNCHANGED <<ring, counts, tmp_buffer, is_idle, server, sent,
                     processed>>,
         client' \in ClientPC, arg' \in Commands \cup {Stop},
         client' \in {"join", "done"} <=> client \in {"join", "done"},
         client' = "done" => server = "exited",
         WaiterHasWaker'
  PROVE  Inv'
<1>1. Fetched' = Fetched
  BY DEF Fetched
<1>2. TypeOK' /\ CountsOrdered' /\ FifoDelivery'
  BY DEF Inv, TypeOK, CountsOrdered, FifoDelivery, counts
<1>3. Framed' /\ Cursor'
  BY <1>1, FramePreserved DEF counts
<1>4. Buffered' /\ Lag' /\ Closing'
  BY <1>1 DEF Inv, Buffered, Lag, Closing, counts
<1> QED BY <1>2, <1>3, <1>4 DEF Inv

\* thread_loop holds no command, at most the MetaIdle it made up itself.
NothingInHand ==
  \/ server \in {"check", "check_wait"}
  \/ server = "process" /\ is_idle /\ tmp_buffer = <<0>>

\* Steps of thread_loop that move no command: blocking, timing out, running
\* the idle callback, waking up.
LEMMA ServerQuietInv ==
  ASSUME Inv, NothingInHand, NothingInHand',
         UNCHANGED <<ring, counts, client, arg, sent, processed>>,
         is_idle' \in BOOLEAN, tmp_buffer' \in Seq(Nat)
  PROVE  Inv'
<1>1. Fetched' = Fetched
  BY DEF Fetched, NothingInHand
<1>2. TypeOK' /\ CountsOrdered' /\ FifoDelivery' /\ WaiterHasWaker'
  BY DEF Inv, TypeOK, CountsOrdered, FifoDelivery, WaiterHasWaker, counts,
         ServerPC, NothingInHand
<1>3. Framed' /\ Cursor'
  BY <1>1, FramePreserved DEF counts
<1>4. Buffered'
  BY DEF Buffered, NothingInHand
<1>5. Lag'
  BY DEF Inv, Lag, counts, NothingInHand
<1>6. Closing'
  BY <1>1 DEF Inv, Closing, NothingInHand
<1> QED BY <1>2, <1>3, <1>4, <1>5, <1>6 DEF Inv

\* A blocked client has an uncompleted command in front of it.
LEMMA BlockedHasWork ==
  ASSUME Inv, EnqueueBlock \/ DrainBlock
  PROVE  completed_count < write_count /\ server # "exited"
<1>1. /\ completed_count \in Nat /\ read_count \in Nat
      /\ write_count \in Nat
      /\ completed_count <= read_count /\ read_count <= write_count
  BY DEF Inv, TypeOK, CountsOrdered
<1>2. server # "exited"
  BY DEF Inv, Closing, EnqueueBlock, DrainBlock
<1>3. CASE EnqueueBlock
  <2>1. Len(arg) \in Nat /\ Len(arg) + 1 <= Size
    <3>1. arg \in Commands \/ arg = << >>
      BY DEF Inv, TypeOK, Stop
    <3>2. CASE arg \in Commands
      BY <3>2, CommandsAssumption
    <3>3. CASE arg = << >>
      BY <3>3, SizeAssumption
    <3> QED BY <3>1, <3>2, <3>3
  <2>2. ~(write_count + Len(arg) + 1 <= read_count + Size)
    BY <1>3 DEF EnqueueBlock, can_enqueue_ring_words
  <2> QED BY <2>1, <2>2, <1>1, <1>2, SizeAssumption
<1>4. CASE DrainBlock
  BY <1>4, <1>1, <1>2 DEF DrainBlock, drained
<1> QED BY <1>3, <1>4

\* Every step of CommandRing preserves the invariant.
LEMMA NextInv == Inv /\ [Next]_vars => Inv'
<1> SUFFICES ASSUME Inv, [Next]_vars PROVE Inv'
  OBVIOUS
<1>0. /\ TypeOK /\ WaiterHasWaker
      /\ arg \in Commands \cup {Stop} /\ client \in ClientPC
      /\ server \in ServerPC /\ is_idle \in BOOLEAN
      /\ tmp_buffer \in Seq(Nat)
  BY DEF Inv, TypeOK
<1>1. CASE CallEnqueue
  BY <1>0, <1>1, ClientQuietInv DEF CallEnqueue, ClientPC, WaiterHasWaker
<1>2. CASE CallDrain
  BY <1>0, <1>2, ClientQuietInv DEF CallDrain, ClientPC, WaiterHasWaker
<1>3. CASE CallTeardown
  BY <1>0, <1>3, ClientQuietInv DEF CallTeardown, ClientPC, WaiterHasWaker
<1>4. CASE EnqueueBlock
  <2>1. WaiterHasWaker'
    BY <1>4, BlockedHasWork DEF EnqueueBlock, WaiterHasWaker, counts
  <2> QED BY <1>0, <1>4, <2>1, ClientQuietInv DEF EnqueueBlock, ClientPC
<1>5. CASE EnqueueWrite
  BY <1>5, EnqueueWriteInv
<1>6. CASE DrainBlock
  <2>1. WaiterHasWaker'
    BY <1>6, BlockedHasWork DEF DrainBlock, WaiterHasWaker, counts
  <2> QED BY <1>0, <1>6, <2>1, ClientQuietInv DEF DrainBlock, ClientPC
<1>7. CASE DrainReturn
  BY <1>0, <1>7, ClientQuietInv DEF DrainReturn, ClientPC, WaiterHasWaker
<1>8. CASE JoinReturn
  BY <1>0, <1>8, ClientQuietInv DEF JoinReturn, ClientPC, WaiterHasWaker
<1>9. CASE ServerFetch
  BY <1>9, FetchInv
<1>10. CASE ServerBlock
  BY <1>0, <1>10, ServerQuietInv DEF ServerBlock, NothingInHand
<1>11. CASE TimeoutIdle
  BY <1>0, <1>11, ServerQuietInv DEF TimeoutIdle, NothingInHand
<1>13. CASE ProcessCommand
  BY <1>13, ProcessCommandInv
<1>14. CASE ProcessIdle
  BY <1>0, <1>14, ServerQuietInv
     DEF ProcessIdle, NothingInHand, Inv, Buffered
<1>15. CASE ProcessStop
  BY <1>15, ProcessStopInv
<1>16. CASE Complete
  BY <1>16, CompleteInv
<1>17. CASE SpuriousWakeup
  <2>1. CASE Woken(client) # client /\ client' = Woken(client)
             /\ UNCHANGED <<server, ring, counts, tmp_buffer, is_idle, arg,
                            sent, processed>>
    <3>1. /\ client' \in {"enqueue", "drain"}
          /\ client \in {"enqueue_wait", "drain_wait"}
      BY <2>1, <1>0 DEF Woken, ClientPC
    <3> QED BY <1>0, <2>1, <3>1, ClientQuietInv DEF ClientPC, WaiterHasWaker
  <2>2. CASE Woken(server) # server /\ server' = Woken(server)
             /\ UNCHANGED <<client, ring, counts, tmp_buffer, is_idle, arg,
                            sent, processed>>
    <3>1. server = "check_wait" /\ server' = "check"
      BY <2>2, <1>0 DEF Woken, ServerPC
    <3> QED BY <1>0, <2>2, <3>1, ServerQuietInv DEF NothingInHand
  <2> QED BY <1>17, <2>1, <2>2 DEF SpuriousWakeup
<1>18. CASE UNCHANGED vars
  BY <1>0, <1>18, ClientQuietInv DEF vars, WaiterHasWaker, counts, Inv,
                                     Closing
<1>19. CASE Terminated
  BY <1>18, <1>19 DEF Terminated
<1> QED BY <1>1, <1>2, <1>3, <1>4, <1>5, <1>6, <1>7, <1>8, <1>9, <1>10, <1>11,
           <1>13, <1>14, <1>15, <1>16, <1>17, <1>18, <1>19
        DEF Next, ClientCall, ClientStep, ServerStep

\* The inductive invariant holds throughout.
THEOREM Invariance == SafeSpec => []Inv
  BY InitInv, NextInv, PTL DEF SafeSpec

\* The variables keep their types and the counters their order: the writer
\* never laps the reader, whatever the size of the ring.
THEOREM CountsSafe == SafeSpec => [](TypeOK /\ CountsOrdered)
<1>1. Inv => TypeOK /\ CountsOrdered
  BY DEF Inv
<1> QED BY <1>1, Invariance, PTL

\* Commands reach the processor whole, in order and once each.
THEOREM FifoSafe == SafeSpec => []FifoDelivery
<1>1. Inv => FifoDelivery
  BY DEF Inv
<1> QED BY <1>1, Invariance, PTL

\* A client blocked in enqueue_command or drain always has a completion to
\* come that wakes it.
THEOREM WakeupSafe == SafeSpec => []WaiterHasWaker
<1>1. Inv => WaiterHasWaker
  BY DEF Inv
<1> QED BY <1>1, Invariance, PTL

\* drain() returns only when everything enqueued has been processed.
LEMMA DrainStep ==
  Inv /\ [Next]_vars =>
    [client = "drain" /\ client' = "run" => Len(processed) = Len(sent)]_vars
<1> SUFFICES ASSUME Inv, [Next]_vars, client = "drain", client' = "run"
             PROVE  Len(processed) = Len(sent)
  OBVIOUS
<1>1. DrainReturn
  BY DEF Next, ClientCall, ClientStep, ServerStep, CallEnqueue, CallDrain,
         CallTeardown, EnqueueBlock, EnqueueWrite, DrainBlock, DrainReturn,
         JoinReturn, ServerFetch, ServerBlock, TimeoutIdle,
         ProcessCommand, ProcessIdle, ProcessStop, Complete, Woken,
         SpuriousWakeup, Terminated, vars
<1>2. /\ completed_count \in Nat /\ read_count \in Nat
      /\ write_count \in Nat /\ Len(sent) \in Nat /\ Fetched \in Nat
      /\ completed_count <= read_count /\ read_count <= write_count
      /\ write_count = completed_count
  BY <1>1, FetchedType DEF Inv, TypeOK, CountsOrdered, DrainReturn, drained
<1>3. completed_count = read_count /\ read_count = write_count
  BY <1>2
<1>4. Fetched = Len(processed)
  BY <1>2, <1>3 DEF Inv, Lag, Fetched
<1>5. ~(Fetched < Len(sent))
  <2>1. SUFFICES ASSUME Fetched < Len(sent) PROVE FALSE
    OBVIOUS
  <2>2. Fetched + 1 \in 1 .. Len(sent)
    BY <2>1, <1>2
  <2>3. /\ sent[Fetched + 1].at = read_count
        /\ CommandEnd(Fetched + 1) <= write_count
    BY <2>1, <2>2 DEF Inv, Cursor, Framed
  <2>4. CommandEnd(Fetched + 1) > read_count
    BY <2>2, <2>3, <1>2, SentEntry DEF Inv, CommandEnd
  <2>5. CommandEnd(Fetched + 1) \in Nat
    BY <2>2, SentEntry DEF Inv
  <2> QED BY <2>3, <2>4, <2>5, <1>2, <1>3
<1> QED BY <1>2, <1>4, <1>5 DEF Inv, Cursor

THEOREM DrainSafe == SafeSpec => DrainIsBarrier
  BY DrainStep, Invariance, PTL DEF SafeSpec, DrainIsBarrier

-----------------------------------------------------------------------------
(* The ring implements the queue *)

\* The queue's sent and client, as the refinement mapping has them.
Words == [k \in 1 .. Len(sent) |-> sent[k].words]
Caller == CASE client \in {"enqueue", "enqueue_wait"} ->
                 IF arg = Stop THEN "close" ELSE "enqueue"
            [] client = "drain_wait" -> "drain"
            [] OTHER -> client

\* What the queue is told of the commands written.
LEMMA WordsLength ==
  ASSUME TypeOK
  PROVE  /\ Words \in Seq(Commands \cup {Stop})
         /\ Len(Words) = Len(sent) /\ Len(sent) \in Nat
         /\ \A k \in 1 .. Len(sent) : Words[k] = sent[k].words
<1>1. Len(sent) \in Nat
  BY DEF TypeOK
<1>2. \A k \in 1 .. Len(sent) : sent[k].words \in Commands \cup {Stop}
  BY SentEntry
<1> QED BY <1>1, <1>2 DEF Words

LEMMA WordsWritten ==
  ASSUME TypeOK, TypeOK', EnqueueWrite
  PROVE  Words' = Append(Words, arg)
<1> DEFINE n == Len(sent)
           e == [at |-> write_count, words |-> arg]
<1>1. /\ n \in Nat /\ sent' = Append(sent, e)
      /\ sent \in Seq([at : Nat, words : Commands \cup {Stop}])
      /\ e \in [at : Nat, words : Commands \cup {Stop}]
  BY DEF TypeOK, EnqueueWrite
<1>2. /\ Len(sent') = n + 1 /\ sent'[n + 1] = e
      /\ \A k \in 1 .. n : sent'[k] = sent[k]
  BY <1>1, AppendProperties
<1>3. Words' = [k \in 1 .. n + 1 |-> sent'[k].words]
  BY <1>2 DEF Words
<1>4. Words \in Seq(Commands \cup {Stop}) /\ Len(Words) = n
      /\ \A k \in 1 .. n : Words[k] = sent[k].words
  BY WordsLength
<1>5. e.words = arg
  OBVIOUS
<1> HIDE DEF e, n
<1>6. arg \in Commands \cup {Stop}
  BY DEF TypeOK
<1>7. \A k \in 1 .. n + 1 : sent'[k].words = IF k <= n THEN Words[k] ELSE arg
  <2> TAKE k \in 1 .. n + 1
  <2>1. CASE k = n + 1
    BY <1>1, <1>2, <1>5, <2>1
  <2>2. CASE k \in 1 .. n
    <3>1. sent'[k] = sent[k] /\ Words[k] = sent[k].words
      BY <1>2, <1>4, <2>2
    <3>2. n \in Nat /\ k <= n
      BY <1>1, <2>2
    <3>3. sent'[k].words = Words[k]
      BY <3>1
    <3> HIDE <2>2
    <3> QED BY <3>2, <3>3
  <2>3. n \in Nat
    BY <1>1
  <2>4. k = n + 1 \/ k \in 1 .. n
    BY <2>3
  <2> QED BY <2>1, <2>2, <2>4
<1>8. Append(Words, arg) = [k \in 1 .. n + 1 |-> IF k <= n THEN Words[k] ELSE arg]
  <2>1. Append(Words, arg) = [k \in 1 .. Len(Words) + 1 |->
                                IF k <= Len(Words) THEN Words[k] ELSE arg]
    <3>1. /\ Append(Words, arg) \in Seq(Commands \cup {Stop})
          /\ Len(Append(Words, arg)) = Len(Words) + 1
          /\ Append(Words, arg)[Len(Words) + 1] = arg
          /\ \A k \in 1 .. Len(Words) : Append(Words, arg)[k] = Words[k]
      BY <1>4, <1>6, AppendProperties
    <3> DEFINE a == Append(Words, arg)
               b == [k \in 1 .. Len(Words) + 1 |->
                       IF k <= Len(Words) THEN Words[k] ELSE arg]
    <3>2. Len(Words) \in Nat
      BY <1>1, <1>4
    <3>3. a = [k \in 1 .. Len(Words) + 1 |-> a[k]]
      <4>1. a \in [1 .. Len(a) -> Commands \cup {Stop}]
        BY <3>1, SeqDef, LenProperties
      <4> HIDE DEF a
      <4> QED BY <3>1, <4>1 DEF a
    <3>4. \A k \in 1 .. Len(Words) + 1 : a[k] = b[k]
      <4> TAKE k \in 1 .. Len(Words) + 1
      <4>1. CASE k = Len(Words) + 1
        BY <3>1, <3>2, <4>1
      <4>2. CASE k \in 1 .. Len(Words)
        BY <3>1, <3>2, <4>2
      <4> QED BY <3>2, <4>1, <4>2
    <3> HIDE DEF a
    <3>5. a = b
      BY <3>3, <3>4
    <3> QED BY <3>5 DEF a
  <2> QED BY <1>4, <2>1
<1> QED BY <1>3, <1>7, <1>8

LEMMA QueueInit == Init => Queue!Init
<1> SUFFICES ASSUME Init PROVE Queue!Init
  OBVIOUS
<1>1. Words = << >>
  BY DEF Init, Words
<1>2. Caller = "run" /\ processed = << >>
  BY DEF Init, Caller
<1> QED BY <1>1, <1>2 DEF Queue!Init, Words, Caller

\* A step that writes no command and executes none is a call, a return or
\* nothing to the queue.
LEMMA QuietForQueue ==
  ASSUME UNCHANGED <<sent, processed>>, Caller' = Caller
  PROVE  UNCHANGED Queue!vars
<1>1. Words' = Words
  BY DEF Words
<1> QED BY <1>1 DEF Queue!vars, Words, Caller

LEMMA ClientQueue ==
  ASSUME Inv, TypeOK', ClientCall \/ ClientStep
  PROVE  [Queue!Next]_(Queue!vars)
<1>1. TypeOK /\ client \in ClientPC /\ arg \in Commands \cup {Stop}
  BY DEF Inv, TypeOK
<1>2. Stop \notin Commands
  BY CommandsAssumption DEF Stop
<1>3. ASSUME NEW op, Caller = "run", Caller' = op, UNCHANGED <<sent, processed>>,
             op \in {"enqueue", "drain", "close"}
      PROVE  Queue!Next
  <2>1. Words' = Words
    BY <1>3 DEF Words
  <2>2. Queue!Call(op)
    BY <1>3, <2>1 DEF Queue!Call, Words, Caller
  <2> QED BY <1>3, <2>2 DEF Queue!Next
<1>4. CASE CallEnqueue
  <2>1. Caller = "run" /\ Caller' = "enqueue"
    BY <1>2, <1>4 DEF CallEnqueue, Caller
  <2> QED BY <1>3, <1>4, <2>1 DEF CallEnqueue
<1>5. CASE CallDrain
  <2>1. Caller = "run" /\ Caller' = "drain"
    BY <1>5 DEF CallDrain, Caller
  <2> QED BY <1>3, <1>5, <2>1 DEF CallDrain
<1>6. CASE CallTeardown
  <2>1. Caller = "run" /\ Caller' = "close"
    BY <1>6 DEF CallTeardown, Caller
  <2> QED BY <1>3, <1>6, <2>1 DEF CallTeardown
<1>7. CASE EnqueueBlock \/ DrainBlock
  <2>1. Caller' = Caller
    BY <1>7 DEF EnqueueBlock, DrainBlock, Caller
  <2> QED BY <1>7, <2>1, QuietForQueue DEF EnqueueBlock, DrainBlock
<1>8. CASE EnqueueWrite
  <2>1. Words' = Append(Words, arg) /\ processed' = processed
    BY <1>1, <1>8, WordsWritten DEF EnqueueWrite
  <2>2. CASE arg = Stop
    <3>1. Caller = "close" /\ Caller' = "join"
      BY <1>8, <2>2 DEF EnqueueWrite, Caller
    <3>2. Queue!CloseBegin
      BY <2>1, <2>2, <3>1 DEF Queue!CloseBegin, Queue!Stop, Stop, Words, Caller
    <3> QED BY <3>2 DEF Queue!Next
  <2>3. CASE arg # Stop
    <3>1. Caller = "enqueue" /\ Caller' = "run" /\ arg \in Commands
      BY <1>1, <1>8, <2>3 DEF EnqueueWrite, Caller
    <3>2. Queue!Accept
      BY <2>1, <3>1 DEF Queue!Accept, Words, Caller
    <3> QED BY <3>2 DEF Queue!Next
  <2> QED BY <2>2, <2>3
<1>9. CASE DrainReturn
  <2>1. Caller = "drain" /\ Caller' = "run" /\ UNCHANGED <<sent, processed>>
    BY <1>9 DEF DrainReturn, Caller
  <2>2. Len(processed) = Len(sent)
    <3>1. [client = "drain" /\ client' = "run" => Len(processed) = Len(sent)]_vars
      BY <1>9, DrainStep DEF Next, ClientStep
    <3>2. client = "drain" /\ client' = "run"
      BY <1>9 DEF DrainReturn
    <3>3. vars' # vars
      BY <3>2 DEF vars
    <3> QED BY <3>1, <3>2, <3>3
  <2>3. Words' = Words /\ Len(Words) = Len(sent)
    BY <1>1, <2>1, WordsLength DEF Words
  <2>4. Queue!DrainReturn
    BY <2>1, <2>2, <2>3 DEF Queue!DrainReturn, Queue!AllProcessed, Words, Caller
  <2> QED BY <2>4 DEF Queue!Next
<1>10. CASE JoinReturn
  <2>1. Caller = "join" /\ Caller' = "done" /\ UNCHANGED <<sent, processed>>
    BY <1>10 DEF JoinReturn, Caller
  <2>2. Len(processed) + 1 = Len(sent)
    BY <1>10 DEF JoinReturn, Inv, Closing, Fetched
  <2>3. Words' = Words /\ Len(Words) = Len(sent)
    BY <1>1, <2>1, WordsLength DEF Words
  <2>4. Queue!CloseReturn
    BY <2>1, <2>2, <2>3 DEF Queue!CloseReturn, Words, Caller
  <2> QED BY <2>4 DEF Queue!Next
<1> QED BY <1>4, <1>5, <1>6, <1>7, <1>8, <1>9, <1>10 DEF ClientCall, ClientStep

\* The processor is given the next command of the queue.
LEMMA ProcessQueue ==
  ASSUME Inv, ProcessCommand
  PROVE  Queue!Process
<1> DEFINE m == Len(processed)
<1>1. /\ TypeOK /\ m \in Nat /\ Fetched = m + 1 /\ Fetched \in 1 .. Len(sent)
      /\ Len(sent) \in Nat
  BY FetchedType DEF Inv, Cursor, Fetched, TypeOK, ProcessCommand
<1>2. /\ tmp_buffer = sent[m + 1].words /\ tmp_buffer # Stop
      /\ processed' = Append(processed, tmp_buffer)
      /\ UNCHANGED <<client, arg, sent>>
  BY <1>1 DEF Inv, Buffered, ProcessCommand
<1>3. /\ Len(Words) = Len(sent) /\ Words[m + 1] = tmp_buffer
      /\ Words' = Words /\ Caller' = Caller
  BY <1>1, <1>2, WordsLength DEF Words, Caller
<1> QED BY <1>1, <1>2, <1>3 DEF Queue!Process, Queue!Stop, Stop, Words, Caller

\* A woken thread is, to the queue, where it was.
LEMMA WokenQueue ==
  ASSUME client \in ClientPC, client' = Woken(client), arg' = arg
  PROVE  Caller' = Caller
BY DEF Woken, Caller, ClientPC

LEMMA QueueStep == Inv /\ Inv' /\ [Next]_vars => [Queue!Next]_(Queue!vars)
<1> SUFFICES ASSUME Inv, Inv', [Next]_vars PROVE [Queue!Next]_(Queue!vars)
  OBVIOUS
<1>1. client \in ClientPC /\ TypeOK'
  BY DEF Inv, TypeOK
<1>2. CASE ClientCall \/ ClientStep
  BY <1>1, <1>2, ClientQueue
<1>3. CASE ServerStep
  <2>1. CASE ProcessCommand
    BY <2>1, ProcessQueue DEF Queue!Next
  <2>2. CASE Complete
    BY <1>1, <2>2, WokenQueue, QuietForQueue DEF Complete
  <2>3. CASE ServerFetch \/ ServerBlock \/ TimeoutIdle \/ ProcessIdle \/ ProcessStop
    <3>1. UNCHANGED <<sent, processed, client, arg>>
      BY <2>3 DEF ServerFetch, ServerBlock, TimeoutIdle, ProcessIdle, ProcessStop
    <3>2. Caller' = Caller
      BY <3>1 DEF Caller
    <3> QED BY <3>1, <3>2, QuietForQueue
  <2> QED BY <1>3, <2>1, <2>2, <2>3 DEF ServerStep
<1>4. CASE SpuriousWakeup
  <2>1. UNCHANGED <<sent, processed, arg>>
    BY <1>4 DEF SpuriousWakeup
  <2>2. Caller' = Caller
    <3>1. CASE client' = Woken(client)
      BY <1>1, <2>1, <3>1, WokenQueue
    <3>2. CASE client' = client
      BY <2>1, <3>2 DEF Caller
    <3> QED BY <1>4, <3>1, <3>2 DEF SpuriousWakeup
  <2> QED BY <2>1, <2>2, QuietForQueue
<1>5. CASE Terminated \/ UNCHANGED vars
  <2>1. UNCHANGED <<sent, processed, client, arg>>
    BY <1>5 DEF Terminated, vars
  <2>2. Caller' = Caller
    BY <2>1 DEF Caller
  <2> QED BY <2>1, <2>2, QuietForQueue
<1> QED BY <1>2, <1>3, <1>4, <1>5 DEF Next

\* The ring implements the queue: with mutex, condition variable, time-outs and
\* spurious wake-ups it does nothing that a queue with a barrier would not do.
\* (That its calls return is checked by TLC.)
THEOREM ImplementsQueueSafely == SafeSpec => Queue!SafeSpec
<1>1. SafeSpec => []Inv
  BY Invariance
<1> QED BY <1>1, QueueInit, QueueStep, PTL DEF SafeSpec, Queue!SafeSpec

=============================================================================
