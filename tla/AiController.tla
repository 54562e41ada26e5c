---------------------------- MODULE AiController ----------------------------
(***************************************************************************)
(* The audio interface (ai/ai_controller.c): a two-entry DMA FIFO whose    *)
(* entries end by a timed AI_INT event, and the samples it hands to the    *)
(* audio backend, partly when the guest reads AI_LEN, the rest at the end. *)
(*                                                                         *)
(* Count is a wrapping register of modulus M (2^32).  Lengths are in units *)
(* of 8 bytes, the granularity of AI_LEN; a buffer is known by its serial  *)
(* number.  The event queue is reduced to the one AI_INT event: its count, *)
(* and the time really left.  The DAC rate is known by the duration, in    *)
(* counts, that get_dma_duration gives one unit of length under it.        *)
(***************************************************************************)
EXTENDS Integers, Sequences

CONSTANTS M,           \* modulus of Count
          Lengths,     \* buffer lengths a guest asks for
          Rates,       \* counts per unit of length, one per DAC rate
          MaxBuffers   \* bound: buffers pushed

ASSUME ConstantsAssumption ==
  /\ Rates \subseteq Nat \ {0} /\ Rates # {} /\ MaxBuffers \in Nat
  /\ M \in Nat \ {0} /\ Lengths \subseteq Nat
  /\ \A n \in Lengths, r \in Rates : n * r < M

None == [id |-> 0, length |-> 0, duration |-> 0]

VARIABLES
  count,      \* CP0 Count
  event,      \* AI_INT in the event queue: [at, left], at = 0 with left = -1: none
  fifo0, fifo1, busy, full,
  last_read,
  rate,       \* AI_DACRATE (and AI_BITRATE)
  samples_format_changed,
  format,     \* the rate last given to the audio backend
  intr,       \* the AI bit of MI_INTR
  sent,       \* buffers pushed so far
  played,     \* history: what was handed to the backend of the first entry
  crossed,    \* history: the DMA under way runs over the wrap of Count
  done,       \* history: ids of the buffers whose DMA ended, in order
  faults      \* history: buffers not played exactly once though not crossed

vars == <<count, event, fifo0, fifo1, busy, full, last_read, rate,
          samples_format_changed, format, intr, sent, played, crossed, done, faults>>

NoEvent == [at |-> 0, left |-> -1]

-----------------------------------------------------------------------------
get_dma_duration(length) == length * rate

\* get_remaining_dma_length, in units: from the count of the queued event.
get_remaining_dma_length ==
  IF \/ fifo0.duration = 0
     \/ event.at = 0
     \/ event.at <= count
  THEN 0
  ELSE ((event.at - count) * fifo0.length) \div fifo0.duration

\* The backend learns a new sample format when the next DMA starts.
set_format ==
  /\ format' = IF samples_format_changed THEN rate ELSE format
  /\ samples_format_changed' = FALSE

\* do_dma: start an entry and schedule its end.
do_dma(dma) ==
  /\ set_format
  /\ last_read' = dma.length
  /\ event' = [at |-> (count + dma.duration) % M, left |-> dma.duration]
  /\ played' = 0
  /\ crossed' = (count + dma.duration >= M)

Buffer(length) ==
  [id |-> sent + 1, length |-> length, duration |-> get_dma_duration(length)]

no_dma == UNCHANGED <<last_read, event, played, crossed, format,
                      samples_format_changed>>

\* A write of AI_LEN.  The second entry is overwritten when it is in use.
fifo_push(length) ==
  IF busy
  THEN /\ fifo1' = Buffer(length) /\ full' = TRUE
       /\ no_dma /\ UNCHANGED <<fifo0, busy>>
  ELSE /\ fifo0' = Buffer(length) /\ busy' = TRUE
       /\ do_dma(Buffer(length))
       /\ UNCHANGED <<fifo1, full>>

\* Mutant: a full FIFO is popped to idle.
fifo_pop_all ==
  /\ busy' = FALSE /\ event' = NoEvent
  /\ UNCHANGED <<fifo0, fifo1, full, last_read, played, crossed, format,
                 samples_format_changed>>

fifo_pop ==
  IF full
  THEN /\ fifo0' = fifo1 /\ full' = FALSE
       /\ do_dma(fifo1)
       /\ UNCHANGED <<fifo1, busy>>
  ELSE /\ busy' = FALSE /\ event' = NoEvent
       /\ UNCHANGED <<fifo0, fifo1, full, last_read, played, crossed, format,
                      samples_format_changed>>

-----------------------------------------------------------------------------
sound == <<rate, samples_format_changed, format>>

\* Guest code runs; the event is dispatched before Count passes it.
Tick ==
  /\ event.left # 0
  /\ count' = (count + 1) % M
  /\ event' = IF event.left > 0 THEN [event EXCEPT !.left = @ - 1] ELSE event
  /\ UNCHANGED <<fifo0, fifo1, busy, full, last_read, sound, intr, sent, played,
                 crossed, done, faults>>

WriteLen ==
  /\ sent < MaxBuffers /\ sent' = sent + 1
  /\ \E n \in Lengths : fifo_push(n)
  /\ UNCHANGED <<count, rate, intr, done, faults>>

\* A write of AI_DACRATE: the change is only noted.
WriteDacRate ==
  /\ \E r \in Rates :
       /\ rate' = r
       /\ samples_format_changed' = (samples_format_changed \/ r # rate)
  /\ UNCHANGED <<count, event, fifo0, fifo1, busy, full, last_read, format, intr,
                 sent, played, crossed, done, faults>>

\* Mutant: last_read is not moved.
ReadLenAgain ==
  /\ LET value == get_remaining_dma_length
     IN  played' = IF value < last_read THEN played + last_read - value ELSE played
  /\ UNCHANGED <<count, event, fifo0, fifo1, busy, full, last_read, sound, intr,
                 sent, crossed, done, faults>>

\* A read of AI_LEN hands over the samples since the last read.
ReadLen ==
  /\ LET value == get_remaining_dma_length
     IN  /\ last_read' = value
         /\ played' = IF value < last_read THEN played + last_read - value ELSE played
  /\ UNCHANGED <<count, event, fifo0, fifo1, busy, full, sound, intr, sent,
                 crossed, done, faults>>

WriteStatus ==
  /\ intr' = FALSE
  /\ UNCHANGED <<count, event, fifo0, fifo1, busy, full, last_read, sound, sent,
                 played, crossed, done, faults>>

\* The AI_INT event: the rest of the samples, the next entry, the interrupt.
ai_end_of_dma_event ==
  /\ event.left = 0
  /\ done' = Append(done, fifo0.id)
  /\ faults' = IF ~crossed /\ played + last_read # fifo0.length
               THEN faults \cup {fifo0.id} ELSE faults
  /\ fifo_pop
  /\ intr' = TRUE
  /\ UNCHANGED <<count, rate, sent>>

\* nmi_int_handler sets Count to 0, drops every event and clears AI_STATUS.
Nmi ==
  /\ count' = 0 /\ event' = NoEvent /\ busy' = FALSE /\ full' = FALSE
  /\ UNCHANGED <<fifo0, fifo1, last_read, sound, intr, sent, played, crossed,
                 done, faults>>

\* poweron_ai, with Count anywhere.
Init ==
  /\ count \in 0 .. M - 1 /\ event = NoEvent
  /\ fifo0 = None /\ fifo1 = None /\ busy = FALSE /\ full = FALSE
  /\ last_read = 0 /\ intr = FALSE /\ sent = 0
  /\ rate \in Rates /\ format = rate /\ samples_format_changed = FALSE
  /\ played = 0 /\ crossed = FALSE /\ done = << >> /\ faults = {}

Next ==
  \/ Tick \/ WriteLen \/ WriteDacRate \/ ReadLen \/ WriteStatus
  \/ ai_end_of_dma_event \/ Nmi

SafeSpec == Init /\ [][Next]_vars

\* The emulated CPU keeps running and dispatches due events.
Spec == SafeSpec /\ WF_vars(Tick) /\ WF_vars(ai_end_of_dma_event)

-----------------------------------------------------------------------------
(* Properties *)

\* Every register and history variable has its type.
TypeOK ==
  /\ count \in 0 .. M - 1 /\ event.at \in 0 .. M - 1 /\ event.left \in -1 .. M - 1
  /\ {busy, full, intr, crossed, samples_format_changed} \subseteq BOOLEAN
  /\ {rate, format} \subseteq Rates
  /\ last_read \in Nat /\ played \in Nat /\ sent \in 0 .. MaxBuffers
  /\ fifo0.id \in 0 .. sent /\ fifo1.id \in 0 .. sent

\* AI_STATUS tells the truth: busy exactly while an end-of-DMA event is
\* queued, full only when busy, and the entry waiting was pushed after the
\* one under way.
StatusMatchesDma ==
  /\ TypeOK
  /\ busy <=> event.left >= 0
  /\ full => busy /\ fifo1.id > fifo0.id

\* By the end of its DMA, a buffer whose DMA did not run over the wrap of
\* Count has been handed to the backend exactly once, however often AI_LEN was
\* read and DACRATE written meanwhile, and buffers end in the order they were
\* pushed.  (Over the wrap the queued count is below
\* Count: a read returns 0 and everything is handed over early, and a read after
\* the wrap starts it again.  And ai_end_of_dma_event leaves last_read as it is:
\* the first read of AI_LEN when idle hands the last part over once more.)
PlayedOnce ==
  /\ faults = {}
  /\ \A i, j \in 1 .. Len(done) : i < j => done[i] < done[j]

\* A DMA under way ends: the FIFO never stays full, whatever the guest reads.
FullDrains == []<>(~full)
=============================================================================
