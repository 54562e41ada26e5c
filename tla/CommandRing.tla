----------------------------- MODULE CommandRing -----------------------------
(***************************************************************************)
(* The ring that carries RDP commands from the emulation thread to the     *)
(* rendering thread (parallel-rdp/command_ring.cpp and its policy header). *)
(*                                                                         *)
(* Two threads share one mutex and one condition variable.  The client is  *)
(* the emulation thread inside CommandRing::enqueue_command, drain or the  *)
(* destructor; the server is CommandRing::thread_loop.  Everything shared  *)
(* is touched with the mutex held, so a critical section is one step.  A   *)
(* thread that blocks in cond.wait sits at a "_wait" location until        *)
(* notify_one picks it, a spurious wake-up happens or, for the server's    *)
(* wait_for, the 500 us pass.                                              *)
(*                                                                         *)
(* Words are plain numbers, headers and payload alike, exactly as in the   *)
(* uint32_t array: a reader that lost the framing would take a payload     *)
(* word for a length.  sent and processed are history variables.           *)
(***************************************************************************)
EXTENDS Naturals, Integers, Sequences

CONSTANTS Size,       \* words in the ring (4 * 1024 in rdp_device.cpp)
          Commands,   \* the commands a client may enqueue
          MaxSent     \* bound: commands enqueued in one behaviour

ASSUME SizeAssumption == Size \in Nat \ {0}

\* Every command fits: an RDP command is at most 44 words, the ring 4096.
ASSUME CommandsAssumption ==
  Commands \subseteq {c \in Seq(Nat) : Len(c) >= 1 /\ Len(c) + 1 <= Size}

ASSUME MaxSentAssumption == MaxSent \in Nat

\* enqueue_command(0, nullptr): the request to leave thread_loop.
Stop == << >>

VARIABLES ring,             \* std::vector<uint32_t> ring
          write_count,
          read_count,
          completed_count,
          tmp_buffer,       \* thread_loop's local: the command being executed
          is_idle,          \* thread_loop's local: a MetaIdle, not a command
          client,           \* where the emulation thread is
          server,           \* where thread_loop is
          arg,              \* the words passed to enqueue_command
          sent,             \* history: [at, words] of each command written
          processed         \* history: commands handed to the processor

counts == <<write_count, read_count, completed_count>>
vars == <<ring, counts, tmp_buffer, is_idle, client, server, arg, sent,
          processed>>

ClientPC == {"run", "enqueue", "enqueue_wait", "drain", "drain_wait",
             "join", "done"}
ServerPC == {"check", "check_wait", "process", "complete", "exited"}

-----------------------------------------------------------------------------
(* command_ring_policy.hpp *)

\* Mutant: no room kept for the header word.
can_enqueue_no_header(num_words) ==
  write_count + num_words <= read_count + Size

can_enqueue_ring_words(num_words) ==
  write_count + num_words + 1 <= read_count + Size

\* The ring after a command is written at position at: header, then words.
write_ring_command(at, words) ==
  [i \in 0 .. Size - 1 |->
     LET j == (i - at) % Size
     IN  IF j = 0 THEN Len(words)
         ELSE IF j <= Len(words) THEN words[j] ELSE ring[i]]

\* The words of the command whose header is at position at.
read_ring_command(at) ==
  [j \in 1 .. ring[at % Size] |-> ring[(at + j) % Size]]

-----------------------------------------------------------------------------
(* The condition variable: at most one thread waits while the other runs,  *)
(* so notify_one wakes the other thread if it waits and is lost otherwise. *)

Woken(pc) ==
  CASE pc = "enqueue_wait" -> "enqueue"
    [] pc = "drain_wait"   -> "drain"
    [] pc = "check_wait"   -> "check"
    [] OTHER               -> pc

Init ==
  /\ ring = [i \in 0 .. Size - 1 |-> 0]
  /\ write_count = 0 /\ read_count = 0 /\ completed_count = 0
  /\ tmp_buffer = << >>
  /\ is_idle = FALSE
  /\ client = "run"
  /\ server = "check"
  /\ arg = << >>
  /\ sent = << >>
  /\ processed = << >>

-----------------------------------------------------------------------------
(* The emulation thread *)

CallEnqueue ==
  /\ client = "run"
  /\ Len(sent) < MaxSent
  /\ \E c \in Commands : arg' = c
  /\ client' = "enqueue"
  /\ UNCHANGED <<ring, counts, tmp_buffer, is_idle, server, sent, processed>>

CallDrain ==
  /\ client = "run"
  /\ client' = "drain"
  /\ UNCHANGED <<ring, counts, tmp_buffer, is_idle, server, arg, sent,
                 processed>>

\* ~CommandRing: teardown_thread enqueues Stop, then joins.
CallTeardown ==
  /\ client = "run"
  /\ arg' = Stop
  /\ client' = "enqueue"
  /\ UNCHANGED <<ring, counts, tmp_buffer, is_idle, server, sent, processed>>

\* enqueue_command with the mutex held: wait for room, else write and notify.
EnqueueBlock ==
  /\ client = "enqueue"
  /\ ~can_enqueue_ring_words(Len(arg))
  /\ client' = "enqueue_wait"
  /\ UNCHANGED <<ring, counts, tmp_buffer, is_idle, server, arg, sent,
                 processed>>

EnqueueWrite ==
  /\ client = "enqueue"
  /\ can_enqueue_ring_words(Len(arg))
  /\ ring' = write_ring_command(write_count, arg)
  /\ write_count' = write_count + Len(arg) + 1
  /\ sent' = Append(sent, [at |-> write_count, words |-> arg])
  /\ client' = IF arg = Stop THEN "join" ELSE "run"
  /\ server' = Woken(server)
  /\ UNCHANGED <<read_count, completed_count, tmp_buffer, is_idle, arg,
                 processed>>

\* Mutant: an empty ring taken for a drained one.
drained_when_empty == write_count = read_count

\* The predicate of drain().
drained == write_count = completed_count

DrainBlock ==
  /\ client = "drain"
  /\ ~drained
  /\ client' = "drain_wait"
  /\ UNCHANGED <<ring, counts, tmp_buffer, is_idle, server, arg, sent,
                 processed>>

DrainReturn ==
  /\ client = "drain"
  /\ drained
  /\ client' = "run"
  /\ UNCHANGED <<ring, counts, tmp_buffer, is_idle, server, arg, sent,
                 processed>>

\* thr.join() returns.
JoinReturn ==
  /\ client = "join"
  /\ server = "exited"
  /\ client' = "done"
  /\ UNCHANGED <<ring, counts, tmp_buffer, is_idle, server, arg, sent,
                 processed>>

-----------------------------------------------------------------------------
(* thread_loop *)

\* The wait_for predicate holds: copy the command out of the ring.
ServerFetch ==
  /\ server = "check"
  /\ write_count > read_count
  /\ tmp_buffer' = read_ring_command(read_count)
  /\ read_count' = read_count + ring[read_count % Size] + 1
  /\ is_idle' = FALSE
  /\ server' = "process"
  /\ UNCHANGED <<ring, write_count, completed_count, client, arg, sent,
                 processed>>

ServerBlock ==
  /\ server = "check"
  /\ ~(write_count > read_count)
  /\ server' = "check_wait"
  /\ UNCHANGED <<ring, counts, tmp_buffer, is_idle, client, arg, sent,
                 processed>>

\* 500 us without a notification: the predicate is evaluated once more.  A
\* command written meanwhile has notified the server, which is then at
\* "check" and fetches it, timed out or not.
TimeoutIdle ==
  /\ server = "check_wait"
  /\ ~(write_count > read_count)
  /\ tmp_buffer' = <<0>>           \* MetaIdle, one word
  /\ is_idle' = TRUE
  /\ server' = "process"
  /\ UNCHANGED <<ring, counts, client, arg, sent, processed>>

\* processor->enqueue_command_direct, outside the mutex.
ProcessCommand ==
  /\ server = "process"
  /\ tmp_buffer # Stop
  /\ ~is_idle
  /\ processed' = Append(processed, tmp_buffer)
  /\ server' = "complete"
  /\ UNCHANGED <<ring, counts, tmp_buffer, is_idle, client, arg, sent>>

ProcessIdle ==
  /\ server = "process"
  /\ tmp_buffer # Stop
  /\ is_idle
  /\ server' = "check"
  /\ UNCHANGED <<ring, counts, tmp_buffer, is_idle, client, arg, sent,
                 processed>>

\* tmp_buffer.empty(): leave the loop.
ProcessStop ==
  /\ server = "process"
  /\ tmp_buffer = Stop
  /\ server' = "exited"
  /\ UNCHANGED <<ring, counts, tmp_buffer, is_idle, client, arg, sent,
                 processed>>

\* Mutant: completion wakes nobody.
CompleteQuietly ==
  /\ server = "complete"
  /\ completed_count' = read_count
  /\ server' = "check"
  /\ UNCHANGED <<ring, write_count, read_count, tmp_buffer, is_idle, client,
                 arg, sent, processed>>

Complete ==
  /\ server = "complete"
  /\ completed_count' = read_count
  /\ client' = Woken(client)
  /\ server' = "check"
  /\ UNCHANGED <<ring, write_count, read_count, tmp_buffer, is_idle, arg,
                 sent, processed>>

\* A condition variable may wake a waiter for no reason.
SpuriousWakeup ==
  \/ /\ Woken(client) # client
     /\ client' = Woken(client)
     /\ UNCHANGED server
     /\ UNCHANGED <<ring, counts, tmp_buffer, is_idle, arg, sent, processed>>
  \/ /\ Woken(server) # server
     /\ server' = Woken(server)
     /\ UNCHANGED client
     /\ UNCHANGED <<ring, counts, tmp_buffer, is_idle, arg, sent, processed>>

\* Both threads are gone.
Terminated == client = "done" /\ UNCHANGED vars

ClientCall == CallEnqueue \/ CallDrain \/ CallTeardown
ClientStep == EnqueueBlock \/ EnqueueWrite \/ DrainBlock \/ DrainReturn
              \/ JoinReturn
ServerStep == ServerFetch \/ ServerBlock \/ TimeoutIdle \/ ProcessCommand
              \/ ProcessIdle \/ ProcessStop \/ Complete

Next == ClientCall \/ ClientStep \/ ServerStep \/ SpuriousWakeup \/ Terminated

SafeSpec == Init /\ [][Next]_vars

\* The operating system runs both threads; nothing makes the client call.
\* A wait_for always times out in the end, so the server's steps are fair
\* from "check_wait" too.  Spurious wake-ups are never relied on.
Spec == SafeSpec /\ WF_vars(ClientStep) /\ WF_vars(ServerStep)

-----------------------------------------------------------------------------
(* Properties *)

\* Every variable has its type: the ring holds words, the threads are at one
\* of their program points, and only whole commands have been processed.
TypeOK ==
  /\ ring \in [0 .. Size - 1 -> Nat]
  /\ write_count \in Nat /\ read_count \in Nat /\ completed_count \in Nat
  /\ tmp_buffer \in Seq(Nat)
  /\ is_idle \in BOOLEAN
  /\ client \in ClientPC /\ server \in ServerPC
  /\ arg \in Commands \cup {Stop}
  /\ sent \in Seq([at : Nat, words : Commands \cup {Stop}])
  /\ processed \in Seq(Commands)

\* The counters keep their order and the writer never laps the reader, so no
\* unread word is overwritten (can_enqueue_ring_words).
CountsOrdered ==
  /\ completed_count <= read_count
  /\ read_count <= write_count
  /\ write_count <= read_count + Size

\* thread_loop hands the processor exactly the commands enqueue_command was
\* given, whole, in order and once each, whatever the ring size, the wrap of
\* a command over the end of the ring, and the time-outs in between.
FifoDelivery ==
  /\ Len(processed) <= Len(sent)
  /\ \A k \in 1 .. Len(processed) : processed[k] = sent[k].words

\* drain() returns only when the processor has finished every command that
\* was enqueued before it: the emulation thread may then touch the renderer.
DrainIsBarrier ==
  [][client = "drain" /\ client' = "run" => Len(processed) = Len(sent)]_vars

\* No wake-up is lost although enqueue_command and drain wait without a
\* time-out and notify_one is sent only when a command completes: a client
\* that waits always has an uncompleted command, whose completion wakes it.
WaiterHasWaker ==
  client \in {"enqueue_wait", "drain_wait"} =>
    /\ completed_count < write_count
    /\ server # "exited"

\* The ring behaves as the abstract queue: order, barriers, and every call
\* returns and every command is processed (its fairness included).
Queue == INSTANCE CommandQueue WITH
  sent      <- [k \in 1 .. Len(sent) |-> sent[k].words],
  client    <- CASE client \in {"enqueue", "enqueue_wait"} ->
                      IF arg = Stop THEN "close" ELSE "enqueue"
                 [] client = "drain_wait" -> "drain"
                 [] OTHER -> client
ImplementsQueue == Queue!Spec
=============================================================================
