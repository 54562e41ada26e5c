---------------------------- MODULE CommandQueue ----------------------------
(***************************************************************************)
(* What the RDP command ring promises to the emulation thread that feeds   *)
(* it: commands are handed to the command processor in the order they      *)
(* were enqueued, each exactly once; a drain returns only when everything  *)
(* enqueued so far has been processed; and closing the ring returns only   *)
(* after every command has been processed.  No ring, no threads, no        *)
(* condition variable: CommandRing is shown to implement this.             *)
(***************************************************************************)
EXTENDS Naturals, Sequences

CONSTANT Commands     \* the non-empty sequences of words a client may send

\* The zero-word command that asks the consumer to leave.
Stop == << >>

VARIABLES sent,       \* commands accepted, in order; a final Stop closes
          processed,  \* commands the processor has executed
          client      \* the call the emulation thread is in

vars == <<sent, processed, client>>

AllProcessed == Len(processed) = Len(sent)

Init == sent = << >> /\ processed = << >> /\ client = "run"

Call(op) ==
  /\ client = "run"
  /\ client' = op
  /\ UNCHANGED <<sent, processed>>

Accept ==
  /\ client = "enqueue"
  /\ \E c \in Commands : sent' = Append(sent, c)
  /\ client' = "run"
  /\ UNCHANGED processed

DrainReturn ==
  /\ client = "drain"
  /\ AllProcessed
  /\ client' = "run"
  /\ UNCHANGED <<sent, processed>>

\* Closing first queues Stop behind the commands ...
CloseBegin ==
  /\ client = "close"
  /\ sent' = Append(sent, Stop)
  /\ client' = "join"
  /\ UNCHANGED processed

\* ... and returns when only Stop is left.
CloseReturn ==
  /\ client = "join"
  /\ Len(processed) + 1 = Len(sent)
  /\ client' = "done"
  /\ UNCHANGED <<sent, processed>>

Process ==
  /\ Len(processed) < Len(sent)
  /\ sent[Len(processed) + 1] # Stop
  /\ processed' = Append(processed, sent[Len(processed) + 1])
  /\ UNCHANGED <<sent, client>>

Next ==
  \/ \E op \in {"enqueue", "drain", "close"} : Call(op)
  \/ Accept \/ DrainReturn \/ CloseBegin \/ CloseReturn
  \/ Process

\* Safety alone, for the refinement proof.
SafeSpec == Init /\ [][Next]_vars

\* The consumer makes progress and no call blocks for ever.
Spec ==
  /\ SafeSpec
  /\ WF_vars(Process)
  /\ WF_vars(Accept) /\ WF_vars(DrainReturn)
  /\ WF_vars(CloseBegin) /\ WF_vars(CloseReturn)
=============================================================================
