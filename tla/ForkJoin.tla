------------------------------ MODULE ForkJoin ------------------------------
(***************************************************************************)
(* What angrylion's worker pool promises to the renderer: a run executes   *)
(* its task once on every worker and returns when all of them have; runs   *)
(* never overlap; closing the pool waits for nothing but the current run.  *)
(***************************************************************************)
EXTENDS Naturals, Sequences

CONSTANT Worker

VARIABLES runs,    \* runs started; the n-th run carries task n
          ran,     \* tasks each worker has executed, in order
          phase    \* "idle", "running" or "closed"

vars == <<runs, ran, phase>>

Init == runs = 0 /\ ran = [w \in Worker |-> << >>] /\ phase = "idle"

Begin ==
  /\ phase = "idle"
  /\ runs' = runs + 1
  /\ phase' = "running"
  /\ UNCHANGED ran

Execute(w) ==
  /\ phase = "running"
  /\ Len(ran[w]) < runs
  /\ ran' = [ran EXCEPT ![w] = Append(@, runs)]
  /\ UNCHANGED <<runs, phase>>

Return ==
  /\ phase = "running"
  /\ \A w \in Worker : Len(ran[w]) = runs
  /\ phase' = "idle"
  /\ UNCHANGED <<runs, ran>>

Close ==
  /\ phase = "idle"
  /\ phase' = "closed"
  /\ UNCHANGED <<runs, ran>>

Next == Begin \/ Return \/ Close \/ \E w \in Worker : Execute(w)

\* Safety alone, for the refinement proof.
SafeSpec == Init /\ [][Next]_vars

Spec ==
  /\ SafeSpec
  /\ WF_vars(Return)
  /\ \A w \in Worker : WF_vars(Execute(w))
=============================================================================
