----------------------------- MODULE MCDevices -----------------------------
(***************************************************************************)
(* The devices of the core in one run: the peripheral interface, the save  *)
(* memory behind it, the serial interface, and the walks over PIF RAM.     *)
(* They share nothing but the interrupt logic, so a behaviour exercises    *)
(* one of them and the others stay as they were after power-on.            *)
(***************************************************************************)
EXTENDS PiController, SiController, PifFrame

\* Interrupts off and on.
MCStatusValues ==
  {[ie |-> on, exl |-> FALSE, erl |-> FALSE, im |-> {"IP2"}] : on \in BOOLEAN}

VARIABLE part
devVars == <<m, cart, pi, si, frameVars, part>>

\* No frame is walked.
FrameAtRest ==
  /\ ram = Frame(<< >>, 0) /\ items = << >>
  /\ pos = 0 /\ channel = 0 /\ walk = "done"
  /\ executed = {} /\ filled = {}

DevInit ==
  /\ part \in {"pi", "media", "si", "frame"}
  /\ PiInit /\ SiInit /\ (part # "si" => si.delay)
  /\ IF part = "frame" THEN FrameInit ELSE FrameAtRest

DevNext ==
  /\ \/ part = "pi" /\ PiNext /\ UNCHANGED <<si, frameVars>>
     \/ part = "media" /\ CartNext /\ UNCHANGED <<m, pi, si, frameVars>>
     \/ part = "si" /\ SiNext /\ UNCHANGED <<cart, pi, frameVars>>
     \/ part = "frame" /\ FrameNext /\ UNCHANGED <<m, cart, pi, si>>
  /\ UNCHANGED part

\* What is fair about the PI is never enabled while another is exercised, or is
\* the same step of the interrupt logic.
DevSpec == DevInit /\ [][DevNext]_devVars /\ PiFairness
=============================================================================
