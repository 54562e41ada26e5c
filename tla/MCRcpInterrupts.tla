-------------------------- MODULE MCRcpInterrupts --------------------------
EXTENDS RcpInterrupts

\* Interrupts off, all on, on with the timer masked, and the exception level.
MCStatusValues ==
  {[ie |-> FALSE, exl |-> FALSE, erl |-> FALSE, im |-> {}],
   [ie |-> TRUE,  exl |-> FALSE, erl |-> FALSE, im |-> {"IP2", "IP7", "IP3"}],
   [ie |-> TRUE,  exl |-> FALSE, erl |-> FALSE, im |-> {"IP2"}],
   [ie |-> TRUE,  exl |-> TRUE,  erl |-> TRUE,  im |-> {"IP2", "IP7"}]}
=============================================================================
