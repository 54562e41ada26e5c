----------------------------- MODULE MCRspDisk -----------------------------
(***************************************************************************)
(* RSP tasks and the disk drive in one run.  They share nothing but the    *)
(* interrupt logic, so a behaviour exercises one of them and the other     *)
(* stays as it was after power-on.                                         *)
(***************************************************************************)
EXTENDS RspTask, DiskDrive

\* Interrupts off and on.
MCStatusValues ==
  {[ie |-> on, exl |-> FALSE, erl |-> FALSE, im |-> {"IP2"}] : on \in BOOLEAN}

\* Starting a task, continuing one, stopping the RSP, its interrupt bits.
MCSpWrites ==
  {{"clr_halt", "clr_broke", "set_intr_break"}, {"clr_halt"}, {"clr_broke"},
   {"set_halt"}, {"clr_intr"}, {"set_intr", "clr_intr_break"}}

MCDpcWrites ==
  {{"clr_freeze"}, {"set_freeze"}, {"clr_freeze", "set_freeze"}}

\* Starting a transfer of one or two blocks, going on, both resets.
MCBmWrites ==
  {{}, {"again"}, {"start"}, {"start", "again"}, {"start", "again", "mecha_reset"},
   {"mecha_reset"}, {"reset"}, {"reset", "mecha_reset"}}

VARIABLE part

RspDiskInit ==
  /\ part \in {"rsp", "disk"}
  /\ RspInit /\ DiskInit
  /\ part = "disk" => ~sp.display

RspDiskNext ==
  /\ \/ part = "rsp" /\ RspNext /\ UNCHANGED <<cart, pi, dd>>
     \/ part = "disk" /\ DiskNext /\ UNCHANGED sp
  /\ UNCHANGED part

RspDiskSpec == RspDiskInit /\ [][RspDiskNext]_<<m, sp, cart, pi, dd, part>>
=============================================================================
