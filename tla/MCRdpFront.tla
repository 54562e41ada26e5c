----------------------------- MODULE MCRdpFront -----------------------------
(***************************************************************************)
(* Three parts around the RDP in one run: command lists on their way into  *)
(* paraLLEl-RDP, its hi-res replacements, and the core's watch over the    *)
(* frame buffers of the other plugins.  They share no state, so a          *)
(* behaviour exercises one of them.                                        *)
(***************************************************************************)
EXTENDS CommandIngest, FrameBuffer, HiresRegistry

\* Pairs of a command.
MCLengths == [o \in Opcodes |-> IF o = "triangle" THEN 3 ELSE 1]

\* Aligned to a page, across two regions, in the last region, and one from the
\* first page over three regions.
MCBuffers ==
  {[addr |-> 8, last |-> 15], [addr |-> 4, last |-> 11],
   [addr |-> 20, last |-> 31], [addr |-> 1, last |-> 17]}

MCBytes == [t \in Replaced |-> 1]

\* A lookup by two kinds of key, and by one.
MCLadders == {<<"sampled", "checksum">>, <<"sampled">>}

VARIABLE part
frontVars == <<ingestVars, fb, regVars, part>>

FrontInit ==
  /\ part \in {"ingest", "watch", "hires"}
  /\ IngestInit /\ FbInit /\ RegistryInit
  /\ part # "ingest" => ~frontend /\ ~synchronous

FrontNext ==
  /\ \/ part = "ingest" /\ IngestNext /\ UNCHANGED <<fb, regVars>>
     \/ part = "watch" /\ FbNext /\ UNCHANGED <<ingestVars, regVars>>
     \/ part = "hires" /\ RegistryNext /\ UNCHANGED <<ingestVars, fb>>
  /\ UNCHANGED part

FrontSpec == FrontInit /\ [][FrontNext]_frontVars
=============================================================================
