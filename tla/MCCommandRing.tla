--------------------------- MODULE MCCommandRing ---------------------------
(***************************************************************************)
(* A ring of four words.  The payload words 0, 1 and 2 look like lengths,  *)
(* and the two-word command never divides the ring evenly, so commands     *)
(* wrap over its end at every offset.                                      *)
(***************************************************************************)
EXTENDS CommandRing

MCCommands == {<<1>>, <<0, 2>>}
=============================================================================
