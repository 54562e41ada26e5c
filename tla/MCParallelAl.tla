---------------------------- MODULE MCParallelAl ----------------------------
(* Four workers: the main thread and three worker threads; three runs.     *)
EXTENDS ParallelAl
=============================================================================
