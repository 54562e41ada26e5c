---------------------------- MODULE MCEventQueue ----------------------------
EXTENDS EventQueue
=============================================================================
