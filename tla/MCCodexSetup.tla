---------------------------- MODULE MCCodexSetup ----------------------------
(* A small instance of CodexSetup: two releases and one unrelated entry.   *)
EXTENDS CodexSetup, TLC
=============================================================================
