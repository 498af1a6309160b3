-------------------------- MODULE MCEmulatorLoop --------------------------
(* The emulator loop with a counter of four bits; its constants are in the .cfg files. *)
EXTENDS EmulatorLoop
=============================================================================
