--------------------------- MODULE MCCommunicator ---------------------------
(* Communicator for TLC.                                                   *)
EXTENDS Communicator
=============================================================================
