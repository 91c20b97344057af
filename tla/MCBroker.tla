------------------------------ MODULE MCBroker ------------------------------
(* Broker for TLC.  The session threads and the jobs are model values.     *)
EXTENDS Broker
=============================================================================
