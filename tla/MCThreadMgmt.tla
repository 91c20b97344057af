---------------------------- MODULE MCThreadMgmt ----------------------------
(* ThreadMgmt for TLC: one thread that waits with a timeout, as the        *)
(* producer does, and one that waits without, as a job consumer does.      *)
EXTENDS ThreadMgmt

CONSTANTS producer, jobConsumer

MCThreads == {producer, jobConsumer}
MCUntimed == {jobConsumer}
=============================================================================
