------------------------------ MODULE MCWorker ------------------------------
(* Worker for TLC: mixes of jobs.                                          *)
EXTENDS Worker

CONSTANTS r, b, n, h

KindOf == [j \in Jobs |-> CASE j = b -> "build"
                            [] j = n -> "run"
                            [] j = h -> "halt"
                            [] OTHER -> "reply"]
=============================================================================
