-------------------------- MODULE MCTrainingRecords --------------------------
(* TrainingRecords for TLC: requests of both kinds, readers are alike.     *)
EXTENDS TrainingRecords

AllRequests ==
    [forward : {FALSE}, start : {0}, count : 1..(QueueSize - 1)]
        \cup [forward : {TRUE}, start : {2}, count : {1}]

ReaderSymmetry == Permutations(Readers)
=============================================================================
