-------------------------- MODULE MCParallelParser --------------------------
(* parseAll() of ParallelParser.tla with a threshold of two files.         *)
EXTENDS ParallelParser

CONSTANTS w1, w2, f1, f2, f3

TwoWorkers == {w1, w2}
ThreeFiles == {f1, f2, f3}

MCListings == {{}, {f1}, ThreeFiles}
=============================================================================
