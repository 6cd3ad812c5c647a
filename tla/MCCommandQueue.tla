--------------------------- MODULE MCCommandQueue ---------------------------
(* Small instances of CommandQueue for TLC. *)
EXTENDS CommandQueue, TLC

CONSTANTS good, bad, r1, w1, w2

OneBad == {bad}
GoodAndBad == {good, bad}
None == {}
OneRequeue == {r1}
OneWorker == {w1}
TwoWorkers == {w1, w2}

WorkerSymmetry == Permutations(TwoWorkers)
=============================================================================
