--------------------------- MODULE MCWorkerPool ---------------------------
(* The pool of WorkerPool.tla on a few workers and tasks.                  *)
EXTENDS WorkerPool

CONSTANTS w1, w2, t1, t2, t3

TwoWorkers == {w1, w2}
ThreeTasks == {t1, t2, t3}
===========================================================================
