--------------------------- MODULE MCWorkerPool ---------------------------
EXTENDS WorkerPool, TLC

(* Neighbouring tasks have different functions.                            *)
MCFuncOf == [t \in Tasks |-> IF t % 2 = 0 THEN "f" ELSE "g"]

(* Every task has an argument of its own.                                  *)
MCOwnArg == [t \in Tasks |-> t]

(* All tasks are sleep_task(&act), as in threadpool_test().                *)
MCSameFunc == [t \in Tasks |-> "sleep_task"]
MCSameArg == [t \in Tasks |-> "act"]

Symmetry == Permutations(Workers) \cup Permutations(Producers)
=============================================================================
