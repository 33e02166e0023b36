---------------------------- MODULE MCTaskWorker ----------------------------
(***************************************************************************)
(* Small instances of TaskWorker for TLC: two tasks, of one session or of  *)
(* two, one of them possibly unreadable, and two or three deliveries.      *)
(***************************************************************************)
EXTENDS TaskWorker, TLC

CONSTANTS t1, t2, j1, j2

SameJob == [t \in Tasks |-> j1]
OwnJob  == [t \in Tasks |-> IF t = t1 THEN j1 ELSE j2]

HandlerSymmetry == Permutations(Handlers)
=============================================================================
