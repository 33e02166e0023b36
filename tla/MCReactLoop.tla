----------------------------- MODULE MCReactLoop -----------------------------
(***************************************************************************)
(* Small instances of ReactLoop: a proposal with a guard and a reviewer, a *)
(* proposal with a declared schema, and a guarded evaluation.              *)
(***************************************************************************)
EXTENDS ReactLoop

Task(phase, forced, guarded, reviewed) ==
  [phase |-> phase, forced |-> forced, refuses |-> forced,
   guarded |-> guarded, reviewed |-> reviewed]

AllTasks == { Task("propose", FALSE, TRUE, TRUE),
              Task("propose", TRUE, FALSE, TRUE),
              Task("evaluate", FALSE, TRUE, FALSE) }

Evaluations == { Task("evaluate", FALSE, FALSE, FALSE) }
=============================================================================
