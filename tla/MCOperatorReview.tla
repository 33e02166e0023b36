-------------------------- MODULE MCOperatorReview --------------------------
(* Small instances of OperatorReview: two requests at a time.  The         *)
(* middleware blocks "bad" at the release stage and turns the agent's      *)
(* draft into "clean".                                                     *)
EXTENDS OperatorReview, TLC

CONSTANTS e1, o1, o2, draft, clean, bad

SanitizeDraft == [c \in Contents |-> IF c = draft THEN clean ELSE c]

OperatorSymmetry == Permutations(Operators)
=============================================================================
