-------------------------- MODULE MCResponseBuffer --------------------------
(* Small instances of ResponseBuffer: two responses, a draft and an edit.  *)
EXTENDS ResponseBuffer, TLC

CONSTANTS e1, e2, draft, edit

EntrySymmetry == Permutations({e1, e2})
=============================================================================
