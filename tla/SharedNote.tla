----------------------------- MODULE SharedNote -----------------------------
(***************************************************************************)
(* What a persistence store promises the agents that share a key           *)
(* (agents/mod.rs, PersistenceStore), with no revisions and no retries: an *)
(* append and a set take effect at one moment between call and return, at  *)
(* most once, and a caller that is told "ok" knows that it did, one that   *)
(* is told of contention that it did not; after an error it cannot know.   *)
(* ScratchpadAppend is shown to implement this specification.              *)
(***************************************************************************)
EXTENDS Sequences

CONSTANTS Appenders, Setters   \* the calls of append and of set

VARIABLES
  text,     \* the value: the calls whose text it holds, in order
  applied,  \* the calls that took effect
  told      \* what each call returned, "none" at first

vars == <<text, applied, told>>

Init ==
  /\ text = << >> /\ applied = {}
  /\ told = [c \in Appenders \cup Setters |-> "none"]

Return(c, what) == told[c] = "none" /\ told' = [told EXCEPT ![c] = what]

TakesEffect(c, t) == c \notin applied /\ applied' = applied \cup {c} /\ text' = t

\* The return may be lost on the way: the caller then sees an error.
DoAppend(c) ==
  /\ c \in Appenders /\ TakesEffect(c, Append(text, c))
  /\ Return(c, "ok") \/ Return(c, "error")

DoSet(c) ==
  /\ c \in Setters /\ TakesEffect(c, <<c>>)
  /\ Return(c, "ok") \/ Return(c, "error")

Refuse(c) ==
  /\ c \notin applied
  /\ Return(c, "error") \/ Return(c, "contention")
  /\ UNCHANGED <<text, applied>>

Next == \E c \in Appenders \cup Setters : DoAppend(c) \/ DoSet(c) \/ Refuse(c)

Spec == Init /\ [][Next]_vars
=============================================================================
