---------------------------- MODULE UserQuestion ----------------------------
(***************************************************************************)
(* What a question to the user is to the user and to the agent             *)
(* (agents/mod.rs, PendingToolCall and ToolCallStatus), with no count, no  *)
(* watch, no budget and no compare-and-set: it is asked once, is answered  *)
(* or withdrawn while it is open, never both, and the agent is told once,  *)
(* of a withdrawn question only that nobody answered it.                   *)
(* UserToolCall is shown to implement this specification.                  *)
(***************************************************************************)
CONSTANT Calls

VARIABLES
  record,  \* the question: "absent", "pending", "responded" or "expired"
  told     \* what the agent was told, "none" at first

vars == <<record, told>>

Init ==
  /\ record = [c \in Calls |-> "absent"]
  /\ told = [c \in Calls |-> "none"]

Becomes(c, from, to) == record[c] = from /\ record' = [record EXCEPT ![c] = to]
Tell(c, what) == told[c] = "none" /\ told' = [told EXCEPT ![c] = what]

\* The user may see a question whose agent was told that asking failed.
Ask(c) ==
  /\ Becomes(c, "absent", "pending") /\ told[c] = "none"
  /\ UNCHANGED told \/ Tell(c, "error")

\* The user may answer late: the agent may have been told something else.
Respond(c) == Becomes(c, "pending", "responded") /\ UNCHANGED told

Hear(c) == record[c] = "responded" /\ Tell(c, "answered") /\ UNCHANGED record

\* Nobody answered: the question is closed before the agent hears of it, and
\* an agent that ends in between never does.
Withdraw(c) ==
  Becomes(c, "pending", "expired") /\ told[c] = "none" /\ UNCHANGED told

\* The agent goes on without an answer; the question is left as it is.
Abandon(c) ==
  \/ Tell(c, "no response")
  \/ record[c] # "expired" /\ Tell(c, "error")
Decline(c) == record[c] = "absent" /\ (Tell(c, "not asked") \/ Tell(c, "refused"))

Next == \E c \in Calls :
  \/ Ask(c) \/ Respond(c) \/ Hear(c) \/ Withdraw(c)
  \/ (Abandon(c) \/ Decline(c)) /\ UNCHANGED record

Spec == Init /\ [][Next]_vars
=============================================================================
