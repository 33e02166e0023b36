---------------------------- MODULE HeldResponse ----------------------------
(***************************************************************************)
(* What the response buffer of an agent promises the operator and the      *)
(* orchestrator (workers/buffer.rs, module comment and BufferedResponse),  *)
(* with no queue, no timer and no drain loop: a response handed over is    *)
(* held; while it is held an operator may revise, stop or discard it; it   *)
(* goes out once, as it then stands, and never while it is stopped.        *)
(* ResponseBuffer is shown to implement this specification.                *)
(***************************************************************************)
CONSTANTS
  Entries,   \* responses
  Payloads,  \* what a response may say
  Unsent     \* the value of sent for a response that has not gone out

VARIABLES
  phase,     \* "unseen", "held", "released" or "discarded"
  stopped,   \* responses the operator has stopped
  payload,   \* the payload as it stands
  sent       \* the payload that went out

vars == <<phase, stopped, payload, sent>>

Init ==
  /\ phase = [e \in Entries |-> "unseen"]
  /\ stopped \in SUBSET Entries
  /\ payload \in [Entries -> Payloads]
  /\ sent = [e \in Entries |-> Unsent]

Accept(e) ==
  /\ phase[e] = "unseen"
  /\ phase' = [phase EXCEPT ![e] = "held"]
  /\ UNCHANGED <<stopped, payload, sent>>

Revise(e) ==
  /\ phase[e] = "held"
  /\ payload'[e] \in Payloads
  /\ payload' = [payload EXCEPT ![e] = payload'[e]]
  /\ UNCHANGED <<phase, stopped, sent>>

SetStopped(e) ==
  /\ phase[e] = "held"
  /\ stopped' = stopped \cup {e} \/ stopped' = stopped \ {e}
  /\ UNCHANGED <<phase, payload, sent>>

Release(e) ==
  /\ phase[e] = "held" /\ e \notin stopped
  /\ phase' = [phase EXCEPT ![e] = "released"]
  /\ sent' = [sent EXCEPT ![e] = payload[e]]
  /\ UNCHANGED <<stopped, payload>>

Discard(e) ==
  /\ phase[e] = "held"
  /\ phase' = [phase EXCEPT ![e] = "discarded"]
  /\ UNCHANGED <<stopped, payload, sent>>

Next == \E e \in Entries :
  Accept(e) \/ Revise(e) \/ SetStopped(e) \/ Release(e) \/ Discard(e)

Spec == Init /\ [][Next]_vars
=============================================================================
