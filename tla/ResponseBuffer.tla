--------------------------- MODULE ResponseBuffer ---------------------------
(***************************************************************************)
(* The human-in-the-loop response buffer of one agent (ResponseBuffer,     *)
(* workers/buffer.rs) and the loop that drains it every 500 ms             *)
(* (drain_buffer, workers/mod.rs), with the buffer's public operations as  *)
(* atomic actions: each runs under the one write lock.  What is decided    *)
(* before the lock is awaited (the auto-approve flag of a push or a sweep, *)
(* the pause flag of a drain) is a step of its own.                        *)
(*                                                                         *)
(* Time is abstracted to whether an entry's release_at has passed.  The    *)
(* queue is a set: the drain takes every ready entry, so the order decides *)
(* only who is published first, which no property tells apart.             *)
(*                                                                         *)
(* Definitions named Wrong..., and DropOnFailure, are mutated forms of the *)
(* one that follows them; no specification uses them.                      *)
(***************************************************************************)
EXTENDS Integers, FiniteSets

CONSTANTS
  Entries,      \* responses the agent completes
  Contents,     \* what a response may say
  Draft,        \* what the agent wrote
  AutoStop,     \* agent_config.auto_stop: entries arrive stopped
  AutoApprove,  \* the auto-approve flag at the start
  Toggles,      \* operators may switch auto-approve
  MaxNotes,     \* bound: annotations on one entry
  MaxFaults,    \* bound: failed publishes in one behaviour
  Unsent

Payloads == [content : Contents, notes : Nat, edited : BOOLEAN]

ASSUME ResponseBufferAssumption ==
  /\ Draft \in Contents
  /\ AutoStop \in BOOLEAN /\ AutoApprove \in BOOLEAN /\ Toggles \in BOOLEAN
  /\ MaxNotes \in Nat /\ MaxFaults \in Nat
  /\ Unsent \notin Payloads

VARIABLES
  handed,     \* history: responses the worker has handed over
  arriving,   \* pushes that wait for the lock
  pending,    \* the buffer
  ready,      \* entries the drain has popped and not yet published
  due,        \* entries whose release_at has passed
  stopped,    \* entries with the stopped flag
  payload,    \* the payload and annotations of each entry
  published,  \* how often each entry was published: 0, 1 or more (2)
  sentAs,     \* the payload that was published
  rejected,   \* entries an operator discarded
  cooling,    \* history: inside the 5 s back-off of a failed publish
  paused,     \* the buffer's pause flag
  auto,       \* the auto-approve flag
  drain,      \* position of the drain loop
  faultsLeft

queue   == <<handed, arriving, pending, ready>>
outcome == <<published, sentAs, rejected>>
switches == <<paused, auto>>
vars == <<queue, due, stopped, payload, outcome, cooling, switches, drain,
          faultsLeft>>

Held == arriving \cup pending \cup ready
Out  == {e \in Entries : published[e] > 0}

Init ==
  /\ handed = {} /\ arriving = {} /\ pending = {} /\ ready = {}
  /\ due = {} /\ cooling = {} /\ rejected = {}
  /\ stopped = (IF AutoStop THEN Entries ELSE {})
  /\ payload = [e \in Entries |-> [content |-> Draft, notes |-> 0, edited |-> FALSE]]
  /\ published = [e \in Entries |-> 0]
  /\ sentAs = [e \in Entries |-> Unsent]
  /\ paused = FALSE /\ auto = AutoApprove
  /\ drain = "idle"
  /\ faultsLeft = MaxFaults

-----------------------------------------------------------------------------
(***************************************************************************)
(* The worker's side.                                                      *)
(***************************************************************************)

\* push_with_deadline reads the auto-approve flag: release now, or at the SLA
\* deadline, which a slow agent may have missed already.
Complete(e) ==
  /\ e \notin handed
  /\ handed' = handed \cup {e}
  /\ arriving' = arriving \cup {e}
  /\ \/ due' = due \cup {e}
     \/ ~auto /\ UNCHANGED due
  /\ UNCHANGED <<pending, ready, stopped, payload, outcome, cooling, switches,
                 drain, faultsLeft>>

\* ... and takes the lock.
Enqueue(e) ==
  /\ e \in arriving
  /\ arriving' = arriving \ {e}
  /\ pending' = pending \cup {e}
  /\ UNCHANGED <<handed, ready, due, stopped, payload, outcome, cooling, switches,
                 drain, faultsLeft>>

\* An entry's release_at passes; so does the time of a back-off that a sweep
\* has cut short.
TimePasses(e) ==
  /\ e \in Held
  /\ e \notin due \/ e \in cooling
  /\ due' = due \cup {e}
  /\ cooling' = cooling \ {e}
  /\ UNCHANGED <<queue, stopped, payload, outcome, switches, drain, faultsLeft>>

\* auto_release_if_eligible, once its flag and threshold tests have passed.
SweepEffect == due' = due \cup (pending \ stopped)

\* drain_buffer: the auto-approve test; the divergence may be above the
\* threshold whatever the flag says.
DrainStart ==
  /\ drain = "idle"
  /\ drain' \in (IF auto THEN {"sweep", "gate"} ELSE {"gate"})
  /\ UNCHANGED <<queue, due, stopped, payload, outcome, cooling, switches, faultsLeft>>

DrainSweep ==
  /\ drain = "sweep"
  /\ SweepEffect
  /\ drain' = "gate"
  /\ UNCHANGED <<queue, stopped, payload, outcome, cooling, switches, faultsLeft>>

\* drain_ready: the pause test ...
DrainGate ==
  /\ drain = "gate"
  /\ drain' = (IF paused THEN "idle" ELSE "pop")
  /\ UNCHANGED <<queue, due, stopped, payload, outcome, cooling, switches, faultsLeft>>

WrongReady == pending \cap due  \* the stopped flag is not looked at
Ready == (pending \cap due) \ stopped

WrongDrainPop ==  \* stays in the publish loop with an empty batch
  /\ drain = "pop"
  /\ ready' = Ready
  /\ pending' = pending \ ready'
  /\ drain' = "publish"
  /\ UNCHANGED <<handed, arriving, due, stopped, payload, outcome, cooling, switches,
                 faultsLeft>>

\* ... and, under the lock, everything that is ready leaves the buffer.
DrainPop ==
  /\ drain = "pop"
  /\ ready' = Ready
  /\ pending' = pending \ ready'
  /\ drain' = (IF ready' = {} THEN "idle" ELSE "publish")
  /\ UNCHANGED <<handed, arriving, due, stopped, payload, outcome, cooling, switches,
                 faultsLeft>>

DropOnFailure(e) ==  \* a failed publish is logged and the entry dropped
  UNCHANGED <<pending, due, cooling, outcome>>

\* A failed hook or publish puts the entry back, to be retried in 5 s.
Requeue(e) ==
  /\ pending' = pending \cup {e}
  /\ due' = due \ {e}
  /\ cooling' = cooling \cup {e}
  /\ UNCHANGED outcome

OneMore(n) == IF n < 2 THEN n + 1 ELSE n

\* The batch goes out one by one, each as it stands with its annotations.
Publish(e) ==
  /\ drain = "publish" /\ e \in ready
  /\ ready' = ready \ {e}
  /\ drain' = (IF ready' = {} THEN "idle" ELSE "publish")
  /\ \/ /\ published' = [published EXCEPT ![e] = OneMore(@)]
        /\ sentAs' = [sentAs EXCEPT ![e] = payload[e]]
        /\ UNCHANGED <<pending, due, cooling, rejected, faultsLeft>>
     \/ /\ faultsLeft > 0
        /\ faultsLeft' = faultsLeft - 1
        /\ Requeue(e)
  /\ UNCHANGED <<handed, arriving, stopped, payload, switches>>

Drain == DrainStart \/ DrainSweep \/ DrainGate \/ DrainPop \/ \E e \in Entries : Publish(e)

-----------------------------------------------------------------------------
(***************************************************************************)
(* The operator's side.  An entry that is not in the buffer is "not found" *)
(* and nothing changes.                                                    *)
(***************************************************************************)

\* update_payload
UpdatePayload(e, c) ==
  /\ e \in pending
  /\ payload' = [payload EXCEPT ![e].content = c]
  /\ UNCHANGED <<queue, due, stopped, outcome, cooling, switches, drain, faultsLeft>>

\* update_payload_with_annotation
EditPayload(e, c) ==
  /\ e \in pending /\ payload[e].notes < MaxNotes
  /\ payload' = [payload EXCEPT ![e] =
                   [content |-> c, notes |-> @.notes + 1, edited |-> TRUE]]
  /\ UNCHANGED <<queue, due, stopped, outcome, cooling, switches, drain, faultsLeft>>

\* add_comment
AddComment(e) ==
  /\ e \in pending /\ payload[e].notes < MaxNotes
  /\ payload' = [payload EXCEPT ![e].notes = @ + 1]
  /\ UNCHANGED <<queue, due, stopped, outcome, cooling, switches, drain, faultsLeft>>

\* force_release
ForceRelease(e) ==
  /\ e \in pending
  /\ stopped' = stopped \ {e}
  /\ due' = due \cup {e}
  /\ cooling' = cooling \ {e}
  /\ UNCHANGED <<queue, payload, outcome, switches, drain, faultsLeft>>

\* stop
Stop(e) ==
  /\ e \in pending
  /\ stopped' = stopped \cup {e}
  /\ UNCHANGED <<queue, due, payload, outcome, cooling, switches, drain, faultsLeft>>

\* unstop
Unstop(e) ==
  /\ e \in pending
  /\ stopped' = stopped \ {e}
  /\ UNCHANGED <<queue, due, payload, outcome, cooling, switches, drain, faultsLeft>>

\* reject
Reject(e) ==
  /\ e \in pending
  /\ pending' = pending \ {e}
  /\ rejected' = rejected \cup {e}
  /\ UNCHANGED <<handed, arriving, ready, due, stopped, payload, published, sentAs,
                 cooling, switches, drain, faultsLeft>>

\* pause / resume
SetPaused(b) ==
  /\ paused # b
  /\ paused' = b
  /\ UNCHANGED <<queue, due, stopped, payload, outcome, cooling, auto, drain, faultsLeft>>

\* The auto endpoint: set_auto_approve, and when it enables, an immediate sweep
\* that the divergence may veto.
SetAuto(b) ==
  /\ Toggles
  /\ auto' = b
  /\ \/ UNCHANGED due
     \/ b /\ SweepEffect
  /\ UNCHANGED <<queue, stopped, payload, outcome, cooling, paused, drain, faultsLeft>>

Operate(e) ==
  \/ \E c \in Contents : EditPayload(e, c)
  \/ AddComment(e) \/ ForceRelease(e) \/ Stop(e) \/ Unstop(e) \/ Reject(e)

Environment ==
  \/ \E e \in Entries : Complete(e) \/ Enqueue(e) \/ TimePasses(e)
  \/ \E b \in BOOLEAN : SetPaused(b) \/ SetAuto(b)

Next ==
  \/ Drain
  \/ Environment
  \/ \E e \in Entries : Operate(e)

Spec == Init /\ [][Next]_vars

\* The worker's select loop reaches its drain tick, a push gets the lock and
\* time passes.  Operators and agents owe nothing.
Fairness ==
  /\ WF_vars(Drain)
  /\ \A e \in Entries : WF_vars(Enqueue(e)) /\ WF_vars(TimePasses(e))

FairSpec == Spec /\ Fairness

-----------------------------------------------------------------------------
TypeOK ==
  /\ handed \subseteq Entries /\ arriving \subseteq Entries
  /\ pending \subseteq Entries /\ ready \subseteq Entries
  /\ due \subseteq Entries /\ stopped \subseteq Entries
  /\ payload \in [Entries -> Payloads]
  /\ published \in [Entries -> 0..2]
  /\ sentAs \in [Entries -> Payloads \cup {Unsent}]
  /\ rejected \subseteq Entries /\ cooling \subseteq Entries
  /\ paused \in BOOLEAN /\ auto \in BOOLEAN
  /\ drain \in {"idle", "sweep", "gate", "pop", "publish"}
  /\ faultsLeft \in 0..MaxFaults

\* Every response handed over is in exactly one place: awaiting the lock, in
\* the buffer, with the drain, published, once, or rejected.  No failed publish
\* loses or doubles it ("dropping it here means the response is permanently
\* lost", workers/mod.rs:2647), and what an operator rejected is not published.
InOnePlace ==
  /\ handed = Held \cup Out \cup rejected
  /\ arriving \cap pending = {} /\ arriving \cap ready = {} /\ pending \cap ready = {}
  /\ Held \cap (Out \cup rejected) = {} /\ Out \cap rejected = {}
  /\ \A e \in Entries : published[e] <= 1

\* What the drain holds may go out: its time has come and the operator has not
\* stopped it; a batch exists only in the publish loop.
BatchIsReleasable ==
  /\ ready \subseteq due \ stopped
  /\ ready # {} <=> drain = "publish"

\* After a failed publish the entry is left alone for 5 s unless an operator
\* releases it: no retry in every drain tick (workers/mod.rs:2648).
BackoffRespected == ready \cap cooling = {}

\* A response leaves the buffer, published or rejected, once operators stop
\* holding it back: no stop and no pause for ever.
EveryResponseLeaves ==
  \A e \in Entries :
    <>[](~paused /\ e \notin stopped)
      => (e \in Held) ~> (published[e] > 0 \/ e \in rejected)

-----------------------------------------------------------------------------
(***************************************************************************)
(* The promise this buffer keeps.                                          *)
(***************************************************************************)
Phase == [e \in Entries |->
            IF e \in Held THEN "held"
            ELSE IF e \in Out THEN "released"
            ELSE IF e \in rejected THEN "discarded" ELSE "unseen"]

Promise == INSTANCE HeldResponse WITH phase <- Phase, sent <- sentAs

\* Every behaviour of the buffer and its drain loop is one of HeldResponse: a
\* response goes out once, as it stands, and not while it is stopped.
KeepsPromise == Promise!Spec
=============================================================================
