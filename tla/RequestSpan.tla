---------------------------- MODULE RequestSpan -----------------------------
(***************************************************************************)
(* LlmRequestSpan (llms/span.rs): the start event of a request, the task   *)
(* that says every 30 s that it is still in flight, and the one terminal   *)
(* event, by complete or fail or when the span is dropped with the caller's*)
(* future.  The caller and the task run on two threads; an emission is     *)
(* synchronous code no abort can interrupt.  The order is that of the      *)
(* emissions; each is then published by a task of its own.                 *)
(*                                                                         *)
(* A definition named Wrong... is a mutated form of the one after it.      *)
(***************************************************************************)
EXTENDS Integers, Sequences, FiniteSets

CONSTANT MaxBeats     \* ticks of the heartbeat: a bound of the model

ASSUME SpanAssumption == MaxBeats \in Nat

VARIABLES
  span,       \* "none", "open", "joining", "ended", "dropped"
  ending,     \* the terminal event to emit after the join
  beat,       \* the heartbeat task: "absent", "select", "emits", "gone"
  notified,   \* stalled_cancel holds a permit
  handle,     \* the span still has the task's JoinHandle
  aborted,    \* the task exits at its next await
  beats,      \* ticks so far
  events      \* what was emitted, in order

spanVars == <<span, ending, beat, notified, handle, aborted, beats, events>>

SpanInit ==
  /\ span = "none" /\ ending = "none" /\ beat = "absent"
  /\ notified = FALSE /\ handle = FALSE /\ aborted = FALSE /\ beats = 0 /\ events = << >>

Emit(e) == events' = Append(events, e)

Start ==
  /\ span = "none" /\ span' = "open" /\ beat' = "select" /\ handle' = TRUE
  /\ Emit("start") /\ UNCHANGED <<ending, notified, aborted, beats>>

\* complete or fail up to the await of the task.
CancelHeartbeat(terminal) ==
  /\ span = "open" /\ span' = "joining" /\ ending' = terminal
  /\ notified' = TRUE /\ handle' = FALSE
  /\ UNCHANGED <<beat, aborted, beats, events>>

WrongJoined == notified                 \* the exit is not awaited
Joined == beat = "gone"

Terminate ==
  /\ span = "joining" /\ Joined /\ span' = "ended" /\ Emit(ending)
  /\ UNCHANGED <<ending, beat, notified, handle, aborted, beats>>

Synthetic == span \in {"open", "joining"}

\* Drop, when the caller's future is dropped at any of its awaits.
DropSpan ==
  /\ span \in {"open", "joining"} /\ span' = "dropped"
  /\ notified' = TRUE /\ handle' = FALSE /\ aborted' = (aborted \/ handle)
  /\ IF Synthetic THEN Emit("failed") ELSE UNCHANGED events
  /\ UNCHANGED <<ending, beat, beats>>

\* The biased select: a permit first, then the tick.
BeatEnds ==
  /\ beat = "select" /\ (notified \/ aborted) /\ beat' = "gone" /\ notified' = FALSE
  /\ UNCHANGED <<span, ending, handle, aborted, beats, events>>

BeatTicks ==
  /\ beat = "select" /\ ~notified /\ ~aborted /\ beats < MaxBeats
  /\ beat' = "emits" /\ beats' = beats + 1
  /\ UNCHANGED <<span, ending, notified, handle, aborted, events>>

BeatEmits ==
  /\ beat = "emits" /\ beat' = "select" /\ Emit("stalled")
  /\ UNCHANGED <<span, ending, notified, handle, aborted, beats>>

SpanStep == Terminate \/ BeatEnds \/ BeatEmits
SpanNext ==
  SpanStep \/ Start \/ DropSpan \/ BeatTicks
  \/ \E t \in {"complete", "failed"} : CancelHeartbeat(t)

SpanSpec == SpanInit /\ [][SpanNext]_spanVars

-----------------------------------------------------------------------------
Terminal(e)  == e \in {"complete", "failed"}
Terminals    == { i \in DOMAIN events : Terminal(events[i]) }
AfterTerminal == { i \in DOMAIN events : \E j \in 1..(i - 1) : Terminal(events[j]) }

\* "dashboards see one Failed per Start, never an unbalanced Start" (span.rs:418):
\* a span that is over has emitted one terminal event, wherever its future was
\* dropped, and no heartbeat follows that event but, after a drop, the one that
\* was under way.
SpanClosed ==
  /\ Cardinality(Terminals) = IF span \in {"ended", "dropped"} THEN 1 ELSE 0
  /\ span = "ended" => AfterTerminal = {}
  /\ Cardinality(AfterTerminal) <= 1
=============================================================================
