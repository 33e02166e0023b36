----------------------------- MODULE AgentRunner -----------------------------
(***************************************************************************)
(* MultiAgentRunner::run_with_cancellation (multi_agent.rs): one           *)
(* reconnecting loop per agent, a watchdog that aborts the loops on        *)
(* cancellation, and a join over all of them.                              *)
(*                                                                         *)
(* A definition named Wrong... is a mutated form of the one after it.      *)
(***************************************************************************)
EXTENDS Integers, Sequences, FiniteSets

CONSTANTS
  Agents,       \* the workers, a sequence of names: the order of the join
  MaxFailures   \* MAX_RECONNECT_ATTEMPTS, 10 in the code

Names == { Agents[i] : i \in DOMAIN Agents }

\* The runner refuses to start with no agents.
ASSUME RunnerAssumption ==
  MaxFailures \in Nat \ {0} /\ Agents \in Seq(Names) /\ Agents # << >>

VARIABLES
  loop,       \* each loop: "run", "rest", or how it ended
  failures,   \* consecutive_failures
  cancelled,  \* the cancellation token
  aborting,       \* loops the watchdog has aborted: effective at an await
  joined,     \* how many handles the join has consumed
  errors,     \* the agents whose end it recorded as an error
  returned    \* "no", "ok" or "err"

runnerVars == <<loop, failures, cancelled, aborting, joined, errors, returned>>

Ended(a) == loop[a] \notin {"run", "rest"}

RunnerInit ==
  /\ loop = [a \in Names |-> "rest"]    \* spawned, at the top of the loop
  /\ failures = [a \in Names |-> 0]
  /\ cancelled = FALSE /\ aborting = {}
  /\ joined = 0 /\ errors = {} /\ returned = "no"

Turns(a, to) == loop' = [loop EXCEPT ![a] = to]
Joining == <<joined, errors, returned>>

\* The top of the loop, after the delay: cancelled, or worker.run() again.
Wake(a) ==
  /\ loop[a] = "rest"
  /\ Turns(a, IF cancelled THEN "stopped" ELSE "run")
  /\ UNCHANGED <<failures, cancelled, aborting, Joining>>

\* run() returned Ok: the connection was lost.
RunEnds(a) ==
  /\ loop[a] = "run" /\ Turns(a, "rest")
  /\ failures' = [failures EXCEPT ![a] = 0]
  /\ UNCHANGED <<cancelled, aborting, Joining>>

Spent(n) == n >= MaxFailures

RunFails(a) ==
  /\ loop[a] = "run"
  /\ failures' = [failures EXCEPT ![a] = @ + 1]
  /\ Turns(a, IF Spent(failures[a] + 1) THEN "gave up" ELSE "rest")
  /\ UNCHANGED <<cancelled, aborting, Joining>>

Panic(a) ==
  /\ loop[a] = "run" /\ Turns(a, "panicked")
  /\ UNCHANGED <<failures, cancelled, aborting, Joining>>

Cancel ==
  /\ ~cancelled /\ cancelled' = TRUE
  /\ UNCHANGED <<loop, failures, aborting, Joining>>

WrongAbort(a) == FALSE           \* cooperative cancellation alone

\* The watchdog aborts what has not finished; the join ends it.
Abort(a) ==
  /\ cancelled /\ returned = "no" /\ a \notin aborting /\ ~Ended(a)
  /\ aborting' = aborting \cup {a}
  /\ UNCHANGED <<loop, failures, cancelled, Joining>>

\* The abort takes the loop at an await, inside run() or asleep.
AbortLands(a) ==
  /\ a \in aborting /\ ~Ended(a) /\ Turns(a, "aborted")
  /\ UNCHANGED <<failures, cancelled, aborting, Joining>>

WrongFault(end) == end = "gave up"   \* a panic taken for an abort
Fault(end) == end \in {"gave up", "panicked"}

Join ==
  /\ joined < Len(Agents) /\ Ended(Agents[joined + 1])
  /\ joined' = joined + 1
  /\ LET a == Agents[joined + 1]
     IN errors' = IF Fault(loop[a]) THEN errors \cup {a} ELSE errors
  /\ UNCHANGED <<loop, failures, cancelled, aborting, returned>>

Conclude ==
  /\ joined = Len(Agents) /\ returned = "no"
  /\ returned' = IF errors = {} THEN "ok" ELSE "err"
  /\ UNCHANGED <<loop, failures, cancelled, aborting, joined, errors>>

LoopStep(a) == Wake(a) \/ RunEnds(a) \/ RunFails(a) \/ Panic(a)
RunnerNext ==
  \/ \E a \in Names : LoopStep(a) \/ Abort(a) \/ AbortLands(a)
  \/ Cancel \/ Join \/ Conclude

\* What the scheduler owes: spawned tasks run, sleeps end, an abort lands.
\* run() itself may block for ever.
GoesOn(a) == Wake(a) \/ Abort(a) \/ AbortLands(a)
Collects  == Join \/ Conclude

-----------------------------------------------------------------------------
\* What the runner returns is how its agents ended: Ok only once it was cancelled
\* and every loop is over and shut down, an error only for a loop that panicked or
\* whose run() failed MaxFailures times in a row, whatever order they end and are
\* joined in and whenever the abort lands.
EndingReported ==
  /\ returned = "ok" => cancelled /\ \A a \in Names : loop[a] \in {"stopped", "aborted"}
  /\ returned = "err" =>
       \E a \in Names : loop[a] = "panicked" \/ (loop[a] = "gave up" /\ failures[a] = MaxFailures)

\* Cancellation ends the runner, also with a worker blocked inside run().
CancelReturns == cancelled ~> returned # "no"
=============================================================================
