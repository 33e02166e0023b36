---------------------------- MODULE MCAgentParts ----------------------------
(***************************************************************************)
(* Small instances of the parts of an agent process besides its task loop: *)
(*   the clients of compare-and-set buckets (feed, questions to the user,  *)
(*   scratchpad), what keeps the agent serving (the runner, the model      *)
(*   bench, the Claude CLI phases), and what it calls (the conversation,   *)
(*   the request loop and its telemetry span, external programs, the pages *)
(*   and annotations of a file).                                           *)
(* They share no state, so a behaviour is one of them.                     *)
(***************************************************************************)
EXTENDS FeedIndex, UserToolCall, ScratchpadAppend,
        AgentRunner, ModelBench, ClaudePhase,
        History, LlmRequest, RequestSpan, SubprocessCall, BlobReader

CONSTANTS a1, a2, b1, alice, bob, x, y

VARIABLE part   \* the part this behaviour is of

SenderOf  == (a1 :> alice) @@ (a2 :> alice) @@ (b1 :> bob)
TwoAgents == <<x, y>>

CliTask(k, d) == [kind |-> k, dir |-> d]
OneDirectory == << CliTask("evaluate", "home"), CliTask("propose", "home"),
                   CliTask("evaluate", "home") >>
\* A before_prompt middleware moves the second task to a directory of its own.
Moved == << CliTask("propose", "home"), CliTask("propose", "worktree") >>

kvVars    == <<feedVars, callVars, padVars>>
superVars == <<runnerVars, benchVars, claudeVars>>
useVars   == <<historyVars, llmVars, blobVars>>
ioVars    == <<spanVars, pipeVars>>
partVars  == <<kvVars, superVars, useVars, ioVars, part>>

Kv    == {"feed", "user call", "scratchpad"}
Super == {"runner", "bench", "claude"}
Use   == {"history", "request", "pages", "notes"}
Io    == {"span", "program"}

PartInit ==
  /\ part \in Kv \cup Super \cup Use \cup Io
  /\ FeedInit /\ CallInit /\ PadInit
  /\ RunnerInit /\ BenchInit /\ ClaudeInit
  /\ HistoryInit /\ LlmInit /\ BlobInit
  /\ SpanInit /\ SubprocessInit /\ (part # "program" => kind = "exec")

KvNext ==
  \/ part = "feed" /\ FeedNext /\ UNCHANGED <<callVars, padVars>>
  \/ part = "user call" /\ CallNext /\ UNCHANGED <<feedVars, padVars>>
  \/ part = "scratchpad" /\ PadNext /\ UNCHANGED <<feedVars, callVars>>

SuperNext ==
  \/ part = "runner" /\ RunnerNext /\ UNCHANGED <<benchVars, claudeVars>>
  \/ part = "bench" /\ BenchNext /\ UNCHANGED <<runnerVars, claudeVars>>
  \/ part = "claude" /\ ClaudeNext /\ UNCHANGED <<runnerVars, benchVars>>

UseNext ==
  \/ part = "history" /\ HistoryNext /\ UNCHANGED <<llmVars, blobVars>>
  \/ part = "request" /\ LlmNext /\ UNCHANGED <<historyVars, blobVars>>
  \/ part = "pages" /\ ReadNext /\ UNCHANGED <<historyVars, llmVars>>
  \/ part = "notes" /\ NotesNext /\ UNCHANGED <<historyVars, llmVars>>

IoNext ==
  \/ part = "span" /\ SpanNext /\ UNCHANGED pipeVars
  \/ part = "program" /\ SubprocessNext /\ UNCHANGED spanVars

PartNext ==
  \/ KvNext /\ UNCHANGED <<superVars, useVars, ioVars, part>>
  \/ SuperNext /\ UNCHANGED <<kvVars, useVars, ioVars, part>>
  \/ UseNext /\ UNCHANGED <<kvVars, superVars, ioVars, part>>
  \/ IoNext /\ UNCHANGED <<kvVars, superVars, useVars, part>>

PartSpec ==
  /\ PartInit /\ [][PartNext]_partVars
  /\ \A a \in Names : WF_runnerVars(part = "runner" /\ GoesOn(a))
  /\ WF_runnerVars(part = "runner" /\ Collects)
  /\ WF_benchVars(part = "bench" /\ Tick)
  /\ WF_benchVars(part = "bench" /\ Stores)
  /\ WF_claudeVars(part = "claude" /\ ClaudeStep)
  /\ WF_llmVars(part = "request" /\ Pass)
  /\ \A r \in Requests : WF_llmVars(part = "request" /\ LlmStep(r))
  /\ WF_pipeVars(part = "program" /\ Caller)

\* The behaviours of the Claude CLI phases alone.
PhaseSpec == PartSpec /\ part = "claude"

\* Those of exec's program alone: one that never stops between two of its steps
\* and leaves no process behind.
ExecSpec == PartSpec /\ part = "program" /\ kind = "exec" /\ []~held /\ WF_pipeVars(ChildStep)
=============================================================================
