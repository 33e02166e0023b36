----------------------------- MODULE ClaudePhase -----------------------------
(***************************************************************************)
(* Phases run by a Claude CLI subprocess (agents/mcp_agent.rs,             *)
(* claude_recovery.rs): each task spawns the CLI on the one session of its *)
(* conversation, collects the terminal tool call through an in-process     *)
(* server, salvages it from the transcript when the call did not arrive,   *)
(* retries once, and waits out rate limits.  The tasks of one conversation *)
(* run one after the other.                                                *)
(*                                                                         *)
(* A definition named Wrong... is a mutated form of the one after it.      *)
(***************************************************************************)
EXTENDS Integers, Sequences, FiniteSets

CONSTANTS
  Work,        \* the tasks in order: a sequence of [kind, dir]
  StaticDir,   \* the agent's configured working directory
  MaxWaits,    \* MAX_RATE_LIMIT_RETRIES, 8 in the code
  MaxCalls,    \* bound: terminal tool calls in one transcript
  NoCall

Kinds == {"propose", "evaluate"}
Dirs  == { Work[t].dir : t \in DOMAIN Work } \cup {StaticDir}
ASSUME ClaudeAssumption ==
  /\ Work \in Seq([kind: Kinds, dir: Dirs])
  /\ MaxWaits \in Nat /\ MaxCalls \in Nat

VARIABLES
  task, phase,   \* the task, and where its handler is
  try, fresh,    \* attempt 1 or 2; whether it starts a new session
  waits,         \* rate-limit waits so far
  offset,        \* size of the transcript when the attempt was spawned
  reply,         \* the call the in-process server took, or NoCall
  exit,          \* how the child ended
  transcript,    \* terminal tool calls in the transcript of each directory
  sessions,      \* directories that have a transcript
  envLock,       \* session-env directory: "none", "empty" or "full"
  got, failed    \* of the task that ended last: the call submitted, or its error

claudeVars == <<task, phase, try, fresh, waits, offset, reply, exit,
                transcript, sessions, envLock, got, failed>>
disk    == <<transcript, sessions>>
results == <<got, failed>>

Kind == Work[task].kind
Dir  == Work[task].dir           \* phase_working_dir
Over == task > Len(Work)

ClaudeInit ==
  /\ task = 1 /\ phase = "begin" /\ try = 1 /\ fresh = FALSE /\ waits = 0
  /\ offset = 0 /\ reply = NoCall /\ exit = "none"
  /\ transcript = [d \in Dirs |-> << >>] /\ sessions = {}
  /\ envLock = "none"
  /\ got = NoCall /\ failed = "no"

\* run_phase: a new server, and an empty lock directory is swept.
Begin ==
  /\ ~Over /\ phase = "begin" /\ phase' = "spawn"
  /\ envLock' = IF envLock = "empty" THEN "none" ELSE envLock
  /\ UNCHANGED <<task, try, fresh, waits, offset, reply, exit, disk, results>>

WrongSize(d) == 0
Size(d) == Len(transcript[d])    \* session_jsonl_size

\* execute_phase_attempt up to a running child: the CLI refuses a session whose
\* lock is there, and to resume one that has no transcript in this directory.
Spawn ==
  /\ phase = "spawn"
  /\ offset' = Size(Dir)
  /\ \/ /\ envLock # "none" /\ phase' = "exited" /\ exit' = "in use"
        /\ UNCHANGED <<envLock, disk>>
     \/ /\ envLock = "none" /\ ~fresh /\ Dir \notin sessions
        /\ phase' = "exited" /\ exit' = "silent"
        /\ UNCHANGED <<envLock, disk>>
     \/ /\ envLock = "none" /\ (fresh \/ Dir \in sessions)
        /\ phase' = "live" /\ envLock' = "full"
        /\ sessions' = sessions \cup {Dir}
        /\ UNCHANGED <<exit, transcript>>
     \/ /\ phase' = "exited" /\ exit' = "other"      \* no process at all
        /\ UNCHANGED <<envLock, disk>>
  /\ UNCHANGED <<task, try, fresh, waits, reply, results>>

-----------------------------------------------------------------------------
\* The CLI calls the terminal tool.  The handler takes a good call, turns a
\* bad one (no content, off the schema) down, and a loose one (citations that
\* match nothing) until the budget for that is spent; the first call it takes
\* is the result.  A call may also never reach the handler.
Taken(call, reached) ==
  IF reached /\ reply = NoCall /\ call.form # "bad" THEN call ELSE reply

Forms == IF Kind = "evaluate" THEN {"good", "loose", "bad"} ELSE {"good", "bad"}

CallTool ==
  /\ phase = "live" /\ Len(transcript[Dir]) < MaxCalls
  /\ \E form \in Forms, reached \in BOOLEAN :
       LET call == [task |-> task, kind |-> Kind, form |-> form]
       IN /\ transcript' = [transcript EXCEPT ![Dir] = Append(@, call)]
          /\ reply' = Taken(call, reached)
  /\ UNCHANGED <<task, phase, try, fresh, waits, offset, exit, sessions,
                 envLock, results>>

\* It ends by itself, is killed by a limit (with a report, or exit 1 and no
\* word), fails, or is killed at the timeout; only a clean end takes the lock
\* directory away for certain.
EndChild ==
  /\ phase = "live" /\ phase' = "exited"
  /\ \/ exit' = "ok" /\ envLock' = "none"
     \/ /\ exit' \in {"silent", "limit", "other", "timeout"}
        /\ envLock' \in {"none", "empty", "full"}
  /\ UNCHANGED <<task, try, fresh, waits, offset, reply, disk, results>>

-----------------------------------------------------------------------------
RecoveryDir == StaticDir         \* try_recover_terminal_call reads the config

\* The last terminal call of this phase appended since the spawn, or NoCall.
Salvaged ==
  LET t == transcript[RecoveryDir]
      mine == { i \in DOMAIN t : i > offset /\ t[i].kind = Kind }
  IN IF mine = {} THEN NoCall
     ELSE t[CHOOSE i \in mine : \A j \in mine : j <= i]

\* What the attempt returned: the server's call, or after a clean exit the
\* salvaged one unless it is unusable.
Result ==
  IF reply # NoCall THEN reply
  ELSE IF exit = "ok" /\ Salvaged # NoCall /\ Salvaged.form # "bad" THEN Salvaged
  ELSE NoCall

Reset == /\ phase' = "begin" /\ try' = 1 /\ fresh' = FALSE /\ offset' = 0
         /\ reply' = NoCall /\ exit' = "none"

NextTask(call, how) ==
  /\ got' = call /\ failed' = how
  /\ task' = task + 1 /\ waits' = 0

Succeed ==
  /\ phase = "exited" /\ Result # NoCall
  /\ NextTask(Result, "no") /\ Reset
  /\ UNCHANGED <<disk, envLock>>

\* A collision, or a clean exit without a usable call, is tried once more.
Collided  == exit \in {"silent", "in use"}
Retryable == try = 1 /\ (Collided \/ exit = "ok")

WrongCleared(lock) == IF lock = "empty" THEN "none" ELSE lock
Cleared(lock) == "none"          \* force_clear_session_env_lock

RestartFresh == Collided /\ Dir \notin sessions

Again ==
  /\ phase = "exited" /\ Result = NoCall /\ Retryable
  /\ try' = 2 /\ phase' = "spawn" /\ reply' = NoCall /\ exit' = "none"
  /\ fresh' = RestartFresh
  /\ envLock' = IF Collided THEN Cleared(envLock) ELSE envLock
  /\ UNCHANGED <<task, waits, offset, disk, results>>

\* No budget is left for the second attempt (never after a timeout, which takes
\* it all), or the failure is not one to retry: the error goes up.
Limited == exit = "limit"
GiveUp ==
  /\ phase = "exited" /\ Result = NoCall
  /\ ~Limited \/ waits >= MaxWaits
  /\ NextTask(NoCall, IF Retryable THEN "budget" ELSE exit)
  /\ envLock' = IF Retryable /\ Collided THEN Cleared(envLock) ELSE envLock
  /\ Reset /\ UNCHANGED disk

Waited(n) == n + 1

\* run_phase_with_rate_limit_retry: sleep, then the whole phase again.
WaitOut ==
  /\ phase = "exited" /\ Result = NoCall /\ Limited /\ waits < MaxWaits
  /\ waits' = Waited(waits) /\ Reset
  /\ UNCHANGED <<task, disk, envLock, results>>

\* Between phases the transcript of a directory may go (a worktree removed).
Forget ==
  /\ ~Over /\ phase = "begin" /\ sessions # {}
  /\ \E d \in sessions :
       /\ sessions' = sessions \ {d}
       /\ transcript' = [transcript EXCEPT ![d] = << >>]
  /\ UNCHANGED <<task, phase, try, fresh, waits, offset, reply, exit, envLock, results>>

\* Every await of these has a timeout: the child's, the phase budget, the wait.
ClaudeStep == Begin \/ Spawn \/ EndChild \/ Succeed \/ Again \/ GiveUp \/ WaitOut
ClaudeNext == ClaudeStep \/ CallTool \/ Forget

ClaudeSpec == ClaudeInit /\ [][ClaudeNext]_claudeVars

-----------------------------------------------------------------------------
\* What a task submits is a call its own child made, of its phase and not one
\* the handler would have turned down: no stale call of an earlier task of the
\* session is submitted again, however the attempts end.
ResultIsFresh ==
  got # NoCall =>
    got.task = task - 1 /\ got.kind = Work[task - 1].kind /\ got.form # "bad"

\* No task fails for the lock a killed child left behind.
LockNeverFatal == failed # "in use"

=============================================================================
