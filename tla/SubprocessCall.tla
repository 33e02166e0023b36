--------------------------- MODULE SubprocessCall ---------------------------
(***************************************************************************)
(* A call of an external program over pipes: BinaryMiddleware::execute     *)
(* (middleware/binary.rs), which feeds and drains it at once under one     *)
(* timeout, and ExecAgent::run_subprocess (agents/exec_agent.rs), which    *)
(* feeds it first and drains it after that, where the timeout begins.  The *)
(* program may do anything a program can do with its ends of the pipes.    *)
(*                                                                         *)
(* A definition named Wrong... is a mutated form of the one after it.      *)
(***************************************************************************)
EXTENDS Integers

CONSTANTS
  Envelope,    \* the input, in pipefuls of one unit
  Whole,       \* the length of a complete verdict or proposal on stdout
  Longest,        \* the program's longest output on either stream
  MaxOutput    \* what the middleware reads of a stream, 1 MB in the code

ASSUME SubprocessAssumption ==
  /\ Envelope \in Nat \ {0} /\ Whole \in Nat \ {0} /\ Longest \in Nat
  /\ Whole < MaxOutput /\ MaxOutput \in Nat

VARIABLES
  kind,      \* whose call: "middleware" or "exec"
  doing,     \* "idle", "writing" (exec only), "draining", "returned"
  fed,       \* units of the input written to stdin
  stdin,     \* the pipe: how many units it holds; the caller's end, the program's end
  broken,    \* the write ended in BrokenPipe
  pipe,      \* units in the stdout and stderr pipes
  taken,       \* units read from each
  child,     \* "none", "runs", "writes out", "writes err", "reads", "exited", "killed"
  ended,    \* how it ended: "none", "success", "failure"
  held,      \* a process it left behind still holds its ends of the pipes
  wrote,     \* ghost: units it wrote to each stream
  result     \* "none", "pass", "verdict", "output" (of exec), "block" (an error of exec)

pipeVars == <<kind, doing, fed, stdin, broken, pipe, taken, child, ended, held, wrote, result>>

Streams  == {"out", "err"}
PipeSize == 1        \* a unit is what fits into a pipe

SubprocessInit ==
  /\ kind \in {"middleware", "exec"} /\ doing = "idle" /\ fed = 0
  /\ stdin = [holds |-> 0, open |-> TRUE, read |-> TRUE] /\ broken = FALSE
  /\ pipe = [s \in Streams |-> 0] /\ taken = [s \in Streams |-> 0]
  /\ child = "none" /\ ended = "none" /\ held = FALSE
  /\ wrote = [s \in Streams |-> 0] /\ result = "none"

Alive     == child \in {"runs", "writes out", "writes err", "reads"}
Writes(s) == child = IF s = "out" THEN "writes out" ELSE "writes err"
CanRead   == stdin.read /\ (Alive \/ held)      \* somebody may still read stdin

\* The child's handle is dropped (kill_on_drop), or it is killed and reaped.
ReturnsWith(what) ==
  /\ doing' = "returned" /\ result' = what
  /\ child' = IF Alive THEN "killed" ELSE child
  /\ UNCHANGED <<kind, fed, stdin, broken, pipe, taken, ended, held, wrote>>

-----------------------------------------------------------------------------
(***************************************************************************)
(* The caller.                                                             *)
(***************************************************************************)
SpawnChild ==
  /\ doing = "idle"
  /\ doing' = IF kind = "exec" THEN "writing" ELSE "draining"
  /\ child' = "runs"
  /\ UNCHANGED <<kind, fed, stdin, broken, pipe, taken, ended, held, wrote, result>>

\* Nothing to spawn, or the context does not serialize.
SpawnFails == doing = "idle" /\ ReturnsWith("block")

Writing == doing \in {"writing", "draining"} /\ stdin.open

\* Closing stdin ends the write; exec goes on to drain.
Feed(units, isBroken) ==
  LET ends == isBroken \/ units = Envelope IN
  /\ fed' = units /\ broken' = isBroken
  /\ stdin' = [stdin EXCEPT !.holds = IF isBroken THEN 0 ELSE @ + units - fed,
                            !.open = ~ends]
  /\ doing' = IF ends THEN "draining" ELSE doing
  /\ UNCHANGED <<kind, pipe, taken, child, ended, held, wrote, result>>

WriteInput == Writing /\ CanRead /\ stdin.holds < PipeSize /\ Feed(fed + 1, FALSE)
BrokenPipe == Writing /\ ~CanRead /\ Feed(fed, TRUE)

\* Another error of the write ends exec's call.
WriteFails == doing = "writing" /\ ReturnsWith("block")

Capped(s) == kind = "middleware" /\ taken[s] = MaxOutput

Drain(s) ==
  /\ doing = "draining" /\ pipe[s] > 0 /\ ~Capped(s)
  /\ pipe' = [pipe EXCEPT ![s] = @ - 1] /\ taken' = [taken EXCEPT ![s] = @ + 1]
  /\ UNCHANGED <<kind, doing, fed, stdin, broken, child, ended, held, wrote, result>>

AtEof(s) == Capped(s) \/ (pipe[s] = 0 /\ ~Alive /\ ~held)

\* The input is written and both streams are read.
Gathered == doing = "draining" /\ ~stdin.open /\ \A s \in Streams : AtEof(s)

\* A verdict is parsed from the whole of what was read.
Parses == taken["out"] = Whole

WrongJudgement == IF Parses THEN "verdict" ELSE "pass"     \* unreadable output is no opinion
Judgement ==
  CASE Parses -> "verdict"
    [] taken["out"] = 0 /\ ended = "success" -> "pass"
    [] OTHER -> "block"

Accepted == ended = "success" /\ ~broken /\ taken["out"] > 0

Collect ==
  /\ Gathered /\ child = "exited"
  /\ ReturnsWith(IF kind = "middleware" THEN Judgement
             ELSE IF Accepted THEN "output" ELSE "block")

\* A stream did not decode, or a read or the wait failed.
GatherFails == Gathered /\ ReturnsWith("block")

WrongTimed == doing = "draining" /\ ~stdin.open   \* the middleware's write is left out of it
Timed == doing = "draining"

TimesOut == Timed /\ ReturnsWith("block")

Caller == SpawnChild \/ WriteInput \/ BrokenPipe \/ Collect \/ TimesOut \/ \E s \in Streams : Drain(s)

-----------------------------------------------------------------------------
(***************************************************************************)
(* The program: it decides what to do next and then has to wait for it.    *)
(***************************************************************************)
Same == UNCHANGED <<kind, doing, fed, broken, taken, result>>

Decide ==
  /\ child = "runs"
  /\ \/ wrote["out"] < Longest /\ child' = "writes out"
     \/ wrote["err"] < Longest /\ child' = "writes err"
     \/ stdin.read /\ child' = "reads"
  /\ Same /\ UNCHANGED <<stdin, pipe, ended, held, wrote>>

WriteOutput(s) ==
  /\ Writes(s) /\ pipe[s] < PipeSize /\ child' = "runs"
  /\ pipe' = [pipe EXCEPT ![s] = @ + 1] /\ wrote' = [wrote EXCEPT ![s] = @ + 1]
  /\ Same /\ UNCHANGED <<stdin, ended, held>>

ReadInput ==
  /\ child = "reads" /\ child' = "runs"
  /\ \/ stdin.holds > 0 /\ stdin' = [stdin EXCEPT !.holds = @ - 1]
     \/ stdin.holds = 0 /\ ~stdin.open /\ stdin' = [stdin EXCEPT !.read = FALSE]
  /\ Same /\ UNCHANGED <<pipe, ended, held, wrote>>

CloseStdin ==
  /\ child = "runs" /\ stdin.read /\ stdin' = [stdin EXCEPT !.read = FALSE]
  /\ Same /\ UNCHANGED <<pipe, child, ended, held, wrote>>

Exit ==
  /\ child = "runs" /\ child' = "exited"
  /\ ended' \in {"success", "failure"} /\ held' \in BOOLEAN
  /\ Same /\ UNCHANGED <<stdin, pipe, wrote>>

\* Killed from outside, whatever it waits for.
Killed ==
  /\ Alive /\ child' = "exited" /\ ended' = "failure"
  /\ Same /\ UNCHANGED <<stdin, pipe, held, wrote>>

LetGo ==
  /\ held /\ held' = FALSE
  /\ Same /\ UNCHANGED <<stdin, pipe, child, ended, wrote>>

ChildStep ==
  Decide \/ ReadInput \/ CloseStdin \/ Exit \/ \E s \in Streams : WriteOutput(s)

SubprocessNext == Caller \/ SpawnFails \/ WriteFails \/ GatherFails \/ ChildStep \/ Killed \/ LetGo

SubprocessSpec == SubprocessInit /\ [][SubprocessNext]_pipeVars

-----------------------------------------------------------------------------
\* What the caller makes of the output is sound: a verdict or a proposal comes
\* from a program that has exited and whose output was read to the end, and a
\* middleware says pass only for a program that wrote nothing and succeeded;
\* unreadable or cut output, a failure or a timeout blocks (binary.rs:5-14).
VerdictSound ==
  /\ result \in {"pass", "verdict", "output"} => child = "exited" /\ taken["out"] = wrote["out"]
  /\ result = "pass" => wrote["out"] = 0 /\ ended = "success"
  /\ result = "output" => ended = "success" /\ fed = Envelope

\* Once its output is drained a call returns, whatever the program does: it
\* hangs, fills a pipe, or leaves a process behind that keeps the pipes open.
DrainBounded == (doing = "draining") ~> (doing = "returned")

\* "Pipe buffer full: Handled" and "On timeout: The process is killed"
\* (exec-agent-protocol.md): a call returns.
CallBounded == (doing # "idle") ~> (doing = "returned")
=============================================================================
