------------------------------ MODULE ReactLoop ------------------------------
(***************************************************************************)
(* One propose or evaluate call of the LLM agent (agents/nsed_agent.rs),   *)
(* with the worker's retry around it: the react loop that lets the model   *)
(* call tools until it submits, the structured-output retries around that, *)
(* the screening of a submission, the re-quote turns of an evaluation, the *)
(* scratchpad in memory and in the store, and the token bill.              *)
(*                                                                         *)
(* The model, its provider and the store are the environment: any reply,   *)
(* any failure.  A reply is a number of tool calls and whether it was cut  *)
(* at max_tokens; a submission is what the screening can tell apart.  The  *)
(* scratchpad is the set of kinds of section it holds.                     *)
(*                                                                         *)
(* A definition named Wrong... is a mutated form of the one after it.      *)
(***************************************************************************)
EXTENDS Integers, FiniteSets

CONSTANTS
  Settings,        \* the tasks that may be given: see SettingsAssumption
  MaxRetries,      \* max_retries
  MaxIterations,   \* max_react_iterations
  FinalizeWindow,  \* NSED_FINALIZE_WINDOW
  Budget,          \* phase budget in ticks (a model turn takes one or two)
  RequoteBudget,   \* REQUOTE_BUDGET
  TaskRetries,     \* the worker's MAX_TASK_RETRIES
  RoomLevels,      \* bound: raises of max_tokens before its ceiling
  MaxBatch,        \* bound: tool calls in one reply
  ToolKinds,       \* bound: which kinds of tool call the model makes
  Sections,        \* bound: the kinds of section a scratchpad may hold
  LoadFaults,      \* whether reading the scratchpad may fail
  NoSubmission

Phases   == {"propose", "evaluate"}
Kinds    == {"note", "fold", "tool", "ghost", "provider"}

ASSUME SettingsAssumption ==
  Settings \subseteq [phase: Phases, forced: BOOLEAN, refuses: BOOLEAN,
                      guarded: BOOLEAN, reviewed: BOOLEAN]
ASSUME ReactAssumption ==
  /\ {MaxRetries, MaxIterations, FinalizeWindow} \subseteq Nat \ {0}
  /\ {Budget, RequoteBudget, TaskRetries, RoomLevels, MaxBatch} \subseteq Nat
  /\ ToolKinds \subseteq Kinds /\ LoadFaults \in BOOLEAN
  /\ "plain" \in Sections /\ Sections \subseteq {"findings", "working", "plain"}

VARIABLES
  job,        \* what the task asks for, fixed
  pc,
  try,        \* the worker's attempt at the task
  attempt,    \* attempts of generate_structured_output
  iter,       \* iteration_index of the react loop
  elapsed,    \* loop_start.elapsed(), up to Budget
  finalize,   \* force_finalize, as decided at the top of the turn
  left,       \* tool calls of the reply not handled yet
  cut,        \* finish_reason == "Length"
  call,       \* the tool call being run, or "none"
  begun, ended, \* of the turn's latest call: Started and Finished events
  slips,      \* and publishes of them that failed, were lost or interrupted
  source,     \* what is being judged: a "call", "prose", or "stuck"
  room,       \* retry_config.max_tokens, in raises
  effort,     \* retry_config.reasoning_effort is set
  empties,    \* consecutive_empty_stops
  mem, saved, \* the scratchpad, and the store's copy of it
  detached,   \* the last exchange with the store failed
  refuser,    \* this model is in known_refusers
  refusals,   \* forced choices it refused
  tokens,     \* total of this loop, cumulative of the attempts, of re-quotes
  owed,       \* replies to be billed
  requotes,   \* cite_attempts
  submitted   \* what propose or evaluate returned, with its bill

events  == <<begun, ended, slips>>
turn    == <<iter, elapsed, finalize, left, cut, call, begun, ended, slips, source>>
config  == <<room, effort, empties>>
notes   == <<mem, saved, detached>>
choice  == <<refuser, refusals>>
bill    == <<tokens, owed>>
outer   == <<job, try, attempt, requotes, submitted>>
vars    == <<outer, pc, turn, config, notes, choice, bill>>

Final == {"done", "failed", "abandoned"}

-----------------------------------------------------------------------------
Init ==
  /\ job \in Settings /\ pc = "load" /\ try = 1 /\ attempt = 1
  /\ iter = 0 /\ elapsed = 0 /\ finalize = FALSE /\ left = 0 /\ cut = FALSE
  /\ call = "none" /\ begun = 0 /\ ended = 0 /\ slips = 0 /\ source = "call"
  /\ room = 0 /\ effort = TRUE /\ empties = 0
  /\ mem = {} /\ saved \in SUBSET Sections /\ detached = FALSE
  /\ refuser = FALSE /\ refusals = 0
  /\ tokens = [loop |-> 0, attempts |-> 0, requotes |-> 0] /\ owed = 0
  /\ requotes = 0 /\ submitted = NoSubmission

\* No call of this turn has started yet.
NoEvents == begun' = 0 /\ ended' = 0 /\ slips' = 0

\* The locals of react_loop before its first turn; they go when it returns or
\* is dropped.
NoLocals == /\ iter' = 0 /\ elapsed' = 0 /\ finalize' = FALSE /\ left' = 0
            /\ cut' = FALSE /\ call' = "none" /\ source' = "call"
Fresh == NoLocals /\ NoEvents

(***************************************************************************)
(* react_loop starts: it reads the scratchpad, of which an evaluator sees  *)
(* the findings only.  A failed read is an empty scratchpad.               *)
(***************************************************************************)
View(pad) == IF job.phase = "evaluate" /\ "findings" \in pad
             THEN {"findings"} ELSE pad

Load ==
  /\ pc = "load" /\ pc' = "turn"
  /\ \/ mem' = View(saved) /\ detached' = FALSE
     \/ LoadFaults /\ mem' = {} /\ detached' = TRUE
  /\ tokens' = [tokens EXCEPT !.loop = 0]
  /\ UNCHANGED <<outer, turn, config, saved, choice, owed>>

(***************************************************************************)
(* The scratchpad in memory becomes `pad`, and so does the store when      *)
(* `write` holds: a failed write is only logged.                           *)
(***************************************************************************)
WrongStore(pad, write) ==    \* the update is kept in memory only
  /\ mem' = pad
  /\ UNCHANGED <<saved, detached>>

Store(pad, write) ==
  /\ mem' = pad
  /\ IF write
     THEN \/ saved' = pad /\ detached' = FALSE
          \/ saved' = saved /\ detached' = TRUE
     ELSE UNCHANGED <<saved, detached>>

(***************************************************************************)
(* compact_message_history replaces old tool results by a summary that is  *)
(* appended to the scratchpad; a scratchpad near its cap is squeezed, its  *)
(* older part rewritten as plain text.  Not persisted while evaluating.    *)
(***************************************************************************)
Folded(pad) == pad \cup {"plain"}
Squeezed(pad) == { Folded(kept) : kept \in SUBSET pad }

Compact ==
  \/ UNCHANGED notes  \* nothing to fold, no shrink, or the summariser failed
  \/ \E pad \in {Folded(mem)} \cup Squeezed(mem) :
        Store(pad, job.phase = "propose")

(***************************************************************************)
(* The top of a turn: are the tools stripped, so that the model can only   *)
(* submit?  By time, when what is left of the budget is at most three      *)
(* turns of average length, or by the number of turns left.                *)
(***************************************************************************)
TimeLow == /\ Budget > 0
           /\ \/ elapsed >= Budget
              \/ iter > 0 /\ (Budget - elapsed) * iter <= 3 * elapsed
WrongTurnsLow == /\ MaxIterations > FinalizeWindow
                 /\ MaxIterations - iter < FinalizeWindow
TurnsLow == /\ MaxIterations > FinalizeWindow
            /\ MaxIterations - iter <= FinalizeWindow

Turn ==
  /\ pc = "turn" /\ pc' = "ask"
  /\ finalize' = (TimeLow \/ TurnsLow)
  /\ IF iter > 0 \/ attempt > 1 THEN Compact ELSE UNCHANGED notes
  /\ NoEvents
  /\ UNCHANGED <<outer, iter, elapsed, left, cut, call, source,
                 config, choice, bill>>

-----------------------------------------------------------------------------
(***************************************************************************)
(* The request.  A declared schema forces a tool call, unless the model is *)
(* known to refuse that; a refusal is remembered and the request repeated  *)
(* without it.                                                             *)
(***************************************************************************)
Forces == job.forced /\ ~refuser

Remember == refuser' = TRUE

\* The refusal and the relaxed request are one chat_completion after another
\* in the same turn: the reply that follows is the relaxed request's.
Reply(refused) ==
  /\ pc = "ask"
  /\ IF refused
     THEN /\ Forces /\ job.refuses
          /\ refusals' = refusals + 1 /\ Remember
     ELSE ~(Forces /\ job.refuses) /\ UNCHANGED choice
  /\ \E ticks \in {1, 2} :
        elapsed' = IF elapsed + ticks > Budget THEN Budget ELSE elapsed + ticks
  /\ tokens' = [tokens EXCEPT !.loop = @ + 1]
  /\ owed' = owed + 1
  /\ cut' \in BOOLEAN
  /\ \/ left' \in 1..MaxBatch /\ pc' = "tools" /\ UNCHANGED source
     \/ left' = 0 /\ pc' = "judge" /\ source' = "prose"
  /\ UNCHANGED <<outer, iter, finalize, call, events, config, notes>>

\* A transport error is retried by a new react loop, after a back-off, with
\* the prompt or history this attempt began with; the tokens of the broken
\* loop are not added to anything.
WrongBackOff == empties' = 0 /\ UNCHANGED attempt
BackOff == empties' = 0 /\ attempt' = attempt + 1
RestartConfig == room' = 0 /\ effort' = TRUE /\ empties' = 0

ApiError(transport) ==
  /\ pc = "ask"
  /\ IF transport /\ attempt <= MaxRetries
     THEN /\ pc' = "load" /\ BackOff
          /\ owed' = owed - tokens.loop
          /\ UNCHANGED <<try, room, effort, tokens>>
     ELSE \/ /\ pc' = "failed"
             /\ UNCHANGED <<try, attempt, config, bill>>
          \* the worker starts the task over when the error text looks
          \* transient
          \/ /\ try <= TaskRetries
             /\ pc' = "load" /\ try' = try + 1 /\ attempt' = 1
             /\ RestartConfig
             /\ tokens' = [loop |-> 0, attempts |-> 0, requotes |-> 0]
             /\ owed' = 0
  /\ IF pc' = "load" /\ attempt' = 1
     THEN requotes' = 0 ELSE UNCHANGED requotes
  /\ Fresh
  /\ UNCHANGED <<job, submitted, notes, choice>>

-----------------------------------------------------------------------------
(***************************************************************************)
(* The tool calls of a reply, in order.  After the last one the next turn  *)
(* begins; when there is none, an empty submission is made up.             *)
(***************************************************************************)
EndTurn ==
  /\ left' = 0 /\ iter' = iter + 1
  /\ IF iter + 1 = MaxIterations
     THEN pc' = "judge" /\ source' = "stuck"
     ELSE pc' = "turn" /\ UNCHANGED source
  /\ cut' = FALSE

Submit ==
  /\ pc = "tools" /\ left > 0 /\ call = "none"
  /\ ~cut
  /\ pc' = "judge" /\ source' = "call"
  /\ UNCHANGED <<outer, iter, elapsed, finalize, left, cut, call, events,
                 config, notes, choice, bill>>

RaiseRoom == room' = IF room < RoomLevels THEN room + 1 ELSE room

\* A submission cut at max_tokens is answered with an error; the rest of the
\* batch is dropped.
SubmitCut ==
  /\ pc = "tools" /\ left > 0 /\ call = "none"
  /\ cut
  /\ RaiseRoom /\ EndTurn
  /\ UNCHANGED <<outer, elapsed, finalize, call, events, effort, empties,
                 notes, choice, bill>>

\* A publish that fails is only logged, and the stream's ack is not waited for:
\* the event is in the stream, or it slipped.
Report(count) ==
  \/ count' = count + 1 /\ UNCHANGED slips
  \/ slips' = slips + 1 /\ UNCHANGED count

StartCall(kind) ==
  /\ pc = "tools" /\ left > 0 /\ call = "none"
  /\ pc' = "announce" /\ call' = kind /\ NoEvents
  /\ UNCHANGED <<outer, iter, elapsed, finalize, left, cut, source,
                 config, notes, choice, bill>>

\* The Started event has been published, or not, and the guard is armed.
Announce ==
  /\ pc = "announce" /\ pc' = "tools"
  /\ Report(begun)
  /\ UNCHANGED <<outer, iter, elapsed, finalize, left, cut, call, ended, source,
                 config, notes, choice, bill>>

Running(kind) == pc = "tools" /\ call = kind

\* The tool has returned and its Finished event is being published.
ToolReturns ==
  /\ pc' = "record"
  /\ UNCHANGED <<outer, iter, elapsed, finalize, left, cut, call, events, source,
                 config, choice, bill>>

\* update_scratchpad; bad arguments or a text over the limit change nothing.
Note(section, mode) ==
  /\ Running("note") /\ ~finalize
  /\ Store(IF mode = "append" THEN mem \cup {section} ELSE {section}, TRUE)
  /\ ToolReturns

Fold == Running("fold") /\ ~finalize /\ Compact /\ ToolReturns

\* A stripped or unknown tool is answered with an error, a provider-executed
\* one with its own arguments, and any other runs, with or without success.
OtherCall == call # "none" /\ pc = "tools" /\ UNCHANGED notes /\ ToolReturns

\* The publish is over, well or not, the guard is disarmed, and the output
\* (capped to the context that is left) goes to the history.
Record ==
  /\ pc = "record" /\ call' = "none"
  /\ Report(ended)
  /\ IF left = 1 THEN EndTurn
     ELSE left' = left - 1 /\ pc' = "tools" /\ UNCHANGED <<iter, source, cut>>
  /\ UNCHANGED <<outer, elapsed, finalize, begun, config, notes, choice, bill>>

-----------------------------------------------------------------------------
(***************************************************************************)
(* What is judged.  "sound": the expected JSON; "mended": text one of the  *)
(* recovery steps turns into it (truncation and escape repair, THOUGHT/    *)
(* RESPONSE, Markdown, split thought, prefix, refusal); "torn": JSON cut   *)
(* before solution_content, which the truncation repair closes; "blank":   *)
(* JSON without a solution; "shapeless" and "empty": nothing usable;       *)
(* "uncited": an evaluation with citations that match no text.             *)
(***************************************************************************)
Forms ==
  CASE source = "stuck" -> IF job.phase = "propose" THEN {"blank"} ELSE {"sound"}
    [] job.phase = "evaluate" -> {"sound", "mended", "uncited", "shapeless", "empty"}
    [] OTHER -> {"sound", "mended", "torn", "blank", "shapeless", "empty"}

Submissions == [form: Forms, leak: {"none", "faint", "stark"}, passes: BOOLEAN]

Parses(s) == s.form \in {"sound", "mended", "torn", "uncited"}

\* The prompt-exposure guard redacts and scans again; the reviewer reads the
\* raw submission of a proposal.
WrongScreened(s) == TRUE          \* the redacted text is not scanned again
Screened(s) == job.guarded => s.leak # "stark"
Reviewed(s) == job.reviewed /\ job.phase = "propose" => s.passes
Acceptable(s) == Parses(s) /\ Screened(s) /\ Reviewed(s)

\* What redaction leaves; with a declared schema the raw envelope is the
\* content.
Redacted(leak) == IF leak = "stark" THEN "stark" ELSE "none"
Published(s) ==
  [ via |-> source, form |-> s.form, passes |-> s.passes,
    leak |-> IF job.guarded /\ ~job.forced THEN Redacted(s.leak) ELSE s.leak,
    bill |-> tokens.attempts + tokens.loop + tokens.requotes ]

\* propose ends by dropping the working section and appending its own note;
\* either write may fail.
Rotate ==
  IF job.phase = "propose"
  THEN /\ saved' \in { saved, saved \ {"working"}, saved \cup {"plain"},
                       (saved \ {"working"}) \cup {"plain"} }
       /\ UNCHANGED <<mem, detached>>
  ELSE UNCHANGED notes

WrongAccumulate == tokens' = [tokens EXCEPT !.loop = 0]  \* billed as free
Accumulate == tokens' = [tokens EXCEPT !.attempts = @ + tokens.loop,
                                       !.loop = 0]

Requotable(s) == s.form = "uncited" /\ requotes < RequoteBudget

Accept ==
  /\ pc = "judge"
  /\ \E s \in Submissions :
        /\ Acceptable(s) /\ ~Requotable(s)
        /\ submitted' = Published(s)
  /\ pc' = "done" /\ Rotate
  /\ UNCHANGED <<job, try, attempt, requotes, turn, config, choice, bill>>

\* Citations that do not resolve: the whole generation runs again with the
\* list of them, at most RequoteBudget times, and its tokens are kept.
Requote ==
  /\ pc = "judge"
  /\ \E s \in Submissions : Acceptable(s) /\ Requotable(s)
  /\ pc' = "load" /\ attempt' = 1 /\ requotes' = requotes + 1
  /\ tokens' = [loop |-> 0, attempts |-> 0,
                requotes |-> tokens.requotes + tokens.attempts + tokens.loop]
  /\ RestartConfig /\ Fresh
  /\ UNCHANGED <<job, try, submitted, notes, choice, owed>>

\* Anything else goes back to the model with the reason, until the attempts
\* are used up.  A cut reply raises max_tokens; the second empty one in a row
\* switches reasoning off.
RetriesLeft == attempt <= MaxRetries

Retry ==
  /\ pc = "judge"
  /\ RetriesLeft
  /\ \E s \in Submissions :
        /\ ~Acceptable(s)
        /\ IF s.form = "empty" /\ ~cut
           THEN /\ empties' = empties + 1
                /\ effort' = (effort /\ empties' < 2)
           ELSE empties' = 0 /\ UNCHANGED effort
  /\ IF cut THEN RaiseRoom ELSE UNCHANGED room
  /\ pc' = "load" /\ attempt' = attempt + 1 /\ Accumulate /\ Fresh
  /\ UNCHANGED <<job, try, requotes, submitted, notes, choice, owed>>

GiveUp ==
  /\ pc = "judge"
  /\ ~RetriesLeft
  /\ \E s \in Submissions : ~Acceptable(s)
  /\ pc' = "failed" /\ Fresh
  /\ UNCHANGED <<outer, config, notes, choice, bill>>

\* The task's future is dropped: cancelled, or out of its phase budget.  The
\* guard reports a call that was running as cancelled, from a task of its own.
\* It is not there yet while Started is being published, and still armed while
\* Finished is: either publish is interrupted, its event out or not.
WrongReportCancelled == UNCHANGED events
ReportCancelled ==
  CASE pc = "announce" ->
         begun' \in {begun, begun + 1} /\ slips' = slips + 1 /\ UNCHANGED ended
    [] pc = "record" ->
         /\ \E out, told \in {0, 1} :
               /\ ended' = ended + out + told
               /\ slips' = slips + 2 - told
         /\ UNCHANGED begun
    [] pc = "tools" /\ call # "none" -> Report(ended) /\ UNCHANGED begun
    [] OTHER -> UNCHANGED events

Abandon ==
  /\ pc \notin Final /\ pc' = "abandoned"
  /\ ReportCancelled /\ NoLocals
  /\ UNCHANGED <<outer, config, notes, choice, bill>>

-----------------------------------------------------------------------------
Step ==
  \/ Load \/ Turn
  \/ \E b \in BOOLEAN : Reply(b) \/ ApiError(b)
  \/ Submit \/ SubmitCut
  \/ \E k \in ToolKinds : StartCall(k)
  \/ Announce \/ Record
  \/ \E s \in Sections, m \in {"append", "overwrite"} : Note(s, m)
  \/ Fold \/ OtherCall
  \/ Accept \/ Requote \/ Retry \/ GiveUp

Next == Step \/ Abandon

\* Every await of the loop returns: chat_completion and the tools have
\* timeouts, the store answers or fails.
Fairness == WF_vars(Step)

Spec == Init /\ [][Next]_vars
LiveSpec == Spec /\ Fairness

-----------------------------------------------------------------------------
TypeOK ==
  /\ job \in Settings
  /\ pc \in {"load", "turn", "ask", "announce", "tools", "record", "judge"} \cup Final
  /\ try \in 1..(TaskRetries + 1) /\ attempt \in 1..(MaxRetries + 1)
  /\ iter \in 0..MaxIterations /\ elapsed \in 0..Budget
  /\ finalize \in BOOLEAN /\ left \in 0..MaxBatch /\ cut \in BOOLEAN
  /\ call \in {"none"} \cup ToolKinds
  /\ begun \in Nat /\ ended \in Nat /\ slips \in Nat
  /\ source \in {"call", "prose", "stuck"}
  /\ room \in 0..RoomLevels /\ effort \in BOOLEAN /\ empties \in Nat
  /\ mem \subseteq Sections /\ saved \subseteq Sections
  /\ detached \in BOOLEAN /\ refuser \in BOOLEAN /\ refusals \in Nat
  /\ tokens \in [loop: Nat, attempts: Nat, requotes: Nat] /\ owed \in Nat
  /\ requotes \in 0..RequoteBudget
  /\ \/ submitted = NoSubmission
     \/ submitted \in
          [via: {"call", "prose", "stuck"}, passes: BOOLEAN,
           form: {"sound", "mended", "torn", "blank", "uncited", "shapeless", "empty"},
           leak: {"none", "faint", "stark"}, bill: Nat]

\* A proposal or evaluation that leaves the agent leaks nothing when the
\* guard is on (and the content is the screened field), and a proposal has
\* passed its reviewer, on whichever attempt and by whichever repair it was
\* obtained; and a submission cut at max_tokens is never what is accepted
\* from a tool call.
SubmissionScreened ==
  submitted # NoSubmission =>
    /\ job.guarded /\ ~job.forced => submitted.leak = "none"
    /\ job.reviewed /\ job.phase = "propose" => submitted.passes
    /\ ~(submitted.via = "call" /\ cut)

\* The bill of a submission is every reply of the task since the last error
\* of the provider ended a loop, rejected attempts and discarded quotes
\* included: nothing is billed twice and nothing billed as free.
BilledOnce == submitted # NoSubmission => submitted.bill = owed

\* While proposing, what the model was told it stored is what a retry, a
\* restarted task or the next round will read back: unless the store failed,
\* the scratchpad in memory is the one in the store.
NotesSurvive ==
  /\ pc \in {"turn", "ask", "announce", "tools", "record", "judge"}
  /\ job.phase = "propose" /\ ~detached
  => mem = saved

\* A call is shown to start and to end once each, however it and its task end,
\* but for the publishes of its events that failed, were lost or interrupted: the
\* two differ by no more than those.  Nothing ends a call that is still running, and
\* only a task dropped while it records an ending has two.
CallsPaired ==
  /\ call = "none" => begun <= ended + slips /\ ended <= begun + slips
  /\ call # "none" => ended = 0 /\ pc \notin Final
  /\ ended > 1 => pc = "abandoned" /\ slips > 0

\* No turn of the loop passes without a turn in which only the submission
\* was left, before an empty submission is made up.
ToldToFinish ==
  pc = "judge" /\ source = "stuck" /\ MaxIterations > FinalizeWindow => finalize

\* The three nested retry loops end: a task is answered, fails or is dropped.
Terminates == <>(pc \in Final)

\* Appending to the scratchpad removes nothing from the stored one.
AppendKeepsNotes ==
  [][ \A s \in Sections :
        ~detached /\ Note(s, "append") => saved \subseteq saved' ]_vars
=============================================================================
