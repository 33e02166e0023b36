# Quorum agents in TLA+

A model of the agent side of quorum-rs: how one agent takes tasks from
JetStream, works them with a language model, holds its answers for a human
operator and lets operators change them, and the parts of its process that
serve this: buckets, supervision, external programs, files. The TLA+ modules
are translated from the Rust source; TLC checks them on small instances and
TLAPS proves theorems about them for every value of their constants. Source paths below are relative to `crates/quorum-rs/src/`
unless they name another crate.

Contents: 1 the system, 2 the modules, 3 the runs, 4 bounds and fairness,
5 proofs, 6 divergences, 7 what is left out, 8 plan.

## 1. The system

An *orchestrator* (not in this repository) runs deliberation jobs: it publishes a
task per agent and phase on NATS JetStream, collects results for a round and
closes it when every agent has answered, skipped, failed, or the round times out.
Each *agent* is a `NatsNsedWorker` with its own durable pull consumer. Components
share no memory across processes; within one process, tokio tasks share atomics
and locks.

### Components

**Task worker** (`workers/mod.rs`). State: the consumer's pending deliveries and
the `processed` KV bucket (on the server), `active_jobs`, the status snapshot
(`current_job`), the pause flag, and one detached tokio task per delivery
(`handle_message`) with a second one that sends a progress ack every 15 s.
Operations: deliver, dedup, before_prompt, SKIP, work, publish or buffer, mark,
ack, fail, pause/resume, manifest. Interacts with JetStream (ack, redelivery
after 30 s), the KV bucket, the response buffer, the control plane. Hard:
deliveries run concurrently; every error return leaves the handler half way; a
crash falls between any two awaits; acks are fire-and-forget. Correct when no
acknowledged task is unanswered, no task is worked twice at once, the
concurrency cap holds, the heartbeat's report of busy jobs is true, and every
task is settled in the end.

**Response buffer and drain loop** (`workers/buffer.rs`, `drain_buffer` in
`workers/mod.rs`). State: a queue of held responses under one async lock, each
with `release_at`, `stopped`, `edited` and annotations; atomics for pause,
auto-approve, threshold, hold time. Operations: push (with deadline), the
auto-approve sweep, drain_ready, re-enqueue, edit, comment, force_release, stop,
unstop, reject, pause, resume. The worker pushes, the select loop drains every
500 ms, HTTP handlers do the rest. Hard: flags are read before the lock is
awaited; a popped batch is out of the operators' reach and may come back after a
failed publish; timers, sweeps and operators all set `release_at`. Correct when
each response is in one place, goes out once, never while stopped or rejected,
backs off after a failure, and leaves unless somebody holds it.

**Operator review handlers** (`status/multi_server/hitl_handlers.rs`). State: none
of their own beyond the request in flight. An edit reads an entry, runs the
before_release middleware and locks the buffer again to write; a release reads,
vets, writes the rewritten text and force-releases. Hard: what was read is stale
by the time it is used. Correct when the latest accepted edit is what goes out,
annotations form an audit trail, and a manual release lets out only vetted text; the
code gives each of these up in some overlap (sections 2 and 6).

**Model-down benching** (`workers/mod.rs:672-712, 2292-2306, 3308-3385`,
`providers/model_availability.rs`). State: strikes, the bench deadline, the time
of the last probe (three atomics), the cached catalog. Failing handlers and the
heartbeat arm the bench, successes reset the strikes, the heartbeat reports it.
Hard: non-atomic read-modify-write across handlers, a timestamp held over an
await. Correct when a bench lasts as long as its last verdict says (that an older
verdict never shortens it is not so), a fetch failure never benches, and a recovered
model pays only the base cooldown.

**Scratchpad store** (`workers/mod.rs:300-400`). A KV entry per key, appended to by
compare-and-set with 20 attempts, or overwritten. Hard: lost races and the bound
on retries. Correct when an append that returns Ok is in the value, once.

**Runner, manager, registry** (`multi_agent.rs`, `agent_manager.rs`,
`orchestrator_registry.rs`). State: one task per agent with a failure counter, a
cancellation token, abort handles; the map of running agents; the list of
orchestrators. Hard: cancellation during a run, a sleep or a restart; replacing a
running agent. Correct when cancellation stops every loop, ten consecutive
failures give up, no clean exit is a failure, and the result of the process is how
its agents ended.

**User tool calls** (`agents/user_tools.rs`). State: a KV record per question,
pending, responded or expired, and the phase's budget. Hard: the answer races
the expiry, the count races the put. Correct when an answer is never
clobbered, at most one of answered/expired is announced, and no question is
asked without budget.

**Feed** (`crates/noolog-feed`). State: an append-only log per channel, a slug index
with revisions, create-only message-id indexes. Hard: record and index are two
writes. Correct when a slug names its owner's newest revision, never another
operator's, and a message id names the first record that carried it.

**The react loop** (`agents/nsed_agent.rs`). State, of one propose or evaluate
call: the conversation, the counters of three nested retry loops, the scratchpad
in memory and in its bucket, the token bill, what is known of the provider's
quirks. Operations: load the scratchpad, a turn (compaction, forced
finalisation), the model's reply, its tool calls, the screening of a submission,
a re-quote, a retry, giving up, cancellation. Hard: each loop resets some of this
state and not the rest; every exchange with the store may fail and is then only
logged; a future may be dropped at any await. Correct when only a screened
submission leaves, each reply is billed once, notes survive retries, tool calls are
shown to start and to end, every request pairs calls with results, and the loops end.

**Agents that run a program** (`agents/mcp_agent.rs`, `agents/claude_recovery.rs`,
`agents/exec_agent.rs`; `middleware/binary.rs` for a middleware). The Claude CLI
works on a session whose transcript outlives the child; its submission comes
through a server in the agent's process or is salvaged from the transcript. The
other two exchange one envelope for one output over pipes. Hard: an old call in a
transcript looks like a new one; a killed child leaves a lock; pipes fill.
Correct when a submission is of this task, no task fails for a lock, a verdict is
made of whole output and a call returns.

**LLM clients** (`llms/openai_compatible.rs`, `rate_limiter.rs`, `span.rs`). State: a
semaphore and next slot shared by requests, quirks learned of the model, the
heartbeat of a request's telemetry. Hard: retries of five kinds share one
counter; the caller may drop the request anywhere. Correct when sends keep their
distance, a quirk is paid for once, permits come back, and each start event has
one terminal event.

**Files and media** (`crates/noolog-files`, `pipeline.rs`). Object store, a pool of
open streams shared by readers, annotations under a lock, deletion. Correct when a
page holds the bytes asked for and acknowledged annotations stay.

**Session store** (`agents/session_store.rs`): a JSON map under a file lock. **Control
plane and dashboard** (`status/`, `control_plane.rs`): routing and snapshots.
**Middleware** (`middleware/`): a short-circuiting pipeline of plug-ins, of which a
binary is modelled as a program. **Repair** (`crates/llm-repair`), **cryptography**
(`crates/quorum-crypto-core`, `crypto.rs`, `kms.rs`), **JMAP types**, **NATS
utilities**, **configuration, CLI, TUI, wizard, prompts, tools**: see section 7.

### Interactions

    orchestrator --task--> JetStream --deliver--> worker --result/SKIP/.failed--> orchestrator
                                         |   ^
                              push       |   | pause flag
                                         v   |
    operator --HTTP--> review handlers --> response buffer --drain tick--> orchestrator
                              |
                        middleware (before_release)

    worker --propose/evaluate--> react loop --> LLM client --> provider
                                  |   |  \--> user questions --KV--> user
                                  |   \--> scratchpad --KV
              or Claude CLI, or an exec program over its pipes
    runner --supervises--> workers;  benched model --> heartbeat's report

## 2. The modules

| module | what it is |
| --- | --- |
| `TaskWorker` | the worker's task loop, JetStream, the processed bucket, crash |
| `MCTaskWorker` | its instances for TLC |
| `TaskWorkerProofs` | theorems about `TaskWorker` |
| `HeldResponse` | abstract: what holding a response promises |
| `ResponseBuffer` | the buffer and the drain loop; refines `HeldResponse` |
| `MCResponseBuffer`, `ResponseBufferProofs` | instances, theorems |
| `OperatorReview` | `ResponseBuffer` composed with the operators' requests |
| `MCOperatorReview` | its instances |
| `ReactLoop`, `MCReactLoop` | one propose or evaluate call of the LLM agent; instances |
| `History` | the conversation it keeps: compaction, pairing of calls and results |
| `ClaudePhase` | the tasks of one session worked by the Claude CLI |
| `SubprocessCall` | one call of an exec agent or a middleware binary over pipes |
| `LlmRequest` | requests to one model behind permits and the rate limiter |
| `RequestSpan` | the telemetry span of one request |
| `FeedIndex` | a feed channel: posts, slug and message-id claims, a paging reader |
| `UserQuestion` | abstract: what a question is to the user and the agent |
| `UserToolCall` | questions of an agent to its user; refines `UserQuestion` |
| `SharedNote` | abstract: what a store promises those who share a key |
| `ScratchpadAppend` | appends and sets of one scratchpad key; refines `SharedNote` |
| `AgentRunner` | the reconnecting loops, the watchdog and the join |
| `ModelBench` | benching an agent whose model is gone |
| `BlobReader` | paged reads over pooled streams; annotations; deletion |
| `MCAgentParts` | instances of the modules above it from `History` on, but the abstract ones |
| `ReviewProofs` | theorems about `OperatorReview`, on those of `ResponseBufferProofs` |
| `ReactProofs` | theorems about `ReactLoop` |
| `HistoryProofs` | theorem about `History` |
| `BucketProofs` | theorems about `UserToolCall` and `ScratchpadAppend`, the refinements among them |
| `CallProofs` | theorems about `LlmRequest`, `RequestSpan`, `SubprocessCall`, `ModelBench`, `ClaudePhase`, `AgentRunner` |
| `FileProofs` | theorems about `FeedIndex` and `BlobReader` |

**TaskWorker.** A handler is a process with a position `pc[h]` and a task `on[h]`; a
position is the code between two awaits. The names follow the code: `CheckDuplicate`
is `is_duplicate` and the parse, `StartTask` the insertion into `active_jobs` and the
spawn of the heartbeat, `BeforePrompt`, `Decide` (work or SKIP), `PublishSkip`, `AckSkip`,
`Succeed`, `PublishResult`, `MarkProcessed`, `AckDone`, `PushResponse`, `FinishTask`, `Fail`,
`FailPayment`, `ReportFailure`, `AckFail`. The order with a buffer is mark, ack, push; without
one it is publish, mark, ack; both are taken from the two arms at lines 2101 and
2150. `Beating(t)` says a heartbeat extends the lease of `t`: from `StartTask` until the
agent call ends, and for ever if the handler returned without aborting it
(`orphans`). The select loop is `Receive` and `LoopTick`, with the pause flag as it was
read at the top of the loop (`seenPaused`). `Deliver` is the server. The optional
events of the environment (what the agent, the operator, the network and the
process may do) are the set `Allowed`, so a run names what it exercises; faults
share the budget `MaxFaults`. An ack is a publish without a confirmation: `AckOk`
lets it be lost after it returned Ok.

**ResponseBuffer.** Public operations are atomic, as they hold the write lock.
Flags that are read before the lock is awaited make steps of their own:
`Complete`/`Enqueue` for a push, `DrainStart`/`DrainSweep` for the sweep,
`DrainGate`/`DrainPop` for the drain. Real time is reduced to the set `due` of entries
whose `release_at` has passed (`TimePasses`). The queue is a set, because a drain
takes every ready entry. `cooling` is a history variable: entries inside the 5 s
after a failed publish. `published` counts up to 2 so that a double publication
shows.

**OperatorReview.** An edit is `BeginEdit` (get_detail), then `RefuseEdit` or
`FinishEdit`; a release is `BeginRelease`, `Vet`, `WriteRewrite` if the middleware changed
the text, `ForceOut`. Everything of `ResponseBuffer` interleaves. The middleware is two
constants, `Refused` and `Rewrite`, for the release stage; at the edit stage it may
block or rewrite any edit. `trail` records what each Edit annotation says it
replaced; `vetted` what left the middleware. Requests of several operators on one entry
overlap, and then the code keeps less than one would wish, which the properties say:
`overtaken` are the entries a release wrote over with a text it had read before their
latest edit, and `LatestEditPublished` speaks of the others; `HashesResolve` says that the
hash of an edit is that of the draft, of an edit before it, or of what the middleware
made of one, but not that it is of the text that was replaced; `seen` is how many edits a
release had before it when it read its entry (or `Away`, when the entry was out of the
buffer), and `ManualReleaseVetted` speaks of releases that no edit came between. The
pipeline is configured only when
`MultiAgentStatusServer::run_control_plane` is called with one
(`status/multi_server/mod.rs:347`); `multi_agent.rs:251` passes None.

**HeldResponse.** Four phases per response and five actions. `Phase` in
`ResponseBuffer` is the refinement mapping; `sent <- sentAs`, `stopped` and `payload`
map to themselves.

**ReactLoop.** One call of `propose` or `evaluate` and the worker's retry around it.
`pc` goes `load` (the scratchpad is read), `turn` (compaction, `Turn` decides whether this
is a forced last turn), `ask` (`Reply` or `ApiError`), `tools` (the calls of the reply in
their order: `Note`, `Fold`, `OtherCall`, or `Submit`), `judge` (`Accept`, `Requote`,
`Retry` or `GiveUp`). A call is `StartCall`, the publish of its Started event (`announce`;
`Announce` ends it and arms the guard), the tool, the publish of its Finished event
(`record`) and `Record`, which disarms the guard. Either publish may fail, and its ack is not
waited for; `begun` and `ended` count the events that got out, `slips` those that did not or
whose publish was cut off. The loops nest as in the code: `iter` inside `attempt` inside `try`,
and each entry resets what the code resets there and nothing else: `Load` the loop's
counters, `RestartConfig` the request's settings; `Retry` keeps or changes `room` and
`effort`, as the failure asks, and resets neither. The locals of `react_loop` go when it
returns (`Fresh`). `Abandon` is the caller dropping the future at any await; what still happens
then is the guard that reports a call as cancelled (`ReportCancelled`): not before it is
armed, and also while the call's own Finished is on its way. `tokens` is the
bill in its three accumulators, `owed` what it should be. `Settings` are tasks: phase,
declared schema or not (`forced`), whether the provider refuses a forced choice,
guard and reviewer. A submission is a record of what the screening tells apart.

**History.** The conversation with native tools. Messages are a role and call ids.
`Request` is what a turn sends, the copy on which `pair_orphan_tool_calls` has run; `Ask`
the reply, pushed with the calls it made (`assistant`) or, when they were found in its
text as bare JSON, without them (`prose`); `Execute` a result, `CutShort` a terminal call cut
by max_tokens, which gives up the rest of its batch; `Lose` a request lost in transport;
`Compact` folds; `Retry` leaves the loop, in the middle of a batch perhaps, and begins the
next attempt with the paired conversation and an error. The text of messages is left
out. `RunEnd` is where the results
behind a reply end, `Missing` the calls of it that none of them answers, `WithStubs` a
message with the stubs that go behind it: the code walks the conversation and pushes
into a new one, the model says what stands at each place of the result.

**ClaudePhase.** Tasks in order, each with its kind and directory. `Spawn` notes the
transcript's size, `CallTool` is the child, `EndChild` how it ends, `Succeed` takes the
server's call or the salvaged one (`Result`), `Again` is the second attempt, `WaitOut` a
rate limit, `GiveUp` the error. `Forget` removes a worktree's transcript between tasks.

**SubprocessCall.** Lengths count pipefuls. `kind` is fixed at the start: `middleware`
feeds and drains at once under one timeout, `exec` writes everything first (`doing` =
"writing") and starts its readers and its timer after. The program decides what to do
next (`Decide`) and then waits for its pipe; `held` is a process it left behind.

**LlmRequest, RequestSpan.** Time is ticks, relative: `wait` until a request's timer,
`ahead` until the limiter's next slot. `Reserve` takes a slot, `Send` uses it, and the
provider's answer is one of `Ends`, `Overflows`, `RefusesName`, `WantsPayment`, `Throttled`.
`gap` and `refused` are history variables. In `RequestSpan` the caller (`CancelHeartbeat`,
then `Terminate` after the join, or `DropSpan`) and the heartbeat (`BeatTicks`, `BeatEmits`,
`BeatEnds`) run on two threads, with `select!` biased to the cancellation.

**FeedIndex, UserToolCall, ScratchpadAppend.** Each call is a process whose steps are
the bucket operations: `AppendRecord`, `ReadSlug`, `Claim`, `Verdict`, `MailChannel`, `MailSender`;
`Count`, `Put`, `Hear`, `TimeOut`, `ReadRecord`, `Expire`, `Reply`; `ReadEntry`, `Commit`,
`LoseRace`, `Set`.
A revision is modelled by what a compare-and-set compares. Any step may fail as the
store may (`StoreFails`, `StoreError`, `LoseWatch`), a lost acknowledgement included: a
question whose `Put` was stored but not confirmed is seen by the user while the agent
is told of an error, and a set may be stored and answered with an error. `Expire` sends the
compare-and-set and `Reply` tells the agent, after the ack and the event about the expiry
were waited for; a task dropped in between leaves a withdrawn question of which its agent
never heard. The orchestrator's half of a user call (`Answer`) is external.

**UserQuestion, SharedNote.** What the callers of the two are promised, with no count,
watch, revision or retry. A question is asked once, answered or withdrawn but never
both, and the agent is told at most once: of a withdrawn question that nobody answered,
if it still hears. An append or a set takes effect at one moment, at most once, on the
value it finds, and before its caller is answered; an answer of "error" leaves open whether
it did. In the
mappings a question's `record` is its `status` and `told` its `answer`; a note's `text` and
`told` map to themselves, and the calls that took effect are those that are in the text
or were written over by a set.

**AgentRunner.** `RunEnds` and `RunFails` are `worker.run()` returning, `Wake` the top of the
loop, `Abort` the watchdog and `AbortLands` the abort taking effect at an await; `Join`
consumes the handles in their order. **ModelBench** keeps the remaining time (`left`)
instead of a deadline; counting a strike and arming are two steps, of a handler
(`CountStrike`, `ArmBench`) or of the heartbeat's probe (`CountProbe`, `ArmProbe`), as the
atomics are written one after the other.

**BlobReader.** A byte is its position. `Take` claims a parked stream at the offset or
`Open` makes one, `Read` advances it, `Park` returns it to the pool and evicts the
oldest. Annotating is `Lock`, `ReadNotes`, `WriteNotes`; deletion takes no lock.

**MCAgentParts.** These modules share no state, so a behaviour of `PartSpec` is one of
twelve `part`s (feed, user call, scratchpad, runner, bench, claude, history, request,
pages, notes, span, program) and the rest stands still. It composes nothing: it is
one model-checking run for components that are checked each by itself. `PhaseSpec`
is the claude part alone; `ExecSpec` the program part alone, of an exec program that
never stops between two of its steps and leaves no process behind.

Definitions named `Wrong...` and a few others marked as mutated forms are slips the
code could have had. No specification uses them; each is put in place of the
definition it follows to see a property fail.

## 3. The runs

Passing:

| run | configuration | properties |
| --- | --- | --- |
| `worker_immediate` | no buffer, no cap, two tasks of one session, one unreadable; skips, failures, payment errors, blocks, pauses, stalls, crash, failed and lost acks, KV and publish errors | `AckedMeansAnswered`, `ProcessedMeansAnswered` |
| `worker_buffered` | buffer, cap of one, three handlers, two sessions | `SingleFlight`, `OneResultPerTask`, `JobsBounded`, `WorkingJobReported` |
| `worker_live` | no buffer, cap of one, fair; failures and faults | `EveryTaskSettled` |
| `buffer_safety` | two responses that arrive stopped, auto-approve on and toggled, every operation, two failed publishes, fair | `InOnePlace`, `BatchIsReleasable`, `KeepsPromise`, `EveryResponseLeaves` |
| `review` | two operators on one entry, a failed publish, middleware that blocks one text and rewrites another | `LatestEditPublished`, `HashesResolve`, `ManualReleaseVetted` |
| `react` | a proposal with guard and reviewer, one with a declared schema, a guarded evaluation; any replies, provider, store and cancellation failures | `SubmissionScreened`, `BilledOnce`, `NotesSurvive`, `CallsPaired`, `ToldToFinish`, `Terminates` |
| `agent_parts` | the twelve parts of `MCAgentParts` | see below |

`agent_parts` checks, by part: feed: `IndexesTrue`, `PagingComplete`; user call:
`QuestionKept`, `PendingBounded`; scratchpad: `AppendsAtomic`; runner:
`EndingReported`, `CancelReturns`; bench: `BenchHolds`, `RejoinsWhenUp`; claude: `ResultIsFresh`,
`LockNeverFatal`; history: `RequestsMatch`; request: `SendsSpaced`, `QuirkPaidOnce`,
`RequestsEnd`; span: `SpanClosed`; program: `VerdictSound`, `DrainBounded`; pages:
`WindowsRight`; notes: `NotesKept`.

What they show. *Immediate delivery loses nothing*: whatever step fails or is
cut, a task that JetStream will not deliver again has a result, a SKIP, a
`.failed` marker, or was withheld by a payment error; and the dedup check never drops
a redelivery whose result is not out. *Buffered delivery answers once*: mark and
ack before the push close the window in which a redelivery could answer again,
at the price section 6 describes. *One at a time*: with the heartbeat alive while
the agent works, no two handlers work one task, and the cap of the consumer
bounds running handlers. *Settlement*: from any combination of two faults the
redelivery machinery brings each task to an ack and an answer. *The buffer
conserves*: no failed publish loses or doubles a response, nothing stopped or
rejected goes out, the buffer with its drain loop is indistinguishable from
`HeldResponse`, and every response leaves once nobody holds it. *Review*: an
operator's last edit is what is published, unless a release had read the entry before
and writes it back; the audit hashes lead back to the draft; what a release lets out was
vetted, unless an edit or the drain came in between. *The react loop*: by whichever of its
retries, repairs and re-quotes a submission was obtained, it was screened; each
reply of the model is on the bill once; what the model noted is what a retry
reads; the loops end in a submission, an error or a cancellation. *Buckets*:
races on a revision lose no append and clobber no answer: with all their counts,
watches and retries the calls are indistinguishable from `UserQuestion` and
`SharedNote`; and two operators that claim one slug do not both win. *Supervision*:
cancellation ends the runner with a worker blocked for ever, what the runner returns
is how its agents ended, and a model that came back is benched no more. *Calls*:
sends keep the limiter's distance through retries and drops, each request gives
its permit back, each start event has one terminal event, a verdict is made only
of an exited program's whole output. *Files*: a page served from another reader's
stream holds the right bytes.

Runs that refute a statement of the documentation or of a comment (section 6):
`worker_blocked`, `buffer_hot_retry`, `react_eval_notes`, `claude_stale`, `exec_blocked`.

`CHECK_DEADLOCK FALSE` appears in the configurations of the worker, of the react
loop and of the parts: they really come to rest, with every task settled, a call
returned, or every post and request done. The buffer and the review always have an
operator or a timer left to act.

## 4. Bounds and fairness

Worker, buffer, review:

* `Tasks`: two. The properties are about one task, or about two handlers of one
  task, or one task blocking another; a second task supplies the interference
  (the cap, the shared `active_jobs`).
* `Handlers`: deliveries present in the process at one time. Two give a delivery and
  its redelivery; three, in `worker_buffered`, a redelivery beside another task.
* `MaxFaults`: two. One fault starts a recovery, the second hits the recovery. In
  `review` one: it puts the entry back under the requests.
* `Operators`: two, so that an edit or a release comes between another's read and
  write. An operator begins again after each request.
* `Entries`: two in the buffer runs, as batches and re-enqueues need a companion; one
  in the review runs, where the interplay is between requests on one entry.
* `MaxNotes`: annotations per entry, one or two; it bounds edits and comments, and
  two edits, one of each operator, are what `HashesResolve` needs.
* `results` and `published` count to 2, which stands for "more than once".
* Contents: the draft, its clean form (what the middleware makes of the draft and an
  operator may write), and a text it blocks.

Handler identities are interchangeable, and so are the operators'; no liveness is
checked where `HandlerSymmetry` or `OperatorSymmetry` is used.

React loop: three iterations of which the last is the finalisation window, one
structured-output retry, one task retry, one re-quote, a budget of six ticks with
turns of one or two: each loop is left by success, by its limit and by the clock.
Two calls in a reply let a submission come before or after another call.
`RoomLevels` = 0 starts at the ceiling of `max_tokens`, where the raise gives no more
room; no property depends on the number of raises. One kind of section in `react`,
whose properties only compare the scratchpad in memory with the stored one; three in
`react_eval_notes`, of which an evaluator sees one. A call that is a note or a fold stands
for every other: `OtherCall` takes the same steps.

Parts: three posts, two of one operator and one of another that carries the message id
and may be a draft, in a log of two before reposts stop; page size one, so that a
reader turns pages between posts. Three questions, two at a time, limit one. Three
appenders, one setter, two attempts: a third loser gives up. Two agents, two
failures. A bench from 2 to 6 ticks, so that doubling meets the cap; a refresh of
one tick. Three Claude tasks in one directory, one rate-limit wait, two calls in a
transcript. Eight messages, six ids, batches of two, `keep_last` of 0 (treated as
1) and 2. Three requests on two permits, two tries, payment sleeps up to 2 in a
budget of 3, spacing 2. Two heartbeats. An envelope and a verdict of two
pipefuls, output up to four, a read limit of three: the output fits, is cut, or
fills pipes. Two readers, two objects of three bytes, windows to two, a pool of one:
every second park evicts. Three annotations.

Two constants switch off a fault the code has, because the property then fails;
both are recorded in section 6. `CountFaults` FALSE: the count of pending questions
sees every record (with TRUE `PendingBounded` fails). `NotesFaults` FALSE: reading
stored annotations succeeds (with TRUE `NotesKept` fails).

Fairness.

* The worker: each handler's steps are weakly fair (tokio polls every spawned task;
  calls to agents have timeouts), the select loop turns, the 500 ms drain fires, and
  the server delivers what it may deliver.
* The buffer: the drain loop runs, the lock is granted (tokio's RwLock is fair), time
  passes. `EveryResponseLeaves` has its premise in the formula: from some time on
  nobody pauses the buffer or keeps the entry stopped.
* The react loop: `Step` as a whole; every await of the call has a timeout.
* The runner: spawned loops are polled, sleeps end, an abort lands, the join goes on
  (`GoesOn`, `Collects`); `worker.run()` itself may block for ever. The bench: the clock
  (`Tick`) and the straight-line stores (`Stores`; a refresh has a timeout). The Claude
  phases: `ClaudeStep`. Requests: time (`Pass`) and each request's steps. A program:
  the caller alone; the program is fair only in `ExecSpec`, where it makes the
  refutation stronger: not even a program that keeps working unblocks the call.

Nothing is assumed of operators, users, agents' and providers' choices, lost
watches, or faults, whose number is bounded in the worker and the buffer and free
elsewhere.

## 5. Proofs

`tlapm` checks every step below; no fact is assumed beyond the named assumptions on
the constants (`TaskWorkerAssumption`, `ReactAssumption`, `FeedAssumption` and so on, one
or two per module), which only type the constants and keep marks like `Nothing` apart
from what they are not, and which TLC evaluates in the runs. Every safety property the
passing runs check is a theorem, and so are the three refinements. A theorem that needs more than
`Spec` says so in its statement, and the hypothesis is always a case the code or its
environment really has; where it fails the property is false, and section 6 has the
behaviour. The hypotheses:

| hypothesis | theorems | why |
| --- | --- | --- |
| no buffer; no lost `.failed` marker | `NoTaskVanishes`, `DropsAreDuplicates` | a crash after a buffered ack, and the best-effort marker, lose the answer |
| `Steady`; a buffer; no crash, no ack that fails, no lost `.failed` marker | `BufferLosesNothing` | between the mark and the push the response is in one handler's hands only |
| `Steady`: no stall, no pause, no payment error that pauses the loop | `OneHandlerPerTask`, `JobsLimited`, `ResultsOnce` | a step that outlives `ack_wait`, and a pause over prefetched deliveries, put two copies to work |
| `JobsApart`: no two deliveries of one job in the process | `JobsReported` | they share one member of `active_jobs` |
| `Settles`: the release stage leaves its own output alone | `LatestEditGoesOut` | an edit it rewrote is rewritten again by a release |
| `~CountFaults`, `~NotesFaults` | `PendingLimited`, `NotesStay` | a listing or a sidecar that fails to be read counts as empty |
| every task in the configured directory | `ResultsFresh` | the code bug `claude_stale` shows |
| every task a proposal | `AppendsKeepNotes` | the divergence `react_eval_notes` shows |

**TaskWorkerProofs**

* `TypeCorrect`: `Spec => []TypeOK`.
* `NoTaskVanishes`: if there is no buffer and `.failed` markers are not lost,
  `Spec => []AckedMeansAnswered`. The property is not inductive: a handler about to
  ack must already know the answer out, and the dedup check that sends a
  redelivery to the drop must too. The invariant `AckInv` adds both (`AckingDone`,
  `DropsDone`) and replaces "answered" by `Done`, the answers nothing can take back
  (a response that is only in memory is not among them). `AnswersStay` shows that
  `Done` never shrinks; `QuietStep` and `AckStep` say which changes of the handlers'
  positions keep `AckInv`; then one case per action. The two hypotheses are where
  the code gives the guarantee up: the crash after a buffered ack (section 6), and
  the marker that is published best-effort at line 2364.
* `DropsAreDuplicates`: under the same hypotheses, `Spec => []ProcessedMeansAnswered`.
* `OneHandlerPerTask` (`SingleFlight`). `FlightInv`: no two handlers have one task
  (`Exclusive`), a queued task has no handler, and what a handler has not acknowledged
  is on the server as delivered. The last is why the server delivers nothing twice
  while the heartbeat beats: `DeliveredFresh` needs the lease, and the lease needs the
  handler's position.
* `JobsLimited` (`JobsBounded`). The consumer bounds the unacknowledged tasks
  (`LimitInv`, about the cardinality of a finite set); running handlers inject into
  those by `Exclusive`, which is the step from tasks to handlers.
* `JobsReported` (`WorkingJobReported`): a step takes only its own job out of
  `active_jobs` (`StepJobs`), so another handler loses its mark only by sharing it.
  `SessionsReported` gives the configuration of the run: one task per session.
* `ResultsOnce` (`OneResultPerTask`), with a buffer. `SentInv`: results that are out or
  held are at most one per task and only of processed tasks (`Tally`); a handler works
  only what is not processed, and holds a response only to what has none (`Rightly`).
  The check of the processed bucket is long before the write to it; `Exclusive` keeps
  the other copy out in between.
* `BufferLosesNothing` (`AckedMeansAnswered`), the buffered half of `NoTaskVanishes`: with a
  buffer the task is marked and acked while the response is still with the handler.
  `HeldInv` counts such a response (`Have`: out, in the buffer, or at "push"), and lets a
  marked task have none only while its handler stands at the ack. A drop then needs
  that the other handler is not there, which is `Exclusive` of `FlightInv`.

**ResponseBufferProofs**

* `TypeCorrect`: `Spec => []TypeOK`.
* `Conservation` (`InOnePlace`) and `ReleasableBatches` (`BatchIsReleasable`): the two are
  inductive together with `TypeOK`: an entry may be put back after a failed publish
  only because the batch is disjoint from the buffer and from what is out.
* `Implements`: `Spec => KeepsPromise`, by step simulation: initial states map to
  initial states, and each action to `Accept`, `Revise`, `SetStopped`, `Release`, `Discard` or a
  stutter. `SamePlaces` is the lemma for the many steps that move an entry among the
  places that count as held. `Release` needs `BatchIsReleasable`: an entry is published
  steps after the `stopped` flag was looked at, and the promise speaks of the flag at
  the time of the publication.

**ReviewProofs**, of `ReviewSpec`; extends ResponseBufferProofs

* `ReviewTypeCorrect`, `ReviewConserves` (`InOnePlace`) and `ReviewImplements`
  (`KeepsPromise`): whatever requests overlap, the buffer under review keeps its
  invariant and its promise. `ReviewStep` reduces a review step to a step of the buffer
  or the write-back of a rewrite, so the buffer's own lemmas do the rest.
* `LatestEditGoesOut` (`LatestEditPublished`), `TrailResolves` (`HashesResolve`),
  `ReleasesAreVetted` (`ManualReleaseVetted`), for any operators with any overlapping
  requests and any failed publishes. What is published says nothing of what is about to
  be: `ContentIsLatest` adds that every entry that no release has overtaken says a form of
  its latest edit, `ReadIsLatest` that a release which has seen every edit read such a
  form. `NothingOvertaken` is why without middleware no edit is lost. For the hashes,
  `ContentIsKnown` and `ReadIsKnown` trace every content in the buffer and in a request to
  the draft or to an edit; `Derived` closes a content under the middleware, which an entry
  may meet more than once. For the releases, `VettedOrEdited`: a release about to force its
  entry has either vetted what the entry says, or an edit came since it read it, or it
  met the entry away. `SeenBefore` counts the edits. `RequestEffect` and `BufferEffect` say
  all that a request, and everything else, can change of contents.

**ReactProofs**, of `ReactLoop`

* `TypeCorrect`, `SubmissionsScreened`, `RepliesBilledOnce`, `NotesAreStored`,
  `CallEventsPaired`, `WarnedBeforeStuck`: parts of one invariant `ReactInv`, for any limits,
  budget and settings. None is inductive alone. `BilledOnce` speaks of the submission;
  `Billed` ties the replies owed to the three accumulators while the loop turns, and to
  two of them where the loop's own has been written off. `SubmissionScreened` needs
  `Judged`, that a call that reaches the judge was not cut, and `ToldToFinish` that the
  turns of the window were told. `CallsPaired` needs `Underway`: what has been counted of a
  call that is being announced, runs, or is being recorded. `Control` says where the loops can be.
* `AppendsKeepNotes` (`AppendKeepsNotes`), for proposals.
* `NeverGoesBack`, the safety half of `Terminates`: every step of a task ends it, or
  counts one of `try`, `requotes`, `attempt`, `iter` up with those outside it unchanged, or
  goes forward inside the turn (`Advances`). Each counter is bounded by `TypeCorrect`, so
  no behaviour goes round: the loops' resets never undo progress of an outer loop. That
  the steps are taken is fairness, which TLC checks.

**BucketProofs**, of `CallSpec` and `PadSpec`

* `QuestionsKept`: `CallSpec => QuestionKept`, and `AppendsAreAtomic`: `PadSpec => AppendsAtomic`,
  for any number of calls, by step simulation. `Untold` (a call that has not returned
  told nothing) makes each return the one `Tell` of its question; an expiry is the
  `Withdraw`, because the compare-and-set met a pending record, and the word of it an
  `Abandon` later. An append
  takes effect at the write that wins its revision, where `BasedOnRevision` makes the
  value it computed the stored one with its text behind, and `Comparing` keeps sets from
  that write; a lost return is the `DoAppend` that says "error".
* `AgentToldTheTruth` (`ToldTheTruth`) and `AnswersKept` (`AnswerKept`), invariants those
  refinements rest on, for any number of questions and lanes, with lost counts. `CallInv` adds that a call about to expire its
  record read it as pending; the compare-and-set then can only meet a pending
  record, and from pending to responded is the user's step alone.
* `AppendsDurable` (`AppendDurable`), for any appenders, setters and attempts. `PadInv`
  adds `BasedOnRevision`, that an equal revision means the value a call read is still
  the stored one, and `NothingWritten`, that a call under way is not in the value yet:
  together they make the write at the revision an append and not a replacement.
* `PendingLimited` (`PendingBounded`). `LimitInv` bounds the records and the calls that are
  about to store one (`Putting`) together: each lane that passed the count is counted
  before its record exists. Cardinalities from FiniteSetTheorems.

**CallProofs**, of `LlmSpec`, `SpanSpec`, `SubprocessSpec`, `BenchSpec`, `ClaudeSpec` and the
steps of `AgentRunner`

* `LimiterKeepsDistance` (`SendsSpaced`). `LimiterInv`: the slots that were handed out are
  pairwise `Spacing` apart, all before `ahead`, and none is closer to the last send
  than `Spacing`. Abandoned slots stay taken, which is why dropping a request breaks
  nothing.
* `QuirkIsPaidOnce` (`QuirkPaidOnce`). What does not grow past `Permits` is `Payers`: the
  requests that were refused, and those in flight that may still be. A new request
  enters `Payers` only until the quirk is learned, and then only under a free permit;
  the cardinality facts come from FiniteSetTheorems.
* `SpansClosed` (`SpanClosed`). `SpanInv`: before a terminal event the heartbeat has been
  told to go, so that at most the emission it was in the middle of can follow.
* `VerdictsSound` (`VerdictSound`). `PipeInv`: what was written to a stream is what was
  taken and what is in the pipe, and stdin is closed only after the whole input or a
  broken pipe.
* `BenchHeld` (`BenchHolds`), for every base, cap and number of strikes. `Counted`:
  whoever arms a deadline has counted a strike of its own before. That a doubling is at
  least one is `PowerOfTwo`, by counting subsets.
* `LockCleared` (`LockNeverFatal`). `LockInv`: a second attempt carries no lock in its
  environment, so "session in use" can only be the end of a first one.
* `ResultsFresh` (`ResultIsFresh`). `FreshInv`: what lies in the transcript past the noted
  size is of the task's own child. The salvage takes the last usable call past it, whose
  existence is `GreatestElement`.
* `EndingsReported` (`EndingReported`). `JoinSound`: the join goes through the loops in
  order, and what it has recorded are the faults among those it has passed, which are
  over and stay so. With `WithinLimit` (a loop gives up at its last failure, not before)
  and `ShutDown` (nothing is aborted or stopped before the cancellation) an `Ok` means
  that every loop was shut down. An empty list of agents is kept out by the assumption.

**HistoryProofs**, of the steps of `History`

* `RequestsPaired` (`RequestsMatch`), for conversations of any length, replies of any number of
  calls and any thresholds. `HistoryInv`: at every moment the conversation is `Orderly`
  (each result lies behind the reply whose call it answers, after nothing but results,
  no call is answered twice), and the calls still to run are calls of its last reply
  that nothing answers (`Awaits`). An orderly conversation need not be matched: a
  batch may be cut short anywhere. Three things are shown. What `FlattenSeq` computes:
  the library gives it by recursion and its theorems take operators, so the induction is
  over a set of naturals, from the well-foundedness of their order (`Induction`). The
  paired copy is the conversation with stubs behind its runs, so that each reply is
  answered and the orderliness stays. Compaction cuts in front of a reply, so that
  what it keeps begins with no result of a reply it drops.

**FileProofs**, of `FeedSpec` and `BlobSpec`

* `IndexesHold` (`IndexesTrue`), for any posts and senders. `FeedInv`: a post under way
  has its record in the log (`Mine`), a revision a claim read stands for an entry nobody
  else holds (`Unheld`), and what a post is told is so (`Told`). `Kept` is what every step
  keeps for the posts that do not move: records stay, the holder of the slug stays, a
  revision stands for one entry.
* `PermalinksStay`, an action property: no step alters or drops a record, hands a slug to
  another operator, or moves a message id to another record. A claim replaces an entry
  only at a revision that stands for its own operator's entry or for none (`Unheld`).
* `PagesComplete` (`PagingComplete`), for every page size. `PageInv`: what the reader was
  not shown is in the log and below the last id it saw. A page takes the newest; that
  its least element is above all it leaves is `PageIsNewest`, on cardinalities.
* `WindowsHold` (`WindowsRight`). `ReadInv`: every pooled stream stands where its key
  says, in the object its key says; a reader's stream stands at its offset before the
  read and at its end after.
* `NotesStay` (`NotesKept`). `NoteInv`: one writer holds the lock, and the copy it is about
  to write back contains the stored annotations.

The theorems of BucketProofs, CallProofs, FileProofs and HistoryProofs are about the
modules' own specifications, or, where a module names none (`History`, `AgentRunner`),
about its initial states and next-state relation; `agent_parts` checks the same
properties of the same next-state relations inside `PartSpec`. `ToldTheTruth`, `AnswerKept`
and `AppendDurable` are not in a run of their own: the refinements are.

Only model-checked: liveness (`EveryTaskSettled`, `EveryResponseLeaves`,
`Terminates`, `CancelReturns`, `RejoinsWhenUp`, `RequestsEnd`, `DrainBounded`) together with
fairness and ENABLED, which are out of the prover's reach.

## 6. Divergences

Shown by runs:

* `worker_blocked`. A before_prompt block (and likewise a failed SKIP publish or
  ack) returns with the heartbeat task alive; the delivery stays leased and counts
  against the cap.
* `buffer_hot_retry`. With auto-approve on, the default, the sweep cancels the 5 s
  back-off, so a failing publish is retried every 500 ms.
* `react_eval_notes`. An evaluator is shown part of its scratchpad; its first append
  writes that part over the whole.
* `claude_stale`. The salvage of a submission looks in the configured directory, the
  spawn and the noted transcript size are of the task's own directory: with an
  override a call of an earlier task is submitted again.
* `exec_blocked`. `run_subprocess` writes the envelope before anything drains the
  program's output and before the timeout begins: a program that writes first blocks
  the call for ever once the envelope is larger than a pipe.

Observed while reading, without a run. Worker, buffer, review:

* The buffered path acks first and pushes to memory after (`workers/mod.rs:2103`), so a
  crash loses the response although `workers/buffer.rs:48` says it stays until it is
  approved or expires. So does an ack that fails there: the handler returns without the
  push, and the redelivery is dropped as a duplicate, as the task is already marked.
  `BufferLosesNothing` is proved with both left out.
* Deliveries prefetched before a pause expire in the client's queue; copies run side
  by side after the resume, past `max_concurrent_jobs` (`workers/mod.rs:1050`).
* A skipped session stays in `active_jobs` (`workers/mod.rs:1961`), and so does a
  manifest's job of which no task arrives (line 1206).
* The `.failed` marker is published best-effort (line 2364): when it is lost the task
  is acked and nobody knows.
* The `else` branch of the select loop (about line 1177) cannot be reached: the
  interval arms are always enabled.
* The drain loop never runs the before_release middleware, which
  `docs/explanation/middleware.md:15` places before every publication.
* With two operators on one entry a release writes its rewritten text over an edit
  that was accepted meanwhile (`hitl_handlers.rs:891`), although an edit makes the operator
  the "owner" (`agents/mod.rs:270`); `LatestEditPublished` leaves these entries
  (`overtaken`) out.
* An edit accepted while another is with the middleware leaves a wrong hash behind: the
  later one's `original_content_hash`, "of the original payload before editing"
  (`agents/mod.rs:290`), is of the text read before (`hitl_handlers.rs:624`), which was no
  longer there. `HashesResolve` says what is left of the trail.
* An edit accepted between the vetting of a release and its `force_release` goes out past
  the release stage, the "full validation gate" of `docs/explanation/middleware.md:23`. So
  does an entry that was with the drain when the release looked for it, or wrote to it,
  and whose publish failed: a release that finds no entry skips the middleware and goes on
  to `force_release`. `ManualReleaseVetted` leaves these releases out.
* An edit the middleware rewrote is rewritten once more by a release; with a middleware
  that changes its own output what is published is a form of no edit.
* The listing handler's comment (`hitl_handlers.rs:440`) says it drains entries of
  previous jobs; nothing outside the tests calls `drain_stale`.
* Two tasks of one session share one member of `active_jobs`: when the first finishes,
  the second is not reported. `WorkingJobReported` is therefore checked with one task
  per session in flight, which is how the orchestrator's phases issue them.
* `AgentManager::register` runs the worker once, without the reconnect loop of
  `multi_agent.rs`; only its tests call it.

The react loop (`agents/nsed_agent.rs`) and the programs:

* The submission made up at the iteration limit is empty and is turned down by the
  screening (about 2044-2072), where a comment near 4200 says the caller's parse
  succeeds on the first try.
* With a declared schema an envelope without `solution_content` is turned down, which
  the comment near 899 says is accepted; a torn proposal whose solution is empty is
  accepted.
* Calls found in a reply as bare JSON run and are answered with tool messages, but the
  pushed reply is not given them (3692-3699), unlike those found as XML or Python, where
  the comment at 3680 says it is needed "so vLLM accepts the subsequent Tool messages";
  the pairing removes no result. `RequestsMatch` holds such a reply (`prose`) only to results
  of its own calls.
* The pairing runs in the native strategy only (`llms/strategies/native.rs:146`); Harmony
  and the XML strategy send the conversation as it is.
* The comment at 3815 says that the guard keeps a started event from sitting "unpaired
  forever". It does when the tool is dropped. A task dropped while Started is being published
  (3823) has no guard yet, one dropped while Finished is (4102) may show a second ending,
  and a Finished or a cancellation whose publish fails or is lost leaves the call open
  (`agent_events.rs:149` does not wait for the ack). `CallsPaired` counts those publishes.
* The phase budget begins anew with each structured-output retry. The tokens of a
  loop that an API error ended, and of the summariser, are on no bill (the comment
  at 1860 says no attempt's tokens are lost).
* A scratchpad that could not be read is empty; the next append overwrites the store.
* Compaction drops plain user and assistant messages it does not summarise, though
  its prompt asks for "User Messages".
* `run_phase` retries a timeout only when budget is left, and a timeout leaves none.
  The wrapper of rate-limit waits says it clamps to the phase budget
  (`mcp_agent.rs:1785`) and does not.
* A session lock that cannot be removed is only logged (`claude_recovery.rs:236`), and the
  next child may fail for it; `ClaudePhase` lets the removal succeed, works the tasks of
  a session one after another, and counts a collision without budget for a second attempt
  as a lack of budget.
* An exec envelope that fits into the pipe and is never read is accepted, though
  `exec_agent.rs:92` says such a proposal is rejected. Other stdin writes before
  readers: `mcp_agent.rs:1008`, 2077, 3537.

Buckets, calls, files, client:

* A slug can stay on an older revision when claims of one operator overtake one
  another; `get_by_slug` (`noolog-feed/src/lib.rs:289`) promises the newest.
* A task dropped between the compare-and-set of `expire_call` and the reply leaves a
  question that is withdrawn and of which the agent was not told (`user_tools.rs:441`).
* A failed listing counts no pending questions, and a question of a dropped task stays
  pending for ever and uses up the limit.
* "Paid once per process" (`openai_compatible.rs:149`) is once per request in flight;
  attempts are shared by all kinds of retry, so that an overflow after throttling is
  not shrunk (line 244).
* `span.rs:156` and 221 say no stalled event can follow the terminal one on the wire;
  every emission is published by a task of its own (`telemetry.rs:1198`), in any order.
* Annotations that cannot be read count as none and are then overwritten; deletion
  takes no lock and may come between an annotation's read and its write.
* Derived segments of a video are objects named by their content under one source
  (`noolog-files/src/hls.rs`): two videos that share a segment share its object, and
  deleting one removes it from the other.
* The thread view saves the whole thread it holds in memory (`cli/tui/views/thread.rs:259`)
  while background tasks append replies to the file (`cli/tui/client.rs:120`); each
  is a load and a save without a lock. `clear_pending_job` clears whichever job is
  pending, and a rejected launch (`cli/tui/mod.rs:361`) clears the marker of the job
  before it. A reply is put under the newest turn (`cli/thread.rs:457`), which is not
  the turn that launched it when a second one was sent meanwhile.

## 7. Not modelled, and why

Text: prompt assembly, repair of malformed model output, extraction of JSON from a
program's output, parsing strategies, configuration, TUI, wizard, telemetry wording,
the matching of citations (ReactLoop sees its verdict). Cryptography: sequential
library calls. Pure I/O: uploads, playlists, the staged pipeline, HTTP routing, the
MCP wire protocol. Data types: JMAP, events. Plug-ins loaded as libraries. The other
LLM clients are thin or scripted for tests. The session store: only `record` is
used outside tests, a critical section under a file lock. The agent manager: only its
tests call it. The conversation threads of the terminal client: user interface; what
was seen in them is in section 6.

In the modelled components: status events and telemetry other than a request's span,
passthrough requests (a reply without state), round summaries (a dashboard score),
job_complete hooks (best effort), annotations' signatures, the arithmetic of the
adaptive hold and of the divergence (the sweep is allowed or not, freely), and
`release`, `mark_for_release` and `drain_stale`, which only tests call. In TaskWorker the
buffer is a counter per task with an always-willing drain; its rules are
ResponseBuffer's business. A heartbeat that stops after a failed progress ack is
covered only by the `stall` event. In ReactLoop the conversation's content is History's
business, the tools themselves are `OtherCall`, and an event store is attached (without
one a call shows no events). In History native tools are on. An emergency shrink of the context
after a completed request is left out of RequestSpan. The orchestrator is not in the
repository; it is the reader of what agents publish.

## 8. Plan

Done: the worker, the buffer and the review; the react loop, the conversation, the
programs, the requests, the buckets, the supervision and the files; the three
refinements; and the theorems of section 5, which state every safety property the
runs check. What could follow, in this order:

1. TaskWorker composed with ResponseBuffer in place of its counter, shown to
   implement an abstract "answer each task" specification.
2. Modules for the client's conversation threads (view, background tasks and file)
   and for the derived segments of videos, whose hazards section 6 records.
3. The session store's record under its lock with a crash in the rewrite.

The runs stay one per question: a new component joins `agent_parts` as a part.
