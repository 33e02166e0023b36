----------------------------- MODULE TaskWorker -----------------------------
(***************************************************************************)
(* The task loop of one NATS agent worker (NatsNsedWorker, workers/mod.rs) *)
(* against its durable JetStream pull consumer: delivery and redelivery,   *)
(* the dedup check, the progress heartbeat that keeps a delivery leased,   *)
(* the SKIP, success (immediate or buffered) and failure paths, the pause  *)
(* flag, job accounting, and a crash of the process at any point.          *)
(*                                                                         *)
(* Every delivery is handled by its own tokio task, so a handler here is a *)
(* small process: each action is the code between two awaits whose order   *)
(* another handler, the server or an operator can observe.                 *)
(*                                                                         *)
(* A definition named Wrong... is a mutated form of the one after it: a    *)
(* slip the code could have had.  No specification uses it; it shows that  *)
(* a property would notice.                                                *)
(***************************************************************************)
EXTENDS Integers, FiniteSets

CONSTANTS
  Tasks,          \* task messages published for this agent
  Jobs,           \* deliberation sessions
  JobOf,          \* the session each task belongs to
  Poison,         \* tasks whose payload does not deserialize
  Manifests,      \* jobs whose manifest the worker has not handled yet
  Handlers,       \* bound: deliveries that are in the process at one time
  MaxAckPending,  \* the consumer's max_ack_pending; 0 is unbounded
  Buffered,       \* a response buffer is configured
  PropagatePaymentError,
  Allowed,        \* which optional events the environment may produce
  MaxFaults,      \* bound: faults that happen in one behaviour
  NoTask, NoJob

EventKinds ==
  { "skip", "block", "fail", "payment", "pause", "reject", "stall",
    "crash", "kv_error", "publish_error", "marker_error",
    "ack_error", "ack_lost" }

ASSUME TaskWorkerAssumption ==
  /\ JobOf \in [Tasks -> Jobs]
  /\ Poison \subseteq Tasks
  /\ Manifests \subseteq Jobs
  /\ MaxAckPending \in Nat
  /\ Buffered \in BOOLEAN
  /\ PropagatePaymentError \in BOOLEAN
  /\ Allowed \subseteq EventKinds
  /\ MaxFaults \in Nat
  /\ NoTask \notin Tasks
  /\ NoJob \notin Jobs

VARIABLES
  stream,      \* JetStream: the state of each task for this consumer
  processed,   \* the processed KV bucket: tasks marked done
  results,     \* results published per task: none, one, or more (2)
  skipped,     \* tasks answered with a SKIP
  failed,      \* tasks answered with a .failed marker
  withheld,    \* tasks the worker or operator left unanswered on purpose
  pc, on,      \* the handler's position and the task it handles
  orphans,     \* tasks whose heartbeat outlived its handler
  activeJobs,  \* active_jobs
  currentJob,  \* status.current_job
  buffer,      \* number of entries held per task
  paused,      \* the pause flag, of the worker and of its buffer
  seenPaused,  \* the value of the flag the select loop last read
  manifests,   \* manifests not yet acknowledged
  faultsLeft

server  == <<stream, processed>>
answers == <<results, skipped, failed, withheld>>
jobs    == <<activeJobs, currentJob>>
control == <<paused, seenPaused>>
vars == <<server, answers, pc, on, orphans, jobs, buffer, control,
          manifests, faultsLeft>>

-----------------------------------------------------------------------------
\* Positions of a handler.  "received" is a delivery in the client's prefetch
\* queue that the select loop has not taken yet.
Leased  == {"prompt", "decide", "skip", "ackSkip", "work"}
Running == {"start"} \cup Leased
Positions == {"idle", "received", "dedup", "ackDrop", "publish", "mark",
              "ackDone", "push", "finish", "report", "ackFail"} \cup Running

Handling(t) == {h \in Handlers : on[h] = t}
WrongBeating(t) == t \in orphans  \* no heartbeat while the agent runs
Beating(t)  == t \in orphans \/ \E h \in Handling(t) : pc[h] \in Leased
Unacked     == {t \in Tasks : stream[t] = "delivered"}

Goto(h, p) == pc' = [pc EXCEPT ![h] = p] /\ UNCHANGED on
Return(h)  == /\ pc' = [pc EXCEPT ![h] = "idle"]
              /\ on' = [on EXCEPT ![h] = NoTask]

\* handle_message returns without heartbeat_handle.abort(): the spawned
\* heartbeat goes on extending the deadline of this delivery.
ReturnOrphaning(h) == Return(h) /\ orphans' = orphans \cup {on[h]}

NoFault  == UNCHANGED faultsLeft
Fault(k) == /\ k \in Allowed /\ faultsLeft > 0
            /\ faultsLeft' = faultsLeft - 1

\* msg.ack() only queues the ack: it can succeed here and be lost on the way.
AckOk(t) == \/ NoFault /\ stream' = [stream EXCEPT ![t] = "acked"]
            \/ Fault("ack_lost") /\ UNCHANGED stream
AckError == Fault("ack_error") /\ UNCHANGED stream

OneMore(n) == IF n < 2 THEN n + 1 ELSE n
Publish(t) == results' = [results EXCEPT ![t] = OneMore(@)]

-----------------------------------------------------------------------------
Init ==
  /\ stream = [t \in Tasks |-> "queued"]
  /\ processed = {}
  /\ results = [t \in Tasks |-> 0]
  /\ skipped = {} /\ failed = {} /\ withheld = {}
  /\ pc = [h \in Handlers |-> "idle"]
  /\ on = [h \in Handlers |-> NoTask]
  /\ orphans = {}
  /\ activeJobs = {} /\ currentJob = NoJob
  /\ buffer = [t \in Tasks |-> 0]
  /\ paused = FALSE /\ seenPaused = FALSE
  /\ manifests = Manifests
  /\ faultsLeft = MaxFaults

(***************************************************************************)
(* The server.  A task goes out when fewer than max_ack_pending are        *)
(* unacked, and again when its 30 s ack_wait passes.  A live heartbeat     *)
(* keeps the lease.  Agent code is slower than ack_wait, a delivery in the *)
(* client's queue is while the loop is paused, and the other steps of a    *)
(* handler are assumed to be quicker unless "stall" is allowed.            *)
(***************************************************************************)
LeaseExpired(t) ==
  /\ stream[t] = "delivered"
  /\ ~Beating(t)
  /\ \A h \in Handling(t) :
        \/ "stall" \in Allowed
        \/ pc[h] \in Leased
        \/ pc[h] = "received" /\ seenPaused

WrongCanDeliver(t) == stream[t] = "queued" \/ LeaseExpired(t)

CanDeliver(t) ==
  \/ /\ stream[t] = "queued"
     /\ MaxAckPending = 0 \/ Cardinality(Unacked) < MaxAckPending
  \/ LeaseExpired(t)

Deliver(h, t) ==
  /\ pc[h] = "idle"
  /\ CanDeliver(t)
  /\ stream' = [stream EXCEPT ![t] = "delivered"]
  /\ pc' = [pc EXCEPT ![h] = "received"]
  /\ on' = [on EXCEPT ![h] = t]
  /\ UNCHANGED <<processed, answers, orphans, jobs, buffer, control,
                 manifests, faultsLeft>>

\* The select loop takes a message unless the flag it read at the top of the
\* loop was set; the next turn reads the flag again.
Receive(h) ==
  /\ pc[h] = "received" /\ ~seenPaused
  /\ seenPaused' = paused
  /\ Goto(h, "dedup")
  /\ UNCHANGED <<server, answers, orphans, jobs, buffer, paused,
                 manifests, faultsLeft>>

LoopTick ==
  /\ seenPaused # paused
  /\ seenPaused' = paused
  /\ UNCHANGED <<server, answers, pc, on, orphans, jobs, buffer, paused,
                 manifests, faultsLeft>>

-----------------------------------------------------------------------------
WrongCheckDuplicate(h) ==  \* the bucket is read and the answer not used
  /\ pc[h] = "dedup"
  /\ NoFault /\ Goto(h, "start")
  /\ UNCHANGED <<server, answers, orphans, jobs, buffer, control, manifests>>

\* is_duplicate, then the payload is parsed.
CheckDuplicate(h) ==
  /\ pc[h] = "dedup"
  /\ \/ NoFault /\ Goto(h, IF on[h] \in processed \cup Poison
                           THEN "ackDrop" ELSE "start")
     \/ Fault("kv_error") /\ Return(h)
  /\ UNCHANGED <<server, answers, orphans, jobs, buffer, control, manifests>>

\* A duplicate or a poison pill is acked and dropped.
AckDrop(h) ==
  /\ pc[h] = "ackDrop"
  /\ AckOk(on[h]) \/ AckError
  /\ Return(h)
  /\ UNCHANGED <<processed, answers, orphans, jobs, buffer, control, manifests>>

\* The job becomes active, the dashboard shows it, the heartbeat is spawned.
StartTask(h) ==
  /\ pc[h] = "start"
  /\ activeJobs' = activeJobs \cup {JobOf[on[h]]}
  /\ currentJob' = JobOf[on[h]]
  /\ Goto(h, "prompt")
  /\ UNCHANGED <<server, answers, orphans, buffer, control, manifests, faultsLeft>>

\* before_prompt passes, or blocks: the `?` returns with the heartbeat alive.
BeforePrompt(h) ==
  /\ pc[h] = "prompt"
  /\ \/ Goto(h, "decide") /\ UNCHANGED orphans
     \/ "block" \in Allowed /\ ReturnOrphaning(h)
  /\ UNCHANGED <<server, answers, jobs, buffer, control, manifests, faultsLeft>>

\* task_disposition: the agent's strategy works the task or sits it out.
Decide(h) ==
  /\ pc[h] = "decide"
  /\ \/ Goto(h, "work")
     \/ "skip" \in Allowed /\ Goto(h, "skip")
  /\ UNCHANGED <<server, answers, orphans, jobs, buffer, control, manifests,
                 faultsLeft>>

PublishSkip(h) ==
  /\ pc[h] = "skip"
  /\ \/ /\ NoFault
        /\ skipped' = skipped \cup {on[h]}
        /\ Goto(h, "ackSkip")
        /\ UNCHANGED orphans
     \/ Fault("publish_error") /\ ReturnOrphaning(h) /\ UNCHANGED skipped
  /\ UNCHANGED <<server, results, failed, withheld, jobs, buffer, control, manifests>>

\* The skip path returns without aborting the heartbeat, without leaving
\* active_jobs and without clearing the dashboard's current job.
AckSkip(h) ==
  /\ pc[h] = "ackSkip"
  /\ AckOk(on[h]) \/ AckError
  /\ ReturnOrphaning(h)
  /\ UNCHANGED <<processed, answers, jobs, buffer, control, manifests>>

-----------------------------------------------------------------------------
WrongSucceed(h) ==  \* marked before it is published, buffer or not
  /\ pc[h] = "work"
  /\ Goto(h, "mark")
  /\ UNCHANGED <<server, answers, orphans, jobs, buffer, control, manifests,
                 faultsLeft>>

\* The agent answers.  Retries of transient transport errors stay inside
\* "work".  The heartbeat is aborted here, before anything is published.
Succeed(h) ==
  /\ pc[h] = "work"
  /\ Goto(h, IF Buffered THEN "mark" ELSE "publish")
  /\ UNCHANGED <<server, answers, orphans, jobs, buffer, control, manifests,
                 faultsLeft>>

WrongPublishResult(h) ==  \* the heartbeat is aborted only after the publish
  /\ pc[h] = "publish"
  /\ \/ NoFault /\ Publish(on[h]) /\ Goto(h, "mark") /\ UNCHANGED orphans
     \/ Fault("publish_error") /\ ReturnOrphaning(h) /\ UNCHANGED results
  /\ UNCHANGED <<server, skipped, failed, withheld, jobs, buffer, control,
                 manifests>>

\* before_publish and publish; either error returns with the job still active.
PublishResult(h) ==
  /\ pc[h] = "publish"
  /\ \/ NoFault /\ Publish(on[h]) /\ Goto(h, "mark")
     \/ Fault("publish_error") /\ Return(h) /\ UNCHANGED results
  /\ UNCHANGED <<server, skipped, failed, withheld, orphans, jobs, buffer,
                 control, manifests>>

MarkProcessed(h) ==
  /\ pc[h] = "mark"
  /\ \/ /\ NoFault
        /\ processed' = processed \cup {on[h]}
        /\ Goto(h, "ackDone")
     \/ Fault("kv_error") /\ Return(h) /\ UNCHANGED processed
  /\ UNCHANGED <<stream, answers, orphans, jobs, buffer, control, manifests>>

AckDone(h) ==
  /\ pc[h] = "ackDone"
  /\ \/ AckOk(on[h]) /\ Goto(h, IF Buffered THEN "push" ELSE "finish")
     \/ AckError /\ Return(h)
  /\ UNCHANGED <<processed, answers, orphans, jobs, buffer, control, manifests>>

WrongPushResponse(h) ==  \* acked, never pushed
  /\ pc[h] = "push"
  /\ Goto(h, "finish")
  /\ UNCHANGED <<server, answers, orphans, jobs, buffer, control, manifests,
                 faultsLeft>>

PushResponse(h) ==
  /\ pc[h] = "push"
  /\ buffer' = [buffer EXCEPT ![on[h]] = @ + 1]
  /\ Goto(h, "finish")
  /\ UNCHANGED <<server, answers, orphans, jobs, control, manifests, faultsLeft>>

WrongFinishTask(h) ==  \* every job leaves the set with this one
  /\ pc[h] = "finish"
  /\ activeJobs' = {} /\ currentJob' = NoJob
  /\ Return(h)
  /\ UNCHANGED <<server, answers, orphans, buffer, control, manifests, faultsLeft>>

FinishTask(h) ==
  /\ pc[h] = "finish"
  /\ activeJobs' = activeJobs \ {JobOf[on[h]]}
  /\ currentJob' = NoJob
  /\ Return(h)
  /\ UNCHANGED <<server, answers, orphans, buffer, control, manifests, faultsLeft>>

-----------------------------------------------------------------------------
WrongFail(h) ==  \* acked with nothing sent to the round's collector
  /\ pc[h] = "work" /\ "fail" \in Allowed
  /\ activeJobs' = activeJobs \ {JobOf[on[h]]}
  /\ Goto(h, "ackFail")
  /\ UNCHANGED <<server, answers, orphans, currentJob, buffer, control,
                 manifests, faultsLeft>>

\* The agent failed: heartbeat aborted, the job leaves active_jobs; a payment
\* error that is not propagated pauses the worker and its buffer.
Fail(h) ==
  /\ pc[h] = "work" /\ "fail" \in Allowed
  /\ activeJobs' = activeJobs \ {JobOf[on[h]]}
  /\ Goto(h, "report")
  /\ UNCHANGED <<server, answers, orphans, currentJob, buffer, control,
                 manifests, faultsLeft>>

FailPayment(h) ==
  /\ pc[h] = "work" /\ "payment" \in Allowed
  /\ activeJobs' = activeJobs \ {JobOf[on[h]]}
  /\ paused' = (paused \/ ~PropagatePaymentError)
  /\ withheld' = withheld \cup {on[h]}
  /\ Goto(h, "ackFail")
  /\ UNCHANGED <<server, results, skipped, failed, orphans, currentJob, buffer,
                 seenPaused, manifests, faultsLeft>>

\* The .failed marker is best effort: an error is only logged.
ReportFailure(h) ==
  /\ pc[h] = "report"
  /\ \/ NoFault /\ failed' = failed \cup {on[h]}
     \/ Fault("marker_error") /\ UNCHANGED failed
  /\ Goto(h, "ackFail")
  /\ UNCHANGED <<server, results, skipped, withheld, orphans, jobs, buffer,
                 control, manifests>>

\* A failed task is acked and not marked processed.
AckFail(h) ==
  /\ pc[h] = "ackFail"
  /\ \/ AckOk(on[h]) /\ currentJob' = NoJob
     \/ AckError /\ UNCHANGED currentJob
  /\ Return(h)
  /\ UNCHANGED <<processed, answers, orphans, activeJobs, buffer, control, manifests>>

-----------------------------------------------------------------------------
\* drain_buffer publishes one held entry; a publish error puts it back.  The
\* hold times and the operator's stops are the business of ResponseBuffer.
DrainOne(t) ==
  /\ buffer[t] > 0 /\ ~paused
  /\ buffer' = [buffer EXCEPT ![t] = @ - 1]
  /\ Publish(t)
  /\ processed' = processed \cup {t}
  /\ UNCHANGED <<stream, skipped, failed, withheld, pc, on, orphans, jobs,
                 control, manifests, faultsLeft>>

\* agent_buffer_reject: the operator discards a held response.
RejectHeld(t) ==
  /\ "reject" \in Allowed /\ buffer[t] > 0
  /\ buffer' = [buffer EXCEPT ![t] = @ - 1]
  /\ withheld' = withheld \cup {t}
  /\ UNCHANGED <<server, results, skipped, failed, pc, on, orphans, jobs,
                 control, manifests, faultsLeft>>

\* NatsNsedWorker::pause / resume, from the control plane.
SetPaused(b) ==
  /\ "pause" \in Allowed /\ paused # b
  /\ paused' = b
  /\ UNCHANGED <<server, answers, pc, on, orphans, jobs, buffer, seenPaused,
                 manifests, faultsLeft>>

\* handle_manifest: the job is active from here on; an error before the ack
\* leaves the manifest for redelivery, an ack that fails is ignored.
HandleManifest(j) ==
  /\ j \in manifests
  /\ activeJobs' = activeJobs \cup {j}
  /\ \/ NoFault /\ manifests' = manifests \ {j}
     \/ Fault("publish_error") /\ UNCHANGED manifests
  /\ UNCHANGED <<server, answers, pc, on, orphans, currentJob, buffer, control>>

\* The process dies and is restarted: everything but the server's state and
\* the KV bucket is gone.
Crash ==
  /\ Fault("crash")
  /\ pc' = [h \in Handlers |-> "idle"]
  /\ on' = [h \in Handlers |-> NoTask]
  /\ orphans' = {}
  /\ activeJobs' = {} /\ currentJob' = NoJob
  /\ buffer' = [t \in Tasks |-> 0]
  /\ paused' = FALSE /\ seenPaused' = FALSE
  /\ UNCHANGED <<server, answers, manifests>>

-----------------------------------------------------------------------------
Step(h) ==
  \/ Receive(h) \/ CheckDuplicate(h) \/ AckDrop(h) \/ StartTask(h)
  \/ BeforePrompt(h) \/ Decide(h) \/ PublishSkip(h) \/ AckSkip(h)
  \/ Succeed(h) \/ PublishResult(h) \/ MarkProcessed(h) \/ AckDone(h)
  \/ PushResponse(h) \/ FinishTask(h)
  \/ Fail(h) \/ FailPayment(h) \/ ReportFailure(h) \/ AckFail(h)

Next ==
  \/ \E h \in Handlers : Step(h)
  \/ \E h \in Handlers, t \in Tasks : Deliver(h, t)
  \/ \E t \in Tasks : DrainOne(t) \/ RejectHeld(t)
  \/ \E j \in Jobs : HandleManifest(j)
  \/ \E b \in BOOLEAN : SetPaused(b)
  \/ LoopTick
  \/ Crash

Spec == Init /\ [][Next]_vars

\* The tokio runtime runs every spawned handler, the select loop turns, the
\* 500 ms drain interval fires and the server delivers what it may deliver.
\* Nothing is assumed of operators, agents' choices or faults.
Fairness ==
  /\ \A h \in Handlers : WF_vars(Step(h))
  /\ \A t \in Tasks : WF_vars(\E h \in Handlers : Deliver(h, t))
  /\ \A t \in Tasks : WF_vars(DrainOne(t))
  /\ WF_vars(LoopTick)

FairSpec == Spec /\ Fairness

-----------------------------------------------------------------------------
TypeOK ==
  /\ stream \in [Tasks -> {"queued", "delivered", "acked"}]
  /\ processed \subseteq Tasks
  /\ results \in [Tasks -> 0..2]
  /\ skipped \subseteq Tasks /\ failed \subseteq Tasks /\ withheld \subseteq Tasks
  /\ pc \in [Handlers -> Positions]
  /\ on \in [Handlers -> Tasks \cup {NoTask}]
  /\ \A h \in Handlers : pc[h] = "idle" <=> on[h] = NoTask
  /\ orphans \subseteq Tasks
  /\ activeJobs \subseteq Jobs /\ currentJob \in Jobs \cup {NoJob}
  /\ buffer \in [Tasks -> Nat]
  /\ paused \in BOOLEAN /\ seenPaused \in BOOLEAN
  /\ manifests \subseteq Manifests
  /\ faultsLeft \in 0..MaxFaults

\* A response exists: published, held for review, or about to be held.
At(t, p) == \E h \in Handling(t) : pc[h] = p
Answered(t) ==
  results[t] > 0 \/ buffer[t] > 0 \/ At(t, "push")
  \/ t \in skipped \cup failed \cup withheld

\* A task the server will never deliver again has been answered, or was
\* unreadable, or was withheld on purpose: no acknowledgement on any path of
\* handle_message (workers/mod.rs:1600-2440) makes a task vanish.
AckedMeansAnswered ==
  \A t \in Tasks \ Poison : stream[t] = "acked" => Answered(t)

\* The dedup check (workers/mod.rs:1615) drops a redelivery silently, so a
\* task may be in the processed bucket only when its result is already out,
\* is held, or is about to be held by the handler that marked it.
ProcessedMeansAnswered ==
  \A t \in processed : Answered(t) \/ (Buffered /\ At(t, "ackDone"))

\* The orchestrator receives at most one result per task from a worker with a
\* response buffer (workers/mod.rs:2094-2100), over all redeliveries.
Coming(t) == Cardinality({h \in Handling(t) : pc[h] \in {"ackDone", "push"}})
OneResultPerTask ==
  Buffered => \A t \in Tasks : results[t] + buffer[t] + Coming(t) <= 1

\* No task is worked by two handlers at once: the heartbeat keeps the lease
\* for as long as the agent runs (workers/mod.rs:1792-1814).
SingleFlight ==
  \A g, h \in Handlers :
     g # h /\ on[g] = on[h] => ~(pc[g] \in Running /\ pc[h] \in Running)

\* max_concurrent_jobs bounds the handlers that run agent code
\* (docs/how-to/limit-agent-job-concurrency.md).
JobsBounded ==
  MaxAckPending > 0 =>
    Cardinality({h \in Handlers : pc[h] \in Running}) <= MaxAckPending

\* While a handler works a job, the heartbeat reports that job and not idle
\* (workers/mod.rs:2457-2465).
WorkingJobReported ==
  \A h \in Handlers : pc[h] \in Leased => JobOf[on[h]] \in activeJobs

\* Every task is eventually acknowledged and answered to the orchestrator, or
\* withheld on purpose, however the faults fall.
Settled(t) ==
  /\ stream[t] = "acked"
  /\ t \in Poison \/ results[t] > 0 \/ t \in skipped \cup failed \cup withheld
EveryTaskSettled == \A t \in Tasks : <>Settled(t)
=============================================================================
