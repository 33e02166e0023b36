-------------------------- MODULE TaskWorkerProofs --------------------------
(***************************************************************************)
(* Theorems about TaskWorker, for any tasks, jobs, number of handlers,     *)
(* consumer limit, choice of optional events and number of faults.         *)
(***************************************************************************)
EXTENDS TaskWorker, FiniteSetTheorems, TLAPS

LEMMA InitTypeOK == Init => TypeOK
<1> USE TaskWorkerAssumption DEF TaskWorkerAssumption
<1> SUFFICES ASSUME Init PROVE TypeOK
  OBVIOUS
<1>1. /\ stream \in [Tasks -> {"queued", "delivered", "acked"}]
      /\ results \in [Tasks -> 0..2]
      /\ buffer \in [Tasks -> Nat]
      /\ faultsLeft \in 0..MaxFaults
  BY DEF Init
<1>2. /\ pc \in [Handlers -> Positions]
      /\ on \in [Handlers -> Tasks \cup {NoTask}]
      /\ \A h \in Handlers : pc[h] = "idle" <=> on[h] = NoTask
  BY DEF Init, Positions
<1>3. /\ processed \subseteq Tasks
      /\ skipped \subseteq Tasks /\ failed \subseteq Tasks /\ withheld \subseteq Tasks
      /\ orphans \subseteq Tasks
      /\ activeJobs \subseteq Jobs /\ currentJob \in Jobs \cup {NoJob}
      /\ paused \in BOOLEAN /\ seenPaused \in BOOLEAN
      /\ manifests \subseteq Manifests
  BY DEF Init
<1> QED
  BY <1>1, <1>2, <1>3 DEF TypeOK

\* Every step of the worker, the server and the operator keeps the types.
LEMMA NextTypeOK == TypeOK /\ [Next]_vars => TypeOK'
<1> SUFFICES ASSUME TypeOK, [Next]_vars PROVE TypeOK'
  OBVIOUS
<1> USE TaskWorkerAssumption DEF TaskWorkerAssumption, TypeOK, Positions, Running, Leased, server,
        answers, jobs, control, Goto, Return, NoFault, Fault
<1>1. ASSUME NEW h \in Handlers, Step(h) PROVE TypeOK'
  <2>1. CASE Receive(h)        BY <2>1 DEF Receive
  <2>2. CASE CheckDuplicate(h) BY <2>2 DEF CheckDuplicate
  <2>3. CASE AckDrop(h)        BY <2>3 DEF AckDrop, AckOk, AckError
  <2>4. CASE StartTask(h)      BY <2>4 DEF StartTask
  <2>5. CASE BeforePrompt(h)   BY <2>5 DEF BeforePrompt, ReturnOrphaning
  <2>6. CASE Decide(h)         BY <2>6 DEF Decide
  <2>7. CASE PublishSkip(h)    BY <2>7 DEF PublishSkip, ReturnOrphaning
  <2>8. CASE AckSkip(h)        BY <2>8 DEF AckSkip, ReturnOrphaning, AckOk, AckError
  <2>9. CASE Succeed(h)        BY <2>9 DEF Succeed
  <2>10. CASE PublishResult(h) BY <2>10 DEF PublishResult, Publish, OneMore
  <2>11. CASE MarkProcessed(h) BY <2>11 DEF MarkProcessed
  <2>12. CASE AckDone(h)       BY <2>12 DEF AckDone, AckOk, AckError
  <2>13. CASE PushResponse(h)  BY <2>13 DEF PushResponse
  <2>14. CASE FinishTask(h)    BY <2>14 DEF FinishTask
  <2>15. CASE Fail(h)          BY <2>15 DEF Fail
  <2>16. CASE FailPayment(h)   BY <2>16 DEF FailPayment
  <2>17. CASE ReportFailure(h) BY <2>17 DEF ReportFailure
  <2>18. CASE AckFail(h)       BY <2>18 DEF AckFail, AckOk, AckError
  <2> QED
    BY <1>1, <2>1, <2>2, <2>3, <2>4, <2>5, <2>6, <2>7, <2>8, <2>9, <2>10, <2>11,
       <2>12, <2>13, <2>14, <2>15, <2>16, <2>17, <2>18 DEF Step
<1>2. ASSUME NEW h \in Handlers, NEW t \in Tasks, Deliver(h, t) PROVE TypeOK'
  BY <1>2 DEF Deliver
<1>3. ASSUME NEW t \in Tasks, DrainOne(t) PROVE TypeOK'
  BY <1>3 DEF DrainOne, Publish, OneMore
<1>4. ASSUME NEW t \in Tasks, RejectHeld(t) PROVE TypeOK'
  BY <1>4 DEF RejectHeld
<1>5. ASSUME NEW j \in Jobs, HandleManifest(j) PROVE TypeOK'
  BY <1>5 DEF HandleManifest
<1>6. ASSUME NEW b \in BOOLEAN, SetPaused(b) PROVE TypeOK'
  BY <1>6 DEF SetPaused
<1>7. CASE LoopTick  BY <1>7 DEF LoopTick
<1>8. CASE Crash
  <2>1. /\ pc' \in [Handlers -> Positions]
        /\ on' \in [Handlers -> Tasks \cup {NoTask}]
        /\ \A h \in Handlers : pc'[h] = "idle" <=> on'[h] = NoTask
    BY <1>8 DEF Crash
  <2>2. buffer' \in [Tasks -> Nat] /\ faultsLeft' \in 0..MaxFaults
    BY <1>8 DEF Crash
  <2>3. UNCHANGED <<server, answers, manifests>>
    BY <1>8 DEF Crash
  <2>4. /\ orphans' = {} /\ activeJobs' = {} /\ currentJob' = NoJob
        /\ paused' = FALSE /\ seenPaused' = FALSE
    BY <1>8 DEF Crash
  <2> QED
    BY <2>1, <2>2, <2>3, <2>4
<1>9. CASE UNCHANGED vars  BY <1>9 DEF vars
<1> QED
  BY <1>1, <1>2, <1>3, <1>4, <1>5, <1>6, <1>7, <1>8, <1>9 DEF Next

\* Type correctness of the worker, whatever the environment does.
THEOREM TypeCorrect == Spec => []TypeOK
  BY InitTypeOK, NextTypeOK, PTL DEF Spec

-----------------------------------------------------------------------------
\* Tasks with an answer that nothing can take back: unlike a held response, it
\* is on the wire, or the silence is a decision.
Done == {t \in Tasks : results[t] > 0} \cup skipped \cup failed \cup withheld

\* Positions that lead to an acknowledgement or to the processed bucket.
Acking == {"mark", "ackDone", "ackSkip", "ackFail"}

AckedDone     == \A t \in Tasks \ Poison : stream[t] = "acked" => t \in Done
ProcessedDone == processed \subseteq Done
AckingDone    == \A h \in Handlers : pc[h] \in Acking => on[h] \in Done
DropsDone     == \A h \in Handlers : pc[h] = "ackDrop" => on[h] \in Done \cup Poison

\* AckedMeansAnswered is not inductive: a handler about to ack, and the dedup
\* check that sends a redelivery to the drop, must already know the answer out.
AckInv == AckedDone /\ ProcessedDone /\ AckingDone /\ DropsDone

LEMMA InitAckInv == Init => AckInv
  BY DEF Init, AckInv, AckedDone, ProcessedDone, AckingDone, DropsDone, Acking

\* No step of anybody takes an answer back.
LEMMA AnswersStay ==
  ASSUME TypeOK, [Next]_vars
  PROVE  Done \subseteq Done'
<1> USE DEF TypeOK, Done, answers
<1>1. ASSUME NEW h \in Handlers, Step(h) PROVE Done \subseteq Done'
  <2>1. CASE PublishSkip(h)    BY <2>1 DEF PublishSkip
  <2>2. CASE PublishResult(h)  BY <2>2 DEF PublishResult, Publish, OneMore
  <2>3. CASE FailPayment(h)    BY <2>3 DEF FailPayment
  <2>4. CASE ReportFailure(h)  BY <2>4 DEF ReportFailure
  <2>5. CASE UNCHANGED answers BY <2>5
  <2> QED
    BY <1>1, <2>1, <2>2, <2>3, <2>4, <2>5
    DEF Step, Receive, CheckDuplicate, AckDrop, StartTask, BeforePrompt, Decide,
        AckSkip, Succeed, MarkProcessed, AckDone, PushResponse, FinishTask,
        Fail, AckFail
<1>2. ASSUME NEW u \in Tasks, DrainOne(u) PROVE Done \subseteq Done'
  BY <1>2 DEF DrainOne, Publish, OneMore
<1>3. ASSUME NEW u \in Tasks, RejectHeld(u) PROVE Done \subseteq Done'
  BY <1>3 DEF RejectHeld
<1>4. CASE UNCHANGED answers
  BY <1>4
<1> QED
  BY <1>1, <1>2, <1>3, <1>4
  DEF Next, Deliver, HandleManifest, SetPaused, LoopTick, Crash, vars

\* A step of handler h that acknowledges nothing and marks nothing keeps the
\* invariant if h does not arrive at an acking position without an answer.
LEMMA QuietStep ==
  ASSUME TypeOK, AckInv, Done \subseteq Done', UNCHANGED <<stream, processed>>,
         \A g \in Handlers :
            \/ pc'[g] = pc[g] /\ on'[g] = on[g]
            \/ pc'[g] \notin Acking \cup {"ackDrop"}
            \/ pc'[g] \in Acking /\ on'[g] \in Done'
            \/ pc'[g] = "ackDrop" /\ on'[g] \in Done' \cup Poison
  PROVE  AckInv'
  BY DEF AckInv, AckedDone, ProcessedDone, AckingDone, DropsDone, Acking

\* Acknowledging a task that has its answer, and returning or going on.
LEMMA AckStep ==
  ASSUME TypeOK, AckInv, Done \subseteq Done', UNCHANGED processed,
         NEW t \in Tasks, t \in Done \cup Poison,
         stream' \in {stream, [stream EXCEPT ![t] = "acked"]},
         \A g \in Handlers :
            \/ pc'[g] = pc[g] /\ on'[g] = on[g]
            \/ pc'[g] \notin Acking \cup {"ackDrop"}
  PROVE  AckInv'
  BY DEF AckInv, AckedDone, ProcessedDone, AckingDone, DropsDone, Acking, TypeOK

\* Every step keeps the invariant when results go out at once (Buffered would
\* ack what is only in memory) and the .failed marker is not lost.
LEMMA NextAckInv ==
  ASSUME ~Buffered, "marker_error" \notin Allowed, TypeOK, AckInv, [Next]_vars
  PROVE  AckInv'
<1> USE DEF Goto, Return
<1>1. Done \subseteq Done'
  BY AnswersStay
<1>2. ASSUME NEW h \in Handlers, Step(h) PROVE AckInv'
  <2>1. pc \in [Handlers -> Positions] /\ on \in [Handlers -> Tasks \cup {NoTask}]
    BY DEF TypeOK
  <2>2. pc[h] # "idle" => on[h] \in Tasks
    BY DEF TypeOK
  <2>3. pc[h] \in Acking => on[h] \in Done
    BY DEF AckInv, AckingDone
  <2>4. CASE Receive(h)
    BY <1>1, <2>1, <2>4, QuietStep DEF Receive, server, Acking
  <2>5. CASE CheckDuplicate(h)
    <3>1. processed \subseteq Done'
      BY <1>1 DEF AckInv, ProcessedDone
    <3> QED
      BY <1>1, <2>1, <2>5, <3>1, QuietStep DEF CheckDuplicate, server, Acking
  <2>6. CASE AckDrop(h)
    <3>1. on[h] \in Tasks /\ on[h] \in Done \cup Poison
      BY <2>2, <2>6 DEF AckInv, DropsDone, AckDrop
    <3> QED
      BY <1>1, <2>1, <2>6, <3>1, AckStep DEF AckDrop, AckOk, AckError, Acking
  <2>7. CASE StartTask(h)
    BY <1>1, <2>1, <2>7, QuietStep DEF StartTask, server, Acking
  <2>8. CASE BeforePrompt(h)
    BY <1>1, <2>1, <2>8, QuietStep DEF BeforePrompt, ReturnOrphaning, server, Acking
  <2>9. CASE Decide(h)
    BY <1>1, <2>1, <2>9, QuietStep DEF Decide, server, Acking
  <2>10. CASE PublishSkip(h)
    BY <1>1, <2>1, <2>10, QuietStep
    DEF PublishSkip, ReturnOrphaning, server, Acking, Done
  <2>11. CASE AckSkip(h)
    <3>1. on[h] \in Tasks /\ on[h] \in Done
      BY <2>2, <2>3, <2>11 DEF AckSkip, Acking
    <3> QED
      BY <1>1, <2>1, <2>11, <3>1, AckStep
      DEF AckSkip, ReturnOrphaning, AckOk, AckError, Acking
  <2>12. CASE Succeed(h)
    BY <1>1, <2>1, <2>12, QuietStep DEF Succeed, server, Acking
  <2>13. CASE PublishResult(h)
    <3>1. on[h] \in Tasks /\ results[on[h]] \in 0..2
      BY <2>2, <2>13 DEF PublishResult, TypeOK
    <3>2. CASE NoFault /\ Publish(on[h]) /\ Goto(h, "mark")
      <4>1. on'[h] \in Done'
        BY <3>1, <3>2 DEF Publish, OneMore, Done, TypeOK
      <4> QED
        BY <1>1, <2>1, <2>13, <3>2, <4>1, QuietStep DEF PublishResult, server
    <3>3. CASE Return(h)
      BY <1>1, <2>1, <2>13, <3>3, QuietStep DEF PublishResult, server, Acking
    <3> QED
      BY <2>13, <3>2, <3>3 DEF PublishResult
  <2>14. CASE MarkProcessed(h)
    <3>1. CASE Return(h) /\ UNCHANGED processed
      BY <1>1, <2>1, <2>14, <3>1, QuietStep DEF MarkProcessed, Acking
    <3>2. CASE processed' = processed \cup {on[h]} /\ Goto(h, "ackDone")
      <4>1. on[h] \in Done
        BY <2>3, <2>14 DEF MarkProcessed, Acking
      <4> QED
        BY <1>1, <2>1, <2>14, <3>2, <4>1
        DEF MarkProcessed, AckInv, AckedDone, ProcessedDone, AckingDone,
            DropsDone, Acking
    <3> QED
      BY <2>14, <3>1, <3>2 DEF MarkProcessed
  <2>15. CASE AckDone(h)
    <3>1. on[h] \in Tasks /\ on[h] \in Done
      BY <2>2, <2>3, <2>15 DEF AckDone, Acking
    <3> QED
      BY <1>1, <2>1, <2>15, <3>1, AckStep DEF AckDone, AckOk, AckError, Acking
  <2>16. CASE PushResponse(h)
    BY <1>1, <2>1, <2>16, QuietStep DEF PushResponse, server, Acking
  <2>17. CASE FinishTask(h)
    BY <1>1, <2>1, <2>17, QuietStep DEF FinishTask, server, Acking
  <2>18. CASE Fail(h)
    BY <1>1, <2>1, <2>18, QuietStep DEF Fail, server, Acking
  <2>19. CASE FailPayment(h)
    BY <1>1, <2>1, <2>19, QuietStep DEF FailPayment, server, Acking, Done
  <2>20. CASE ReportFailure(h)
    <3>1. on'[h] \in Done'
      BY <2>20 DEF ReportFailure, Fault, Done
    <3> QED
      BY <1>1, <2>1, <2>20, <3>1, QuietStep DEF ReportFailure, server, Acking
  <2>21. CASE AckFail(h)
    <3>1. on[h] \in Tasks /\ on[h] \in Done
      BY <2>2, <2>3, <2>21 DEF AckFail, Acking
    <3> QED
      BY <1>1, <2>1, <2>21, <3>1, AckStep DEF AckFail, AckOk, AckError, Acking
  <2> QED
    BY <1>2, <2>4, <2>5, <2>6, <2>7, <2>8, <2>9, <2>10, <2>11, <2>12, <2>13, <2>14,
       <2>15, <2>16, <2>17, <2>18, <2>19, <2>20, <2>21 DEF Step
<1>3. ASSUME NEW h \in Handlers, NEW t \in Tasks, Deliver(h, t) PROVE AckInv'
  BY <1>1, <1>3
  DEF Deliver, AckInv, AckedDone, ProcessedDone, AckingDone, DropsDone, Acking, TypeOK
<1>4. ASSUME NEW t \in Tasks, DrainOne(t) PROVE AckInv'
  <2>1. t \in Done'
    BY <1>4 DEF DrainOne, Publish, OneMore, Done, TypeOK
  <2> QED
    BY <1>1, <1>4, <2>1
    DEF DrainOne, AckInv, AckedDone, ProcessedDone, AckingDone, DropsDone, Acking
<1>5. CASE UNCHANGED <<server, pc, on>>
  BY <1>1, <1>5, QuietStep DEF server
<1>6. CASE Crash
  BY <1>1, <1>6, QuietStep DEF Crash, server, Acking
<1> QED
  BY <1>2, <1>3, <1>4, <1>5, <1>6
  DEF Next, RejectHeld, HandleManifest, SetPaused, LoopTick, vars

\* With results published at once and no lost .failed marker, no acknowledgement
\* on any path makes a task vanish: whatever crashes, redeliveries, pauses,
\* blocks, lost acks and failed writes come between (workers/mod.rs:1600-2440).
THEOREM NoTaskVanishes ==
  ASSUME ~Buffered, "marker_error" \notin Allowed
  PROVE  Spec => []AckedMeansAnswered
<1>1. TypeOK /\ AckInv /\ [Next]_vars => TypeOK' /\ AckInv'
  BY NextTypeOK, NextAckInv
<1>2. AckInv => AckedMeansAnswered
  BY DEF AckInv, AckedDone, AckedMeansAnswered, Answered, Done
<1> QED
  BY InitTypeOK, InitAckInv, <1>1, <1>2, PTL DEF Spec

\* Under the same assumptions the dedup check never drops a redelivery whose
\* answer is not out (workers/mod.rs:1615).
THEOREM DropsAreDuplicates ==
  ASSUME ~Buffered, "marker_error" \notin Allowed
  PROVE  Spec => []ProcessedMeansAnswered
<1>1. TypeOK /\ AckInv /\ [Next]_vars => TypeOK' /\ AckInv'
  BY NextTypeOK, NextAckInv
<1>2. AckInv => ProcessedMeansAnswered
  BY DEF AckInv, ProcessedDone, ProcessedMeansAnswered, Answered, Done
<1> QED
  BY InitTypeOK, InitAckInv, <1>1, <1>2, PTL DEF Spec
-----------------------------------------------------------------------------
(***************************************************************************)
(* One handler per task.  What it takes: every step between two awaits is  *)
(* quicker than ack_wait, and the loop is never paused over a delivery (a  *)
(* paused one is delivered again, and both copies are worked on resume).   *)
(***************************************************************************)
Steady ==
  /\ "stall" \notin Allowed /\ "pause" \notin Allowed
  /\ "payment" \notin Allowed \/ PropagatePaymentError

\* Positions before anything can have acknowledged the delivery.
Pending == {"received", "dedup"} \cup Running

\* No two handlers have one task, a queued task has none, and what a handler has
\* not acked is on the server as delivered.
Exclusive == \A g, h \in Handlers : g # h /\ on[g] # NoTask => on[g] # on[h]
FlightInv ==
  /\ ~paused /\ ~seenPaused
  /\ Exclusive
  /\ \A h \in Handlers : on[h] # NoTask => stream[on[h]] # "queued"
  /\ \A h \in Handlers : pc[h] \in Pending => stream[on[h]] = "delivered"

\* What a step of handler h does to the handlers.
Alone(h) == \A g \in Handlers \ {h} : pc'[g] = pc[g] /\ on'[g] = on[g]

LEMMA StepAlone ==
  ASSUME TypeOK, NEW h \in Handlers, Step(h)
  PROVE  /\ Alone(h) /\ on[h] \in Tasks
         /\ on'[h] # on[h] => on'[h] = NoTask /\ pc'[h] = "idle"
<1> USE DEF TypeOK, Goto, Return, Alone
<1>1. CASE Receive(h)        BY <1>1 DEF Receive
<1>2. CASE CheckDuplicate(h) BY <1>2 DEF CheckDuplicate
<1>3. CASE AckDrop(h)        BY <1>3 DEF AckDrop
<1>4. CASE StartTask(h)      BY <1>4 DEF StartTask
<1>5. CASE BeforePrompt(h)   BY <1>5 DEF BeforePrompt, ReturnOrphaning
<1>6. CASE Decide(h)         BY <1>6 DEF Decide
<1>7. CASE PublishSkip(h)    BY <1>7 DEF PublishSkip, ReturnOrphaning
<1>8. CASE AckSkip(h)        BY <1>8 DEF AckSkip, ReturnOrphaning
<1>9. CASE Succeed(h)        BY <1>9 DEF Succeed
<1>10. CASE PublishResult(h) BY <1>10 DEF PublishResult
<1>11. CASE MarkProcessed(h) BY <1>11 DEF MarkProcessed
<1>12. CASE AckDone(h)       BY <1>12 DEF AckDone
<1>13. CASE PushResponse(h)  BY <1>13 DEF PushResponse
<1>14. CASE FinishTask(h)    BY <1>14 DEF FinishTask
<1>15. CASE Fail(h)          BY <1>15 DEF Fail
<1>16. CASE FailPayment(h)   BY <1>16 DEF FailPayment
<1>17. CASE ReportFailure(h) BY <1>17 DEF ReportFailure
<1>18. CASE AckFail(h)       BY <1>18 DEF AckFail
<1> QED
  BY <1>1, <1>2, <1>3, <1>4, <1>5, <1>6, <1>7, <1>8, <1>9, <1>10, <1>11, <1>12,
     <1>13, <1>14, <1>15, <1>16, <1>17, <1>18 DEF Step

\* A handler acks on its way out of the pending positions, and never goes back.
LEMMA StepStream ==
  ASSUME TypeOK, NEW h \in Handlers, Step(h)
  PROVE  /\ pc'[h] \in Pending => pc[h] \in Pending /\ UNCHANGED stream
         /\ UNCHANGED stream \/ stream' = [stream EXCEPT ![on[h]] = "acked"]
<1> USE DEF TypeOK, Goto, Return, Pending, Running, Leased, server
<1>1. CASE Receive(h)        BY <1>1 DEF Receive
<1>2. CASE CheckDuplicate(h) BY <1>2 DEF CheckDuplicate
<1>3. CASE AckDrop(h)        BY <1>3 DEF AckDrop, AckOk, AckError
<1>4. CASE StartTask(h)      BY <1>4 DEF StartTask
<1>5. CASE BeforePrompt(h)   BY <1>5 DEF BeforePrompt, ReturnOrphaning
<1>6. CASE Decide(h)         BY <1>6 DEF Decide
<1>7. CASE PublishSkip(h)    BY <1>7 DEF PublishSkip, ReturnOrphaning
<1>8. CASE AckSkip(h)        BY <1>8 DEF AckSkip, ReturnOrphaning, AckOk, AckError
<1>9. CASE Succeed(h)        BY <1>9 DEF Succeed
<1>10. CASE PublishResult(h) BY <1>10 DEF PublishResult
<1>11. CASE MarkProcessed(h) BY <1>11 DEF MarkProcessed
<1>12. CASE AckDone(h)       BY <1>12 DEF AckDone, AckOk, AckError
<1>13. CASE PushResponse(h)  BY <1>13 DEF PushResponse
<1>14. CASE FinishTask(h)    BY <1>14 DEF FinishTask
<1>15. CASE Fail(h)          BY <1>15 DEF Fail
<1>16. CASE FailPayment(h)   BY <1>16 DEF FailPayment
<1>17. CASE ReportFailure(h) BY <1>17 DEF ReportFailure
<1>18. CASE AckFail(h)       BY <1>18 DEF AckFail, AckOk, AckError
<1> QED
  BY <1>1, <1>2, <1>3, <1>4, <1>5, <1>6, <1>7, <1>8, <1>9, <1>10, <1>11, <1>12,
     <1>13, <1>14, <1>15, <1>16, <1>17, <1>18 DEF Step

\* Nobody pauses the worker.
LEMMA NeverPaused ==
  ASSUME Steady, TypeOK, ~paused, ~seenPaused, [Next]_vars
  PROVE  ~paused' /\ ~seenPaused'
<1>1. ASSUME NEW h \in Handlers, Step(h) PROVE ~paused' /\ ~seenPaused'
  <2>1. CASE Receive(h)  BY <2>1 DEF Receive
  <2>2. CASE FailPayment(h)
    <3>1. PropagatePaymentError
      BY <2>2, Zenon DEF FailPayment, Steady
    <3>2. paused' = (paused \/ ~PropagatePaymentError) /\ UNCHANGED seenPaused
      BY <2>2 DEF FailPayment
    <3> QED
      BY <3>1, <3>2
  <2>3. CASE UNCHANGED control  BY <2>3 DEF control
  <2> QED
    BY <1>1, <2>1, <2>2, <2>3
    DEF Step, CheckDuplicate, AckDrop, StartTask, BeforePrompt, Decide,
        PublishSkip, AckSkip, Succeed, PublishResult, MarkProcessed, AckDone,
        PushResponse, FinishTask, Fail, ReportFailure, AckFail
<1>2. ASSUME NEW h \in Handlers, NEW t \in Tasks, Deliver(h, t)
      PROVE  ~paused' /\ ~seenPaused'
  BY <1>2 DEF Deliver, control
<1>3. ASSUME NEW t \in Tasks, DrainOne(t) \/ RejectHeld(t) PROVE ~paused' /\ ~seenPaused'
  BY <1>3 DEF DrainOne, RejectHeld, control
<1>4. ASSUME NEW j \in Jobs, HandleManifest(j) PROVE ~paused' /\ ~seenPaused'
  BY <1>4 DEF HandleManifest, control
<1>5. CASE UNCHANGED vars  BY <1>5 DEF vars, control
<1>6. CASE LoopTick  BY <1>6 DEF LoopTick
<1>7. CASE Crash  BY <1>7 DEF Crash
<1>8. ASSUME NEW b \in BOOLEAN, SetPaused(b) PROVE FALSE
  BY <1>8 DEF SetPaused, Steady
<1> QED
  BY <1>1, <1>2, <1>3, <1>4, <1>5, <1>6, <1>7, <1>8 DEF Next

\* A task goes out only when no handler has it.
LEMMA DeliveredFresh ==
  ASSUME Steady, TypeOK, FlightInv, NEW t \in Tasks, CanDeliver(t)
  PROVE  \A g \in Handlers : on[g] # t
<1>1. CASE stream[t] = "queued"
  BY <1>1, TaskWorkerAssumption DEF FlightInv, TypeOK
<1>2. CASE LeaseExpired(t)
  <2>1. ASSUME NEW g \in Handlers, on[g] = t PROVE FALSE
    BY <1>2, <2>1 DEF LeaseExpired, Handling, Beating, FlightInv, Steady
  <2> QED
    BY <2>1
<1> QED
  BY <1>1, <1>2 DEF CanDeliver

LEMMA NextFlightInv ==
  ASSUME Steady, TypeOK, FlightInv, [Next]_vars
  PROVE  FlightInv'
<1>1. ~paused' /\ ~seenPaused'
  BY NeverPaused DEF FlightInv
<1>2. /\ pc \in [Handlers -> Positions] /\ on \in [Handlers -> Tasks \cup {NoTask}]
      /\ stream \in [Tasks -> {"queued", "delivered", "acked"}] /\ NoTask \notin Tasks
  BY TaskWorkerAssumption DEF TypeOK
<1>3. ASSUME NEW h \in Handlers, Step(h) PROVE FlightInv'
  <2>1. /\ Alone(h) /\ on[h] \in Tasks
        /\ on'[h] # on[h] => on'[h] = NoTask /\ pc'[h] = "idle"
        /\ pc'[h] \in Pending => pc[h] \in Pending /\ UNCHANGED stream
        /\ UNCHANGED stream \/ stream' = [stream EXCEPT ![on[h]] = "acked"]
    BY <1>3, StepAlone, StepStream
  <2>2. Exclusive'
    BY <1>2, <2>1 DEF Alone, FlightInv, Exclusive
  <2>3. \A g \in Handlers : on'[g] # NoTask => stream'[on'[g]] # "queued"
    BY <1>2, <2>1 DEF Alone, FlightInv
  <2>4. "idle" \notin Pending
    BY DEF Pending, Running, Leased
  <2>5. ASSUME NEW g \in Handlers, pc'[g] \in Pending PROVE stream'[on'[g]] = "delivered"
    <3>1. CASE g = h
      BY <2>1, <2>4, <2>5, <3>1 DEF FlightInv
    <3>2. CASE g # h
      <4>1. pc[g] \in Pending /\ on'[g] = on[g] /\ on[g] # NoTask /\ on[g] \in Tasks
        BY <1>2, <2>1, <2>4, <2>5, <3>2 DEF Alone, TypeOK
      <4>2. on[g] # on[h] /\ stream[on[g]] = "delivered"
        BY <3>2, <4>1 DEF FlightInv, Exclusive
      <4> QED
        BY <1>2, <2>1, <4>1, <4>2
    <3> QED
      BY <3>1, <3>2
  <2> QED
    BY <1>1, <2>2, <2>3, <2>5, Zenon DEF FlightInv, Pending, Running, Leased
<1>4. ASSUME NEW h \in Handlers, NEW t \in Tasks, Deliver(h, t) PROVE FlightInv'
  <2>1. /\ pc' = [pc EXCEPT ![h] = "received"] /\ on' = [on EXCEPT ![h] = t]
        /\ stream' = [stream EXCEPT ![t] = "delivered"]
    BY <1>4 DEF Deliver
  <2>2. \A g \in Handlers : on[g] # t
    BY <1>4, DeliveredFresh DEF Deliver
  <2>3. Exclusive'
    BY <1>2, <2>1, <2>2 DEF FlightInv, Exclusive
  <2>4. \A g \in Handlers : on'[g] # NoTask => stream'[on'[g]] # "queued"
    BY <1>2, <2>1, <2>2 DEF FlightInv
  <2>5. \A g \in Handlers : pc'[g] \in Pending => stream'[on'[g]] = "delivered"
    BY <1>2, <2>1, <2>2 DEF FlightInv, Pending, Running, Leased, TypeOK
  <2> QED
    BY <1>1, <2>3, <2>4, <2>5, Zenon DEF FlightInv, Pending, Running, Leased
<1>5. CASE UNCHANGED <<stream, pc, on>>
  BY <1>1, <1>5 DEF FlightInv, Exclusive, Pending, Running, Leased
<1>6. CASE Crash
  <2>1. pc' = [h \in Handlers |-> "idle"] /\ on' = [h \in Handlers |-> NoTask]
    BY <1>6 DEF Crash
  <2> QED
    BY <1>1, <2>1 DEF FlightInv, Exclusive, Pending, Running, Leased
<1> QED
  BY <1>3, <1>4, <1>5, <1>6
  DEF Next, DrainOne, RejectHeld, HandleManifest, SetPaused, LoopTick, vars, server

LEMMA InitFlightInv == Init => FlightInv
  BY DEF Init, FlightInv, Exclusive, Pending, Running, Leased

\* No task is worked by two handlers at once, for any number of tasks, handlers,
\* crashes, lost acks and failed writes: the heartbeat keeps the lease for as
\* long as the agent runs (workers/mod.rs:1792-1814).
THEOREM OneHandlerPerTask ==
  ASSUME Steady
  PROVE  Spec => []SingleFlight
<1>1. TypeOK /\ FlightInv /\ [Next]_vars => TypeOK' /\ FlightInv'
  BY NextTypeOK, NextFlightInv
<1>2. TypeOK /\ FlightInv => SingleFlight
  BY DEF TypeOK, FlightInv, Exclusive, SingleFlight, Running, Leased
<1> QED
  BY InitTypeOK, InitFlightInv, <1>1, <1>2, PTL DEF Spec

-----------------------------------------------------------------------------
(***************************************************************************)
(* Concurrent jobs.                                                        *)
(***************************************************************************)
\* The consumer holds back what would exceed its limit.
LimitInv ==
  /\ IsFiniteSet(Unacked)
  /\ MaxAckPending > 0 => Cardinality(Unacked) <= MaxAckPending

LEMMA InitLimitInv == Init => LimitInv
<1> SUFFICES ASSUME Init PROVE LimitInv
  OBVIOUS
<1>1. Unacked = {}
  BY DEF Init, Unacked
<1>2. IsFiniteSet(Unacked) /\ Cardinality(Unacked) = 0
  BY <1>1, FS_EmptySet
<1> QED
  BY <1>2, TaskWorkerAssumption DEF LimitInv

\* Acknowledging makes room.
LEMMA FewerUnacked ==
  ASSUME LimitInv, Unacked' \subseteq Unacked
  PROVE  LimitInv'
<1>1. IsFiniteSet(Unacked') /\ Cardinality(Unacked') <= Cardinality(Unacked)
  BY FS_Subset DEF LimitInv
<1>2. Cardinality(Unacked') \in Nat /\ Cardinality(Unacked) \in Nat
  BY <1>1, FS_CardinalityType DEF LimitInv
<1> QED
  BY <1>1, <1>2, TaskWorkerAssumption DEF LimitInv

LEMMA NextLimitInv ==
  ASSUME TypeOK, LimitInv, [Next]_vars
  PROVE  LimitInv'
<1>1. ASSUME NEW h \in Handlers, Step(h) PROVE LimitInv'
  <2>1. UNCHANGED stream \/ stream' = [stream EXCEPT ![on[h]] = "acked"]
    BY <1>1, StepStream
  <2>2. Unacked' \subseteq Unacked
    BY <2>1 DEF Unacked, TypeOK
  <2> QED
    BY <2>2, FewerUnacked
<1>2. ASSUME NEW h \in Handlers, NEW t \in Tasks, Deliver(h, t) PROVE LimitInv'
  <2>1. Unacked' = Unacked \cup {t}
    BY <1>2 DEF Deliver, Unacked, TypeOK
  <2>2. CASE LeaseExpired(t)
    <3>1. Unacked' \subseteq Unacked
      BY <2>1, <2>2 DEF LeaseExpired, Unacked
    <3> QED
      BY <3>1, FewerUnacked
  <2>3. CASE MaxAckPending = 0 \/ Cardinality(Unacked) < MaxAckPending
    <3>1. IsFiniteSet(Unacked) /\ Cardinality(Unacked) \in Nat
      BY FS_CardinalityType DEF LimitInv
    <3>2. /\ IsFiniteSet(Unacked')
          /\ Cardinality(Unacked') = IF t \in Unacked THEN Cardinality(Unacked)
                                     ELSE Cardinality(Unacked) + 1
      BY <2>1, <3>1, FS_AddElement
    <3>3. MaxAckPending \in Nat
      BY TaskWorkerAssumption
    <3> QED
      BY <2>3, <3>1, <3>2, <3>3 DEF LimitInv
  <2> QED
    BY <1>2, <2>2, <2>3 DEF Deliver, CanDeliver
<1>3. CASE UNCHANGED stream
  <2>1. Unacked' = Unacked
    BY <1>3 DEF Unacked
  <2> QED
    BY <2>1, FewerUnacked
<1> QED
  BY <1>1, <1>2, <1>3
  DEF Next, DrainOne, RejectHeld, HandleManifest, SetPaused, LoopTick, Crash, vars, server

\* The handlers that run agent code have one unacked task each.
LEMMA RunningUnacked ==
  ASSUME TypeOK, FlightInv, LimitInv
  PROVE  JobsBounded
<1> DEFINE R == {h \in Handlers : pc[h] \in Running}
           f == [h \in R |-> on[h]]
<1>1. \A h \in R : on[h] \in Unacked
  BY TaskWorkerAssumption DEF TypeOK, FlightInv, Pending, Running, Leased, Unacked
<1>2. \A g, h \in R : on[g] = on[h] => g = h
  BY <1>1, TaskWorkerAssumption DEF FlightInv, Exclusive, Unacked
<1>3. f \in Injection(R, Unacked)
  BY <1>1, <1>2 DEF Injection, IsInjective
<1>4. IsFiniteSet(R) /\ Cardinality(R) <= Cardinality(Unacked)
  <2> HIDE DEF R, f
  <2> QED
    BY <1>3, FS_Injection DEF LimitInv
<1>5. Cardinality(R) \in Nat /\ Cardinality(Unacked) \in Nat
  BY <1>4, FS_CardinalityType DEF LimitInv
<1> QED
  BY <1>4, <1>5, TaskWorkerAssumption DEF LimitInv, JobsBounded

\* max_concurrent_jobs bounds the handlers that run agent code, for every limit
\* and number of tasks (docs/how-to/limit-agent-job-concurrency.md): no task is
\* worked twice, and none is worked after its ack.
THEOREM JobsLimited ==
  ASSUME Steady
  PROVE  Spec => []JobsBounded
<1>1. TypeOK /\ FlightInv /\ LimitInv /\ [Next]_vars => TypeOK' /\ FlightInv' /\ LimitInv'
  BY NextTypeOK, NextFlightInv, NextLimitInv
<1>2. TypeOK /\ FlightInv /\ LimitInv => JobsBounded
  BY RunningUnacked
<1> QED
  BY InitTypeOK, InitFlightInv, InitLimitInv, <1>1, <1>2, PTL DEF Spec

-----------------------------------------------------------------------------
(***************************************************************************)
(* What the heartbeat reports.                                             *)
(***************************************************************************)
\* The rounds of a session follow one another: no two deliveries of one job are
\* in the process at a time.  Two tasks of a job share its one mark.
JobsApart ==
  \A g, h \in Handlers :
     g # h /\ on[g] # NoTask /\ on[h] # NoTask => JobOf[on[g]] # JobOf[on[h]]

\* Every session has one task.
OneTaskPerJob == \A t, u \in Tasks : JobOf[t] = JobOf[u] => t = u

\* A step takes no job but its own out of the set, nor its own while it works.
LEMMA StepJobs ==
  ASSUME TypeOK, NEW h \in Handlers, Step(h)
  PROVE  /\ activeJobs \ {JobOf[on[h]]} \subseteq activeJobs'
         /\ pc'[h] \in Leased => /\ on'[h] = on[h]
                                 /\ \/ JobOf[on[h]] \in activeJobs'
                                    \/ pc[h] \in Leased /\ UNCHANGED activeJobs
<1> USE DEF TypeOK, Goto, Return, Leased, jobs
<1>1. CASE Receive(h)        BY <1>1 DEF Receive
<1>2. CASE CheckDuplicate(h) BY <1>2 DEF CheckDuplicate
<1>3. CASE AckDrop(h)        BY <1>3 DEF AckDrop
<1>4. CASE StartTask(h)      BY <1>4 DEF StartTask
<1>5. CASE BeforePrompt(h)   BY <1>5 DEF BeforePrompt, ReturnOrphaning
<1>6. CASE Decide(h)         BY <1>6 DEF Decide
<1>7. CASE PublishSkip(h)    BY <1>7 DEF PublishSkip, ReturnOrphaning
<1>8. CASE AckSkip(h)        BY <1>8 DEF AckSkip, ReturnOrphaning
<1>9. CASE Succeed(h)        BY <1>9 DEF Succeed
<1>10. CASE PublishResult(h) BY <1>10 DEF PublishResult
<1>11. CASE MarkProcessed(h) BY <1>11 DEF MarkProcessed
<1>12. CASE AckDone(h)       BY <1>12 DEF AckDone
<1>13. CASE PushResponse(h)  BY <1>13 DEF PushResponse
<1>14. CASE FinishTask(h)    BY <1>14 DEF FinishTask
<1>15. CASE Fail(h)          BY <1>15 DEF Fail
<1>16. CASE FailPayment(h)   BY <1>16 DEF FailPayment
<1>17. CASE ReportFailure(h) BY <1>17 DEF ReportFailure
<1>18. CASE AckFail(h)       BY <1>18 DEF AckFail
<1> QED
  BY <1>1, <1>2, <1>3, <1>4, <1>5, <1>6, <1>7, <1>8, <1>9, <1>10, <1>11, <1>12,
     <1>13, <1>14, <1>15, <1>16, <1>17, <1>18 DEF Step

LEMMA NextReported ==
  ASSUME JobsApart, TypeOK, WorkingJobReported, [Next]_vars
  PROVE  WorkingJobReported'
<1>1. ASSUME NEW h \in Handlers, Step(h) PROVE WorkingJobReported'
  <2>1. /\ Alone(h) /\ on[h] \in Tasks
        /\ activeJobs \ {JobOf[on[h]]} \subseteq activeJobs'
        /\ pc'[h] \in Leased => /\ on'[h] = on[h]
                                /\ \/ JobOf[on[h]] \in activeJobs'
                                   \/ pc[h] \in Leased /\ UNCHANGED activeJobs
    BY <1>1, StepAlone, StepJobs
  <2>2. ASSUME NEW g \in Handlers, pc'[g] \in Leased PROVE JobOf[on'[g]] \in activeJobs'
    <3>1. CASE g = h
      BY <2>1, <2>2, <3>1 DEF WorkingJobReported
    <3>2. CASE g # h
      <4>1. pc'[g] = pc[g] /\ on'[g] = on[g] /\ on[g] \in Tasks
        BY <2>1, <2>2, <3>2 DEF Alone, TypeOK, Leased
      <4>3. JobOf[on[g]] # JobOf[on[h]]
        BY <2>1, <3>2, <4>1, TaskWorkerAssumption DEF JobsApart
      <4>4. JobOf[on[g]] \in activeJobs
        BY <2>2, <4>1 DEF WorkingJobReported
      <4> QED
        BY <2>1, <4>1, <4>3, <4>4
    <3> QED
      BY <3>1, <3>2
  <2> QED
    BY <2>2, Zenon DEF WorkingJobReported, Leased
<1>2. ASSUME NEW h \in Handlers, NEW t \in Tasks, Deliver(h, t) PROVE WorkingJobReported'
  BY <1>2 DEF Deliver, jobs, TypeOK, WorkingJobReported, Leased
<1>3. ASSUME NEW j \in Jobs, HandleManifest(j) PROVE WorkingJobReported'
  BY <1>3 DEF HandleManifest, WorkingJobReported, Leased
<1>4. CASE Crash
  BY <1>4 DEF Crash, WorkingJobReported, Leased
<1>5. CASE UNCHANGED <<pc, on, activeJobs>>
  BY <1>5 DEF WorkingJobReported, Leased
<1> QED
  BY <1>1, <1>2, <1>3, <1>4, <1>5
  DEF Next, DrainOne, RejectHeld, SetPaused, LoopTick, vars, jobs

\* While a handler works a job the heartbeat reports that job and not idle: for
\* any number of jobs worked side by side and whatever fails or pauses
\* (workers/mod.rs:2457-2465), as long as no two deliveries of one job are in the
\* process at a time, when the first to end takes the job away.
THEOREM JobsReported == Spec /\ []JobsApart => []WorkingJobReported
<1>1. Init => WorkingJobReported
  BY DEF Init, WorkingJobReported, Leased
<1>2. JobsApart /\ TypeOK /\ WorkingJobReported /\ [Next]_vars
        => TypeOK' /\ WorkingJobReported'
  BY NextTypeOK, NextReported
<1> QED
  BY InitTypeOK, <1>1, <1>2, PTL DEF Spec

\* So it is with one task per session, where no task is delivered twice at once.
COROLLARY SessionsReported ==
  ASSUME Steady, OneTaskPerJob
  PROVE  Spec => []WorkingJobReported
<1>1. TypeOK /\ FlightInv => JobsApart
  BY DEF TypeOK, FlightInv, Exclusive, JobsApart, OneTaskPerJob
<1>2. TypeOK /\ FlightInv /\ [Next]_vars => TypeOK' /\ FlightInv'
  BY NextTypeOK, NextFlightInv
<1> QED
  BY InitTypeOK, InitFlightInv, <1>1, <1>2, JobsReported, PTL DEF Spec

-----------------------------------------------------------------------------
(***************************************************************************)
(* One result per task, with a response buffer: the processed bucket is    *)
(* written before the response is held, and read before a task is worked.  *)
(***************************************************************************)
Working == Running \cup {"mark"}
Holding == {"ackDone", "push"}

\* Results that are out, or held.
Sent(t) == results[t] + buffer[t]

\* A handler works only what is not processed, and brings a response only to what
\* has none.
Rightly(h) ==
  /\ pc[h] # "publish"
  /\ pc[h] \in Working => on[h] \notin processed
  /\ pc[h] \in Holding => on[h] \in processed /\ Sent(on[h]) = 0

Tally(t) == Sent(t) <= 1 /\ (Sent(t) > 0 => t \in processed)

SentInv == (\A h \in Handlers : Rightly(h)) /\ \A t \in Tasks : Tally(t)

LEMMA InitSentInv == Init => SentInv
  BY DEF Init, SentInv, Rightly, Tally, Sent, Working, Holding, Running, Leased

\* A step of h on the task it has, which no other handler has.
LEMMA OwnStep ==
  ASSUME TypeOK, FlightInv, SentInv, NEW h \in Handlers, Alone(h),
         NEW t \in Tasks, on[h] = t,
         processed' \in {processed, processed \cup {t}},
         \A u \in Tasks \ {t} : results'[u] = results[u] /\ buffer'[u] = buffer[u],
         Rightly(h)', Tally(t)'
  PROVE  SentInv'
<1>1. ASSUME NEW g \in Handlers, g # h PROVE Rightly(g)'
  <2>1. Rightly(g) /\ pc'[g] = pc[g] /\ on'[g] = on[g] /\ on[g] # on[h]
    BY <1>1, TaskWorkerAssumption DEF Alone, SentInv, FlightInv, Exclusive
  <2>2. pc[g] # "idle" => on[g] \in Tasks /\ on[g] # NoTask
    BY TaskWorkerAssumption DEF TypeOK
  <2>3. on[g] \in processed' <=> on[g] \in processed
    BY <2>1
  <2>4. on[g] \in Tasks => Sent(on[g])' = Sent(on[g])
    BY <2>1 DEF Sent
  <2> QED
    BY <2>1, <2>2, <2>3, <2>4 DEF Rightly, Working, Holding, Running, Leased, Sent
<1>2. ASSUME NEW u \in Tasks, u # t PROVE Tally(u)'
  BY <1>2 DEF SentInv, Tally, Sent
<1>3. \A u \in Tasks : Tally(u)'
  BY <1>2
<1>4. \A g \in Handlers : Rightly(g)'
  BY <1>1
<1> QED
  BY <1>3, <1>4 DEF SentInv

\* A step of h that leaves the books alone.
LEMMA BooksAlone ==
  ASSUME TypeOK, FlightInv, SentInv, NEW h \in Handlers, on[h] \in Tasks, Alone(h),
         UNCHANGED <<processed, results, buffer>>,
         on'[h] = on[h] \/ pc'[h] = "idle",
         \/ pc'[h] \notin Working \cup Holding \cup {"publish"}
         \/ pc'[h] \in Working /\ (pc[h] \in Working \/ on[h] \notin processed)
         \/ pc'[h] \in Holding /\ pc[h] \in Holding
  PROVE  SentInv'
<1>1. PICK t \in Tasks : on[h] = t
  OBVIOUS
<1>2. Rightly(h) /\ Tally(t)'
  BY DEF SentInv, Tally, Sent
<1>3. Rightly(h)'
  BY <1>2 DEF Rightly, Sent, Working, Holding, Running, Leased
<1> QED
  BY <1>1, <1>2, <1>3, OwnStep

LEMMA StepSent ==
  ASSUME Buffered, TypeOK, FlightInv, SentInv, NEW h \in Handlers, Step(h)
  PROVE  SentInv'
<1>1. Alone(h) /\ on[h] \in Tasks /\ (on'[h] = on[h] \/ pc'[h] = "idle")
  BY StepAlone
<1>2. pc \in [Handlers -> Positions] /\ Rightly(h)
  BY <1>1 DEF TypeOK, SentInv
<1>0. PICK t \in Tasks : on[h] = t
  BY <1>1
<1>3. CASE MarkProcessed(h)
  <2>1. CASE processed' = processed \cup {t} /\ Goto(h, "ackDone")
    <3>1. /\ pc[h] = "mark" /\ UNCHANGED <<results, buffer>> /\ pc'[h] = "ackDone"
          /\ on'[h] = t
      BY <1>2, <1>0, <1>3, <2>1 DEF MarkProcessed, answers, Goto
    <3>2. t \notin processed
      BY <1>2, <1>0, <3>1 DEF Rightly, Working
    <3>3. results[t] + buffer[t] = 0
      BY <3>2 DEF SentInv, Tally, Sent, TypeOK
    <3>4. results'[t] + buffer'[t] = 0 /\ t \in processed'
      BY <2>1, <3>1, <3>3
    <3>5. Rightly(h)' /\ Tally(t)'
      BY <3>1, <3>4 DEF Rightly, Tally, Sent, Working, Running, Leased
    <3> QED
      BY <1>1, <1>0, <2>1, <3>1, <3>5, OwnStep
  <2>2. CASE Return(h) /\ UNCHANGED processed
    <3>1. UNCHANGED <<processed, results, buffer>> /\ pc'[h] = "idle"
      BY <1>2, <1>3, <2>2 DEF MarkProcessed, answers, Return
    <3> QED
      BY <1>1, <3>1, BooksAlone DEF Working, Holding, Running, Leased
  <2> QED
    BY <1>3, <1>0, <2>1, <2>2 DEF MarkProcessed
<1>4. CASE PushResponse(h)
  <2>1. /\ pc[h] = "push" /\ UNCHANGED <<processed, results>>
        /\ buffer' = [buffer EXCEPT ![t] = @ + 1]
        /\ pc'[h] = "finish" /\ on'[h] = t
    BY <1>2, <1>0, <1>4 DEF PushResponse, server, answers, Goto
  <2>2. t \in processed /\ results[t] + buffer[t] = 0
    BY <1>2, <1>0, <2>1 DEF Rightly, Holding, Sent
  <2>3. results'[t] + buffer'[t] = 1
    BY <2>1, <2>2 DEF TypeOK
  <2>4. \A u \in Tasks \ {t} : results'[u] = results[u] /\ buffer'[u] = buffer[u]
    BY <2>1 DEF TypeOK
  <2>5. Rightly(h)' /\ Tally(t)'
    BY <2>1, <2>2, <2>3 DEF Rightly, Tally, Sent, Working, Holding, Running, Leased
  <2> QED
    BY <1>1, <1>0, <2>1, <2>4, <2>5, OwnStep
<1>5. CASE CheckDuplicate(h)
  <2>1. /\ UNCHANGED <<processed, results, buffer>>
        /\ pc'[h] \in {"ackDrop", "start", "idle"}
        /\ pc'[h] = "start" => on[h] \notin processed
    BY <1>2, <1>5 DEF CheckDuplicate, server, answers, Goto, Return
  <2> QED
    BY <1>1, <2>1, BooksAlone DEF Working, Holding, Running, Leased
<1>6. CASE PublishResult(h)
  BY <1>2, <1>6 DEF PublishResult, Rightly
<1>7. CASE Succeed(h)
  <2>1. UNCHANGED <<processed, results, buffer>> /\ pc[h] = "work" /\ pc'[h] = "mark"
    BY <1>2, <1>7 DEF Succeed, server, answers, Goto
  <2> QED
    BY <1>1, <2>1, BooksAlone DEF Working, Running, Leased
<1>8. CASE AckDone(h)
  <2>1. /\ UNCHANGED <<processed, results, buffer>> /\ pc[h] = "ackDone"
        /\ pc'[h] \in {"push", "idle"}
    BY <1>2, <1>8 DEF AckDone, answers, Goto, Return
  <2> QED
    BY <1>1, <2>1, BooksAlone DEF Working, Holding, Running, Leased
<1>9. CASE Receive(h) \/ AckDrop(h) \/ AckSkip(h) \/ FinishTask(h) \/ AckFail(h)
  <2>1. UNCHANGED <<processed, results, buffer>> /\ pc'[h] \in {"dedup", "idle"}
    BY <1>2, <1>9
    DEF Receive, AckDrop, AckSkip, FinishTask, AckFail, server, answers, Goto, Return,
        ReturnOrphaning
  <2> QED
    BY <1>1, <2>1, BooksAlone DEF Working, Holding, Running, Leased
<1>10. CASE StartTask(h) \/ BeforePrompt(h) \/ Decide(h) \/ PublishSkip(h)
  <2>1. UNCHANGED <<processed, results, buffer>>
    BY <1>10 DEF StartTask, BeforePrompt, Decide, PublishSkip, server, answers
  <2>2. pc[h] \in Working /\ pc'[h] \in Working \cup {"idle"}
    BY <1>2, <1>10
    DEF StartTask, BeforePrompt, Decide, PublishSkip, Goto, Return, ReturnOrphaning,
        Working, Running, Leased
  <2> QED
    BY <1>1, <2>1, <2>2, BooksAlone DEF Working, Holding, Running, Leased
<1>11. CASE Fail(h) \/ FailPayment(h) \/ ReportFailure(h)
  <2>1. UNCHANGED <<processed, results, buffer>> /\ pc'[h] \in {"report", "ackFail"}
    BY <1>2, <1>11 DEF Fail, FailPayment, ReportFailure, server, answers, Goto
  <2> QED
    BY <1>1, <2>1, BooksAlone DEF Working, Holding, Running, Leased
<1> QED
  BY <1>3, <1>4, <1>5, <1>6, <1>7, <1>8, <1>9, <1>10, <1>11 DEF Step

\* The drain publishes what is held; a reject drops it.
LEMMA DrainSent ==
  ASSUME TypeOK, SentInv, NEW t \in Tasks, DrainOne(t) \/ RejectHeld(t)
  PROVE  SentInv'
<1>1. /\ UNCHANGED <<pc, on>> /\ buffer[t] > 0
      /\ processed' \in {processed, processed \cup {t}} /\ processed \subseteq processed'
      /\ buffer' = [buffer EXCEPT ![t] = @ - 1]
      /\ results' \in {results, [results EXCEPT ![t] = OneMore(@)]}
  BY DEF DrainOne, RejectHeld, Publish, server
<1>2. buffer \in [Tasks -> Nat] /\ results \in [Tasks -> 0..2]
  BY DEF TypeOK
<1>3. results[t] = 0 /\ buffer[t] = 1 /\ t \in processed
  BY <1>1, <1>2 DEF SentInv, Tally, Sent
<1>4. buffer'[t] = 0 /\ results'[t] \in {0, 1} /\ UNCHANGED processed
  BY <1>1, <1>2, <1>3 DEF OneMore
<1>5. \A u \in Tasks \ {t} : results'[u] = results[u] /\ buffer'[u] = buffer[u]
  BY <1>1, <1>2
<1>6. ASSUME NEW u \in Tasks PROVE Tally(u)'
  <2>1. CASE u = t  BY <1>3, <1>4, <2>1 DEF Tally, Sent
  <2>2. CASE u # t  BY <1>4, <1>5, <2>2 DEF SentInv, Tally, Sent
  <2> QED
    BY <2>1, <2>2
<1>7. ASSUME NEW h \in Handlers PROVE Rightly(h)'
  <2>1. Rightly(h) /\ pc'[h] = pc[h] /\ on'[h] = on[h]
    BY <1>1 DEF SentInv
  <2>2. pc[h] \in Holding => on[h] \in Tasks /\ on[h] # t
    BY <1>2, <1>3, <2>1 DEF Rightly, Sent, Holding, TypeOK
  <2> QED
    BY <1>4, <1>5, <2>1, <2>2 DEF Rightly, Sent
<1> QED
  BY <1>6, <1>7 DEF SentInv

LEMMA NextSentInv ==
  ASSUME Buffered, TypeOK, FlightInv, SentInv, [Next]_vars
  PROVE  SentInv'
<1>1. ASSUME NEW h \in Handlers, NEW t \in Tasks, Deliver(h, t) PROVE SentInv'
  <2>1. UNCHANGED <<processed, results, buffer>> /\ pc' = [pc EXCEPT ![h] = "received"]
    BY <1>1 DEF Deliver, answers
  <2>2. on' = [on EXCEPT ![h] = t]
    BY <1>1 DEF Deliver
  <2>3. ASSUME NEW g \in Handlers PROVE Rightly(g)'
    BY <2>1, <2>2
    DEF SentInv, Rightly, Sent, TypeOK, Working, Holding, Running, Leased
  <2>4. ASSUME NEW u \in Tasks PROVE Tally(u)'
    BY <2>1 DEF SentInv, Tally, Sent
  <2> QED
    BY <2>3, <2>4 DEF SentInv
<1>2. CASE Crash
  <2>1. /\ UNCHANGED <<processed, results>> /\ pc' = [h \in Handlers |-> "idle"]
        /\ buffer' = [t \in Tasks |-> 0]
    BY <1>2 DEF Crash, server, answers
  <2>2. \A h \in Handlers : Rightly(h)'
    BY <2>1 DEF Rightly, Working, Holding, Running, Leased
  <2>3. ASSUME NEW u \in Tasks PROVE Tally(u)'
    <3>1. buffer'[u] = 0 /\ results'[u] = results[u] /\ results[u] \in Nat
          /\ buffer[u] \in Nat /\ Tally(u)
      BY <2>1 DEF TypeOK, SentInv
    <3> QED
      BY <2>1, <3>1 DEF Tally, Sent
  <2> QED
    BY <2>2, <2>3 DEF SentInv
<1>3. CASE UNCHANGED <<processed, results, buffer, pc, on>>
  <2>1. ASSUME NEW g \in Handlers PROVE Rightly(g)'
    BY <1>3 DEF SentInv, Rightly, Sent, Working, Holding, Running, Leased
  <2>2. ASSUME NEW u \in Tasks PROVE Tally(u)'
    BY <1>3 DEF SentInv, Tally, Sent
  <2> QED
    BY <2>1, <2>2 DEF SentInv
<1>4. ASSUME NEW h \in Handlers, Step(h) PROVE SentInv'
  BY <1>4, StepSent
<1>5. ASSUME NEW t \in Tasks, DrainOne(t) \/ RejectHeld(t) PROVE SentInv'
  BY <1>5, DrainSent
<1> QED
  BY <1>1, <1>2, <1>3, <1>4, <1>5
  DEF Next, HandleManifest, SetPaused, LoopTick, vars, server, answers

\* The orchestrator receives at most one result per task from a worker with a
\* response buffer (workers/mod.rs:2094-2100): over all redeliveries, crashes,
\* lost acks and failed writes, for any number of tasks and handlers.
THEOREM ResultsOnce ==
  ASSUME Steady, Buffered
  PROVE  Spec => []OneResultPerTask
<1>1. TypeOK /\ FlightInv /\ SentInv /\ [Next]_vars => TypeOK' /\ FlightInv' /\ SentInv'
  BY NextTypeOK, NextFlightInv, NextSentInv
<1>2. ASSUME TypeOK, FlightInv, SentInv PROVE OneResultPerTask
  <2> SUFFICES ASSUME NEW t \in Tasks PROVE results[t] + buffer[t] + Coming(t) <= 1
    BY DEF OneResultPerTask
  <2> DEFINE bringing == {h \in Handling(t) : pc[h] \in {"ackDone", "push"}}
  <2>1. Tally(t) /\ results[t] \in Nat /\ buffer[t] \in Nat
    BY <1>2 DEF SentInv, TypeOK
  <2>2. CASE bringing = {}
    <3>1. Coming(t) = 0
      BY <2>2, FS_EmptySet DEF Coming
    <3> QED
      BY <2>1, <3>1 DEF Tally, Sent
  <2>3. ASSUME NEW h \in bringing PROVE results[t] + buffer[t] + Coming(t) <= 1
    <3>1. h \in Handlers /\ on[h] = t /\ pc[h] \in Holding
      BY <2>3 DEF Handling, Holding
    <3>2. Sent(t) = 0
      BY <1>2, <3>1 DEF SentInv, Rightly
    <3>3. bringing = {h}
      BY <1>2, <2>3, <3>1, TaskWorkerAssumption DEF Handling, FlightInv, Exclusive
    <3>4. Coming(t) = 1
      BY <3>3, FS_Singleton DEF Coming
    <3> QED
      BY <2>1, <3>2, <3>4 DEF Sent
  <2> QED
    BY <2>2, <2>3
<1> QED
  BY InitTypeOK, InitFlightInv, InitSentInv, <1>1, <1>2, PTL DEF Spec

-----------------------------------------------------------------------------
(***************************************************************************)
(* With a response buffer the task is marked and acked before its response *)
(* is held.  No task vanishes as long as nothing comes between: no crash,  *)
(* no ack that fails, and no second handler to drop what the first holds.  *)
(***************************************************************************)
\* Tasks with a response that is out, held or about to be held.
Have == Done \cup {t \in Tasks : buffer[t] > 0 \/ At(t, "push")}

HeldInv ==
  /\ \A t \in Tasks \ Poison : stream[t] = "acked" => t \in Have
  /\ \A t \in processed : t \in Have \/ At(t, "ackDone")
  /\ \A h \in Handlers : pc[h] \in {"ackSkip", "ackFail"} => on[h] \in Have
  /\ \A h \in Handlers : pc[h] = "ackDrop" => on[h] \in Have \cup Poison

LEMMA InitHeldInv == Init => HeldInv
  BY DEF Init, HeldInv

\* Where a handler comes from when it leaves the last two positions.
LEMMA HandlersGoOn ==
  ASSUME "crash" \notin Allowed, TypeOK, NEW g \in Handlers, [Next]_vars
  PROVE  \/ pc'[g] = pc[g] /\ on'[g] = on[g]
         \/ pc[g] = "idle" /\ pc'[g] = "received"
         \/ Step(g)
<1>1. ASSUME NEW h \in Handlers, Step(h) PROVE g = h \/ (pc'[g] = pc[g] /\ on'[g] = on[g])
  BY <1>1, StepAlone DEF Alone
<1>2. ASSUME NEW h \in Handlers, NEW t \in Tasks, Deliver(h, t)
      PROVE  (pc'[g] = pc[g] /\ on'[g] = on[g]) \/ (pc[g] = "idle" /\ pc'[g] = "received")
  BY <1>2 DEF Deliver, TypeOK
<1>3. CASE UNCHANGED <<pc, on>>
  BY <1>3
<1> QED
  BY <1>1, <1>2, <1>3
  DEF Next, DrainOne, RejectHeld, HandleManifest, SetPaused, LoopTick, Crash, Fault, vars

\* The response a handler is about to push is pushed.
LEMMA PushArrives ==
  ASSUME TypeOK, NEW g \in Handlers, Step(g), pc[g] = "push"
  PROVE  buffer'[on[g]] > 0
<1>1. PushResponse(g) /\ on[g] \in Tasks
  BY StepAlone
  DEF Step, Receive, CheckDuplicate, AckDrop, StartTask, BeforePrompt, Decide, PublishSkip,
      AckSkip, Succeed, PublishResult, MarkProcessed, AckDone, FinishTask, Fail, FailPayment,
      ReportFailure, AckFail
<1> QED
  BY <1>1 DEF PushResponse, TypeOK

\* A held response stays held until it goes out or the operator rejects it.
LEMMA HeldStays ==
  ASSUME "crash" \notin Allowed, TypeOK, NEW t \in Tasks, buffer[t] > 0, [Next]_vars
  PROVE  buffer'[t] > 0 \/ t \in Done'
<1>1. ASSUME NEW u \in Tasks, DrainOne(u) PROVE buffer'[t] > 0 \/ t \in Done'
  BY <1>1 DEF DrainOne, Publish, OneMore, Done, TypeOK
<1>2. ASSUME NEW u \in Tasks, RejectHeld(u) PROVE buffer'[t] > 0 \/ t \in Done'
  BY <1>2 DEF RejectHeld, Done, TypeOK
<1>3. ASSUME NEW h \in Handlers, PushResponse(h) PROVE buffer'[t] > 0
  BY <1>3 DEF PushResponse, TypeOK
<1>4. CASE UNCHANGED buffer
  BY <1>4
<1> QED
  BY <1>1, <1>2, <1>3, <1>4
  DEF Next, Step, Receive, CheckDuplicate, AckDrop, StartTask, BeforePrompt, Decide,
      PublishSkip, AckSkip, Succeed, PublishResult, MarkProcessed, AckDone, FinishTask, Fail,
      FailPayment, ReportFailure, AckFail, Deliver, HandleManifest, SetPaused, LoopTick,
      Crash, Fault, vars

LEMMA HaveStays ==
  ASSUME "crash" \notin Allowed, TypeOK, [Next]_vars
  PROVE  Have \subseteq Have'
<1> SUFFICES ASSUME NEW t \in Have PROVE t \in Have'
  OBVIOUS
<1>1. Done \subseteq Done'
  BY AnswersStay
<1>2. CASE t \in Done
  BY <1>1, <1>2 DEF Have
<1>3. CASE t \in Tasks /\ buffer[t] > 0
  BY <1>3, HeldStays DEF Have
<1>4. CASE t \in Tasks /\ At(t, "push")
  <2>1. PICK g \in Handlers : on[g] = t /\ pc[g] = "push"
    BY <1>4 DEF At, Handling
  <2>2. CASE pc'[g] = pc[g] /\ on'[g] = on[g]
    BY <1>4, <2>1, <2>2 DEF Have, At, Handling
  <2>3. CASE Step(g)
    BY <1>4, <2>1, <2>3, PushArrives DEF Have
  <2> QED
    BY <2>1, <2>2, <2>3, HandlersGoOn
<1> QED
  BY <1>2, <1>3, <1>4 DEF Have

\* A handler that has marked its task acks it and goes on to hold its response.
LEMMA MarkedStays ==
  ASSUME Buffered, {"crash", "ack_error"} \cap Allowed = {}, TypeOK, [Next]_vars,
         NEW t \in Tasks, At(t, "ackDone")
  PROVE  At(t, "ackDone")' \/ t \in Have'
<1>1. PICK g \in Handlers : on[g] = t /\ pc[g] = "ackDone"
  BY DEF At, Handling
<1>2. CASE pc'[g] = pc[g] /\ on'[g] = on[g]
  BY <1>1, <1>2 DEF At, Handling
<1>3. CASE Step(g)
  <2>1. AckDone(g)
    BY <1>1, <1>3
    DEF Step, Receive, CheckDuplicate, AckDrop, StartTask, BeforePrompt, Decide, PublishSkip,
        AckSkip, Succeed, PublishResult, MarkProcessed, PushResponse, FinishTask, Fail,
        FailPayment, ReportFailure, AckFail
  <2>2. pc'[g] = "push" /\ on'[g] = t
    BY <1>1, <2>1 DEF AckDone, AckError, Fault, Goto, TypeOK
  <2> QED
    BY <2>2 DEF Have, At, Handling
<1> QED
  BY <1>1, <1>2, <1>3, HandlersGoOn

\* The dedup check sends to the drop only what has a response.
LEMMA DropsHeld ==
  ASSUME TypeOK, FlightInv, HeldInv, NEW h \in Handlers, CheckDuplicate(h), pc'[h] = "ackDrop"
  PROVE  on[h] \in Have \cup Poison
<1>1. pc[h] = "dedup" /\ on[h] \in processed \cup Poison
  BY DEF CheckDuplicate, Goto, Return, TypeOK
<1>2. ASSUME on[h] \in processed, At(on[h], "ackDone") PROVE FALSE
  <2>1. PICK g \in Handlers : on[g] = on[h] /\ pc[g] = "ackDone"
    BY <1>2 DEF At, Handling
  <2>2. g # h /\ on[g] # NoTask
    BY <1>1, <2>1 DEF TypeOK
  <2> QED
    BY <2>1, <2>2 DEF FlightInv, Exclusive
<1> QED
  BY <1>1, <1>2 DEF HeldInv

\* A handler arrives at an acknowledgement only with a response.
LEMMA ArrivesWithAnswer ==
  ASSUME "marker_error" \notin Allowed, TypeOK, FlightInv, HeldInv, Have \subseteq Have',
         NEW h \in Handlers, Step(h)
  PROVE  /\ pc'[h] \in {"ackSkip", "ackFail"} => on'[h] \in Have'
         /\ pc'[h] = "ackDrop" => on'[h] \in Have' \cup Poison
<1> USE DEF Goto, Return, ReturnOrphaning
<1>1. pc \in [Handlers -> Positions] /\ on \in [Handlers -> Tasks \cup {NoTask}] /\ on[h] \in Tasks
  BY StepAlone DEF TypeOK
<1>2. CASE CheckDuplicate(h)
  <2>1. /\ pc'[h] \in {"ackDrop", "start", "idle"}
        /\ pc'[h] = "ackDrop" => on'[h] = on[h]
    BY <1>1, <1>2 DEF CheckDuplicate
  <2> QED
    BY <1>2, <2>1, DropsHeld
<1>3. CASE PublishSkip(h)
  BY <1>1, <1>3 DEF PublishSkip, Have, Done
<1>4. CASE FailPayment(h)
  BY <1>1, <1>4 DEF FailPayment, Have, Done
<1>5. CASE ReportFailure(h)
  BY <1>1, <1>5 DEF ReportFailure, Fault, Have, Done
<1>6. CASE /\ pc'[h] \notin {"ackDrop", "ackSkip", "ackFail"}
  BY <1>6
<1>7. CASE Receive(h) \/ AckDrop(h) \/ StartTask(h) \/ BeforePrompt(h) \/ Decide(h)
  BY <1>1, <1>7, <1>6 DEF Receive, AckDrop, StartTask, BeforePrompt, Decide
<1>8. CASE AckSkip(h) \/ Succeed(h) \/ PublishResult(h) \/ MarkProcessed(h) \/ AckDone(h)
  BY <1>1, <1>8, <1>6 DEF AckSkip, Succeed, PublishResult, MarkProcessed, AckDone
<1>9. CASE PushResponse(h) \/ FinishTask(h) \/ Fail(h) \/ AckFail(h)
  BY <1>1, <1>9, <1>6 DEF PushResponse, FinishTask, Fail, AckFail
<1> QED
  BY <1>2, <1>3, <1>4, <1>5, <1>7, <1>8, <1>9 DEF Step

\* What a step acknowledges has its response.
LEMMA AcksAnswered ==
  ASSUME Buffered, TypeOK, HeldInv, [Next]_vars, Have \subseteq Have',
         NEW t \in Tasks \ Poison, stream'[t] = "acked"
  PROVE  t \in Have'
<1>1. CASE stream[t] = "acked"
  BY <1>1 DEF HeldInv
<1>2. ASSUME NEW h \in Handlers, Step(h), stream[t] # "acked" PROVE t \in Have'
  <2>1. pc \in [Handlers -> Positions] /\ on[h] \in Tasks
    BY <1>2, StepAlone DEF TypeOK
  <2>2. CASE AckDrop(h) \/ AckSkip(h) \/ AckFail(h)
    <3>1. on[h] = t
      BY <1>2, <2>1, <2>2 DEF AckDrop, AckSkip, AckFail, AckOk, AckError, TypeOK
    <3> QED
      BY <2>2, <3>1 DEF AckDrop, AckSkip, AckFail, HeldInv
  <2>3. CASE AckDone(h)
    <3>1. on[h] = t /\ Goto(h, "push")
      BY <1>2, <2>1, <2>3 DEF AckDone, AckOk, AckError, TypeOK
    <3>2. pc'[h] = "push" /\ on'[h] = t
      BY <2>1, <3>1 DEF Goto
    <3> QED
      BY <3>2 DEF Have, At, Handling
  <2>4. CASE UNCHANGED stream
    BY <1>2, <2>4
  <2> QED
    BY <1>2, <2>2, <2>3, <2>4
    DEF Step, Receive, CheckDuplicate, StartTask, BeforePrompt, Decide, PublishSkip, Succeed,
        PublishResult, MarkProcessed, PushResponse, FinishTask, Fail, FailPayment,
        ReportFailure, server
<1>3. ASSUME NEW h \in Handlers, NEW u \in Tasks, Deliver(h, u), stream[t] # "acked" PROVE FALSE
  BY <1>3 DEF Deliver, TypeOK
<1>4. CASE UNCHANGED stream
  BY <1>1, <1>4
<1> QED
  BY <1>1, <1>2, <1>3, <1>4
  DEF Next, DrainOne, RejectHeld, HandleManifest, SetPaused, LoopTick, Crash, vars, server

\* What a step marks processed is about to be held, or is out.
LEMMA MarksAnswered ==
  ASSUME Buffered, {"crash", "ack_error"} \cap Allowed = {}, TypeOK, HeldInv, [Next]_vars,
         Have \subseteq Have', NEW t \in processed'
  PROVE  t \in Have' \/ At(t, "ackDone")'
<1>1. CASE t \in processed
  <2>1. t \in Tasks
    BY <1>1 DEF TypeOK
  <2> QED
    BY <1>1, <2>1, MarkedStays DEF HeldInv
<1>2. ASSUME NEW h \in Handlers, MarkProcessed(h), t \notin processed PROVE At(t, "ackDone")'
  <2>1. pc \in [Handlers -> Positions]
    BY DEF TypeOK
  <2>2. on[h] = t /\ Goto(h, "ackDone")
    BY <1>2 DEF MarkProcessed
  <2>3. pc'[h] = "ackDone" /\ on'[h] = t
    BY <2>1, <2>2 DEF Goto
  <2> QED
    BY <2>3 DEF At, Handling
<1>3. ASSUME NEW u \in Tasks, DrainOne(u), t \notin processed PROVE t \in Have'
  <2>1. u = t
    BY <1>3 DEF DrainOne
  <2> QED
    BY <1>3, <2>1 DEF DrainOne, Publish, OneMore, Have, Done, TypeOK
<1>4. CASE UNCHANGED processed
  BY <1>1, <1>4
<1> QED
  BY <1>1, <1>2, <1>3, <1>4
  DEF Next, Step, Receive, CheckDuplicate, AckDrop, StartTask, BeforePrompt, Decide,
      PublishSkip, AckSkip, Succeed, PublishResult, AckDone, PushResponse, FinishTask, Fail,
      FailPayment, ReportFailure, AckFail, Deliver, RejectHeld, HandleManifest, SetPaused,
      LoopTick, Crash, vars, server

LEMMA NextHeldInv ==
  ASSUME Buffered, {"crash", "ack_error", "marker_error"} \cap Allowed = {},
         TypeOK, FlightInv, HeldInv, [Next]_vars
  PROVE  HeldInv'
<1>1. Have \subseteq Have'
  BY HaveStays
<1>2. \A t \in Tasks \ Poison : stream'[t] = "acked" => t \in Have'
  BY <1>1, AcksAnswered
<1>3. \A t \in processed' : t \in Have' \/ At(t, "ackDone")'
  BY <1>1, MarksAnswered
<1>4. ASSUME NEW h \in Handlers
      PROVE  /\ pc'[h] \in {"ackSkip", "ackFail"} => on'[h] \in Have'
             /\ pc'[h] = "ackDrop" => on'[h] \in Have' \cup Poison
  <2>1. CASE pc'[h] = pc[h] /\ on'[h] = on[h]
    BY <1>1, <2>1 DEF HeldInv
  <2>2. CASE pc'[h] = "received"
    BY <2>2
  <2>3. CASE Step(h)
    BY <1>1, <2>3, ArrivesWithAnswer
  <2> QED
    BY <2>1, <2>2, <2>3, HandlersGoOn
<1> QED
  BY <1>2, <1>3, <1>4 DEF HeldInv

\* With a response buffer no task vanishes either, and the dedup check drops
\* nothing without a response, as long as the process does not die, no ack fails
\* and no marker is lost: the task is marked and acked before its response is held
\* (workers/mod.rs:2103), and each of the three would leave it so.
THEOREM BufferLosesNothing ==
  ASSUME Steady, Buffered, {"crash", "ack_error", "marker_error"} \cap Allowed = {}
  PROVE  Spec => [](AckedMeansAnswered /\ ProcessedMeansAnswered)
<1>1. /\ TypeOK /\ FlightInv /\ HeldInv /\ [Next]_vars
      => TypeOK' /\ FlightInv' /\ HeldInv'
  BY NextTypeOK, NextFlightInv, NextHeldInv
<1>2. HeldInv => AckedMeansAnswered /\ ProcessedMeansAnswered
  BY DEF HeldInv, Have, Done, AckedMeansAnswered, ProcessedMeansAnswered, Answered
<1> QED
  BY InitTypeOK, InitFlightInv, InitHeldInv, <1>1, <1>2, PTL DEF Spec
=============================================================================
