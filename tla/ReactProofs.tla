---------------------------- MODULE ReactProofs ----------------------------
(***************************************************************************)
(* Proofs about one propose or evaluate call of the LLM agent (ReactLoop), *)
(* for any task, any retry, iteration, re-quote and batch limits, and any  *)
(* budget.  The invariant React is proved part by part: where the loop is  *)
(* (Control), what it owes (Billed), what the store holds (NotesSurvive),  *)
(* what may be judged (Judged) and what was submitted (Submitted).         *)
(***************************************************************************)
EXTENDS ReactLoop, TLAPS

\* Where the loop may be: it turns only while iterations are left, a batch is
\* under way only while a call of it is left, and a tool runs only then.
InCall == {"announce", "tools", "record"}
Control ==
  /\ pc \in {"turn", "ask"} \cup InCall => iter < MaxIterations
  /\ pc \in InCall => left > 0
  /\ pc = "load" => iter = 0
  /\ call # "none" => pc \in InCall
  /\ pc \in {"announce", "record"} => call # "none"

\* A call that is announced has no event yet, one that runs has its Started
\* event or the loss of it, and none has an ending before it is recorded.
Underway ==
  /\ call # "none" => ended = 0 /\ begun <= 1
  /\ pc = "announce" => begun = 0
  /\ pc \in {"tools", "record"} /\ call # "none" => begun + slips >= 1

\* Inside the loop every reply is in one of the three counters; before it, a
\* broken loop's replies have been written off.
Billed ==
  /\ pc = "load" => owed = tokens.attempts + tokens.requotes
  /\ pc \in {"turn", "ask", "judge", "done"} \cup InCall =>
       owed = tokens.loop + tokens.attempts + tokens.requotes

\* The last turns are told to finish, and a call that is judged was not cut.
Judged ==
  /\ /\ pc \in {"ask"} \cup InCall
     /\ MaxIterations > FinalizeWindow /\ MaxIterations - iter <= FinalizeWindow
     => finalize
  /\ pc = "judge" /\ source = "call" => ~cut

\* Nothing is submitted before the end.
Submitted == submitted # NoSubmission => pc = "done"

-----------------------------------------------------------------------------
\* The type invariant in parts that change together.
LoopType  == /\ iter \in 0..MaxIterations /\ left \in 0..MaxBatch
             /\ pc \in {"load", "turn", "ask", "judge"} \cup InCall \cup Final
             /\ source \in {"call", "prose", "stuck"}
CallType  == /\ call \in {"none"} \cup ToolKinds
             /\ begun \in Nat /\ ended \in Nat /\ slips \in Nat
ClockType == elapsed \in 0..Budget
FlagType  == /\ finalize \in BOOLEAN /\ cut \in BOOLEAN /\ effort \in BOOLEAN
             /\ refuser \in BOOLEAN
RetryType == /\ try \in 1..(TaskRetries + 1) /\ attempt \in 1..(MaxRetries + 1)
             /\ requotes \in 0..RequoteBudget /\ job \in Settings
CountType == room \in 0..RoomLevels /\ empties \in Nat /\ refusals \in Nat
NoteType  == mem \subseteq Sections /\ saved \subseteq Sections /\ detached \in BOOLEAN
BillType  == tokens \in [loop: Nat, attempts: Nat, requotes: Nat] /\ owed \in Nat
FormNames == {"sound", "mended", "torn", "blank", "uncited", "shapeless", "empty"}
SubmissionType ==
  \/ submitted = NoSubmission
  \/ submitted \in [via: {"call", "prose", "stuck"}, form: FormNames, passes: BOOLEAN,
                    leak: {"none", "faint", "stark"}, bill: Nat]

\* They are the type invariant.
LEMMA TypeParts ==
  TypeOK <=> /\ LoopType /\ CallType /\ ClockType /\ FlagType /\ RetryType
             /\ CountType /\ NoteType /\ BillType /\ SubmissionType
  BY DEF TypeOK, LoopType, CallType, ClockType, FlagType, RetryType, CountType,
         NoteType, BillType, SubmissionType, FormNames, InCall

ReactInv ==
  /\ TypeOK /\ Control /\ Billed /\ NotesSurvive /\ CallsPaired /\ Underway
  /\ Judged /\ ToldToFinish /\ Submitted /\ SubmissionScreened /\ BilledOnce

\* The limits are numbers.
LEMMA Limits ==
  /\ MaxRetries \in Nat /\ MaxIterations \in Nat /\ FinalizeWindow \in Nat
  /\ MaxRetries > 0 /\ MaxIterations > 0 /\ FinalizeWindow > 0
  /\ Budget \in Nat /\ RequoteBudget \in Nat /\ TaskRetries \in Nat
  /\ RoomLevels \in Nat /\ MaxBatch \in Nat
  BY ReactAssumption

\* The call starts with nothing asked, owed or submitted.
LEMMA InitReactInv == Init => ReactInv
<1> SUFFICES ASSUME Init PROVE ReactInv
  OBVIOUS
<1>1. LoopType /\ CallType
  BY Limits DEF Init, LoopType, CallType, InCall, Final
<1>2. ClockType /\ CountType
  BY Limits DEF Init, ClockType, CountType
<1>9. NoteType
  BY DEF Init, NoteType
<1>8. FlagType
  BY DEF Init, FlagType
<1>3. RetryType
  BY Limits DEF Init, RetryType
<1>4. BillType /\ SubmissionType
  BY DEF Init, BillType, SubmissionType
<1>5. Control /\ Billed /\ Judged /\ Submitted
  BY DEF Init, Control, Billed, Judged, Submitted, InCall
<1>6. NotesSurvive /\ CallsPaired /\ Underway /\ ToldToFinish
  BY DEF Init, NotesSurvive, CallsPaired, Underway, Final, ToldToFinish
<1>7. SubmissionScreened /\ BilledOnce
  BY DEF Init, SubmissionScreened, BilledOnce
<1> QED
  BY <1>1, <1>2, <1>3, <1>4, <1>5, <1>6, <1>7, <1>8, <1>9, TypeParts DEF ReactInv

\* A step is one of the loop's, the end of the call, or a stutter.
LEMMA Steps ==
  ASSUME [Next]_vars
  PROVE  \/ Load \/ Turn \/ Submit \/ SubmitCut \/ Fold \/ OtherCall
         \/ Accept \/ Requote \/ Retry \/ GiveUp \/ Abandon \/ UNCHANGED vars
         \/ \E b \in BOOLEAN : Reply(b)
         \/ \E b \in BOOLEAN : ApiError(b)
         \/ Announce \/ Record
         \/ \E k \in ToolKinds : StartCall(k)
         \/ \E s \in Sections, m \in {"append", "overwrite"} : Note(s, m)
  BY DEF Next, Step

-----------------------------------------------------------------------------
\* A tool call ends in one of two ways: the batch goes on, or the turn is over
\* and the next one begins unless it was the last.
LEMMA CallEnds ==
  ASSUME LoopType, Record, Control
  PROVE  /\ pc = "record" /\ call' = "none"
         /\ \/ left' = left - 1 /\ left' > 0 /\ pc' = "tools" /\ UNCHANGED <<iter, source, cut>>
            \/ /\ left' = 0 /\ iter' = iter + 1 /\ cut' = FALSE
               /\ \/ iter' < MaxIterations /\ pc' = "turn" /\ UNCHANGED source
                  \/ iter' = MaxIterations /\ pc' = "judge" /\ source' = "stuck"
         /\ UNCHANGED <<outer, elapsed, finalize, config, notes, choice, bill>>
<1>1. left \in Nat /\ left > 0 /\ iter < MaxIterations /\ iter \in Nat /\ MaxIterations \in Nat
  BY ReactAssumption DEF LoopType, Control, Record, InCall
<1>2. CASE left = 1
  BY <1>1, <1>2 DEF Record, EndTurn
<1>3. CASE left # 1
  BY <1>1, <1>3 DEF Record
<1> QED
  BY <1>2, <1>3

\* What note, fold and any other tool have in common.
LEMMA ToolEnds ==
  ASSUME Fold \/ OtherCall \/ \E s \in Sections, m \in {"append", "overwrite"} : Note(s, m)
  PROVE  /\ pc = "tools" /\ pc' = "record" /\ call # "none"
         /\ UNCHANGED <<outer, iter, elapsed, finalize, left, cut, call, begun, ended,
                        slips, source, config, choice, bill>>
<1>1. ToolReturns /\ pc = "tools" /\ call # "none"
  BY DEF Fold, OtherCall, Note, Running
<1> QED
  BY <1>1 DEF ToolReturns, events

\* The position in the loop.
LEMMA NextLoop ==
  ASSUME LoopType, Control, [Next]_vars
  PROVE  LoopType' /\ Control'
<1> USE DEF LoopType, Control, InCall, Final
<1>1. CASE Load
  BY <1>1, Limits DEF Load, outer, turn
<1>2. CASE Turn
  BY <1>2 DEF Turn
<1>3. ASSUME NEW b \in BOOLEAN, Reply(b) PROVE LoopType' /\ Control'
  <2>1. \/ left' \in 1..MaxBatch /\ pc' = "tools" /\ UNCHANGED source
        \/ left' = 0 /\ pc' = "judge" /\ source' = "prose"
    BY <1>3 DEF Reply
  <2>2. pc = "ask" /\ UNCHANGED <<iter, call>>
    BY <1>3 DEF Reply
  <2> QED
    BY <2>1, <2>2, Limits
<1>4. ASSUME NEW b \in BOOLEAN, ApiError(b) PROVE LoopType' /\ Control'
  <2>1. pc' \in {"load", "failed"} /\ Fresh
    BY <1>4 DEF ApiError
  <2> QED
    BY <2>1, Limits DEF Fresh, NoLocals
<1>5. CASE Submit
  BY <1>5 DEF Submit
<1>6. CASE SubmitCut
  BY <1>6, Limits DEF SubmitCut, EndTurn
<1>7. ASSUME NEW k \in ToolKinds, StartCall(k) PROVE LoopType' /\ Control'
  <2>1. k # "none"
    BY ReactAssumption DEF Kinds
  <2> QED
    BY <1>7, <2>1 DEF StartCall
<1>8. CASE Fold \/ OtherCall \/ \E s \in Sections, m \in {"append", "overwrite"} : Note(s, m)
  BY <1>8, ToolEnds
<1>9. CASE Announce
  BY <1>9 DEF Announce
<1>12. CASE Record
  <2>1. call' = "none" /\ pc = "record"
    BY <1>12, CallEnds
  <2>3. CASE left' = left - 1 /\ left' > 0 /\ pc' = "tools" /\ UNCHANGED <<iter, source>>
    BY <2>1, <2>3, Limits
  <2>4. CASE left' = 0 /\ iter' = iter + 1 /\ iter' < MaxIterations /\ pc' = "turn" /\ UNCHANGED source
    BY <2>1, <2>4, Limits
  <2>5. CASE left' = 0 /\ iter' = iter + 1 /\ iter' = MaxIterations /\ pc' = "judge" /\ source' = "stuck"
    BY <2>1, <2>5, Limits
  <2> QED
    BY <1>12, <2>3, <2>4, <2>5, CallEnds
<1>13. CASE Accept
  BY <1>13 DEF Accept, turn
<1>10. CASE Requote \/ Retry \/ GiveUp \/ Abandon
  <2>1. pc' \in {"load", "failed", "abandoned"} /\ NoLocals
    BY <1>10 DEF Requote, Retry, GiveUp, Abandon, Fresh
  <2> QED
    BY <2>1, Limits DEF NoLocals
<1>11. CASE UNCHANGED vars
  BY <1>11 DEF vars, turn
<1> QED
  BY <1>1, <1>2, <1>3, <1>4, <1>5, <1>6, <1>7, <1>8, <1>9, <1>10, <1>11,
     <1>12, <1>13, Steps

\* The events of the tool calls: while no call runs, they differ by the slips.
LEMMA NextCalls ==
  ASSUME LoopType, CallType, Control, CallsPaired, Underway, [Next]_vars
  PROVE  CallType' /\ CallsPaired' /\ Underway'
<1> USE DEF CallType, CallsPaired, Underway
<1>1. ASSUME NEW k \in ToolKinds, StartCall(k) PROVE CallType' /\ CallsPaired' /\ Underway'
  <2>1. k # "none"
    BY ReactAssumption DEF Kinds
  <2> QED
    BY <1>1, <2>1 DEF StartCall, NoEvents, Final
<1>2. CASE Announce
  <2>1. call # "none" /\ pc = "announce" /\ pc' = "tools" /\ UNCHANGED <<call, ended>>
    BY <1>2 DEF Announce, Control
  <2>2. CASE begun' = begun + 1 /\ UNCHANGED slips
    BY <2>1, <2>2 DEF Final
  <2>3. CASE slips' = slips + 1 /\ UNCHANGED begun
    BY <2>1, <2>3 DEF Final
  <2> QED
    BY <1>2, <2>2, <2>3 DEF Announce, Report
<1>3. CASE Fold \/ OtherCall \/ \E s \in Sections, m \in {"append", "overwrite"} : Note(s, m)
  BY <1>3, ToolEnds DEF Final
<1>4. CASE Record
  <2>1. /\ call # "none" /\ pc = "record" /\ call' = "none" /\ UNCHANGED begun
        /\ pc' \in {"tools", "turn", "judge"}
    BY <1>4, CallEnds DEF Record, Control
  <2>2. ended = 0 /\ begun \in 0..1 /\ begun + slips >= 1
    BY <2>1
  <2>3. CASE ended' = ended + 1 /\ UNCHANGED slips
    BY <2>1, <2>2, <2>3
  <2>4. CASE slips' = slips + 1 /\ UNCHANGED ended
    BY <2>1, <2>2, <2>4
  <2> QED
    BY <1>4, <2>3, <2>4 DEF Record, Report
<1>5. CASE Abandon
  <2>1. call' = "none" /\ pc' = "abandoned" /\ pc \notin Final
    BY <1>5 DEF Abandon, NoLocals
  <2>2. CASE pc = "announce"
    <3>1. begun' \in {begun, begun + 1} /\ slips' = slips + 1 /\ UNCHANGED ended
      BY <1>5, <2>2 DEF Abandon, ReportCancelled
    <3>2. ended = 0 /\ begun = 0
      BY <2>2 DEF Control
    <3>3. ended' = 0 /\ slips' = slips + 1 /\ slips \in Nat /\ begun' \in {0, 1}
      BY <3>1, <3>2
    <3>4. CASE begun' = 0
      BY <2>1, <3>3, <3>4
    <3>5. CASE begun' = 1
      BY <2>1, <3>3, <3>5
    <3> QED
      BY <3>3, <3>4, <3>5
  <2>3. CASE pc = "record"
    <3>1. PICK out \in {0, 1}, told \in {0, 1} :
            ended' = ended + out + told /\ slips' = slips + 2 - told /\ UNCHANGED begun
      BY <1>5, <2>3 DEF Abandon, ReportCancelled
    <3>2. ended = 0 /\ begun \in 0..1 /\ begun + slips >= 1
      BY <2>3 DEF Control
    <3> QED
      BY <2>1, <3>1, <3>2
  <2>4. CASE pc = "tools" /\ call # "none"
    <3>1. Report(ended) /\ UNCHANGED begun
      BY <1>5, <2>4 DEF Abandon, ReportCancelled
    <3>2. ended = 0 /\ begun \in 0..1 /\ begun + slips >= 1
      BY <2>4
    <3>3. \/ ended' = ended + 1 /\ slips' = slips
          \/ slips' = slips + 1 /\ ended' = ended
      BY <3>1 DEF Report
    <3> QED
      BY <2>1, <3>1, <3>2, <3>3
  <2>5. CASE pc \notin {"announce", "record"} /\ ~(pc = "tools" /\ call # "none")
    <3>1. UNCHANGED <<begun, ended, slips>> /\ call = "none"
      BY <1>5, <2>5 DEF Abandon, ReportCancelled, events, Control, InCall
    <3> QED
      BY <2>1, <3>1 DEF Final
  <2> QED
    BY <2>2, <2>3, <2>4, <2>5
<1>6. CASE NoEvents /\ call' = "none"
  BY <1>6 DEF NoEvents
<1>7. CASE Turn
  BY <1>7 DEF Turn, NoEvents, Control, InCall
<1>8. CASE Requote \/ Retry \/ GiveUp \/ \E b \in BOOLEAN : ApiError(b)
  BY <1>6, <1>8 DEF Requote, Retry, GiveUp, ApiError, Fresh, NoLocals
<1>9. CASE /\ call = "none" /\ UNCHANGED <<call, begun, ended, slips>>
           /\ pc # "abandoned" /\ pc' # "announce"
  BY <1>9
<1>10. CASE Load \/ Submit \/ SubmitCut \/ Accept \/ \E b \in BOOLEAN : Reply(b)
  <2>1. UNCHANGED <<call, begun, ended, slips>>
    BY <1>10 DEF Load, Submit, SubmitCut, Accept, Reply, turn, events
  <2>2. call = "none" /\ pc # "abandoned" /\ pc' # "announce"
    BY <1>10 DEF Load, Submit, SubmitCut, EndTurn, Accept, Reply, Control, InCall
  <2> QED
    BY <1>9, <2>1, <2>2
<1>11. CASE UNCHANGED vars
  BY <1>11 DEF vars, turn
<1> QED
  BY <1>1, <1>2, <1>3, <1>4, <1>5, <1>7, <1>8, <1>10, <1>11, Steps

\* The other parts of the type invariant.
LEMMA NextFlags == 
  ASSUME FlagType, LoopType, Control, [Next]_vars
  PROVE  FlagType'
<1> USE DEF FlagType, turn, config, choice, outer
<1>1. CASE Load
  BY <1>1 DEF Load
<1>2. CASE Turn
  <2>1. finalize' = (TimeLow \/ TurnsLow)
    BY <1>2 DEF Turn
  <2>2. finalize' \in BOOLEAN
    BY <2>1
  <2> QED
    BY <1>2, <2>2 DEF Turn
<1>3. ASSUME NEW b \in BOOLEAN, Reply(b) PROVE FlagType'
  BY <1>3 DEF Reply, Remember
<1>4. ASSUME NEW b \in BOOLEAN, ApiError(b) PROVE FlagType'
  BY <1>4 DEF ApiError, BackOff, RestartConfig, Fresh, NoLocals
<1>5. CASE Submit
  BY <1>5 DEF Submit
<1>6. CASE SubmitCut
  BY <1>6 DEF SubmitCut, EndTurn
<1>7. ASSUME NEW k \in ToolKinds, StartCall(k) PROVE FlagType'
  BY <1>7 DEF StartCall
<1>8. CASE Fold \/ OtherCall \/ \E s \in Sections, m \in {"append", "overwrite"} : Note(s, m)
  BY <1>8, ToolEnds
<1>9. CASE Accept \/ GiveUp
  BY <1>9 DEF Accept, GiveUp, Fresh, NoLocals
<1>10. CASE Requote
  BY <1>10 DEF Requote, RestartConfig, Fresh, NoLocals
<1>11. CASE Retry
  BY <1>11 DEF Retry, Fresh, NoLocals
<1>12. CASE Abandon
  BY <1>12 DEF Abandon, NoLocals
<1>13. CASE UNCHANGED vars
  BY <1>13 DEF vars
<1>14. CASE Announce
  BY <1>14 DEF Announce
<1>15. CASE Record
  <2>1. cut' \in BOOLEAN /\ UNCHANGED <<finalize, effort, refuser>>
    BY <1>15, CallEnds
  <2> QED
    BY <2>1
<1> QED
  BY <1>1, <1>2, <1>3, <1>4, <1>5, <1>6, <1>7, <1>8, <1>9, <1>10, <1>11, <1>12, <1>13,
     <1>14, <1>15, Steps

\* The counters of the retry loops stop at their limits.
LEMMA NextRetries ==
  ASSUME RetryType, [Next]_vars
  PROVE  RetryType'
<1> USE DEF RetryType
<1>1. ASSUME NEW b \in BOOLEAN, ApiError(b) PROVE RetryType'
  <2>1. UNCHANGED job /\ try' \in {try, try + 1} /\ (try' # try => try <= TaskRetries)
    BY <1>1 DEF ApiError
  <2>2. attempt' \in {1, attempt, attempt + 1} /\ (attempt' = attempt + 1 => attempt <= MaxRetries)
    BY <1>1, Limits DEF ApiError, BackOff
  <2>3. requotes' \in {0, requotes}
    BY <1>1 DEF ApiError
  <2> QED
    BY <2>1, <2>2, <2>3, Limits
<1>2. CASE Requote
  BY <1>2, Limits DEF Requote, Requotable
<1>3. CASE Retry
  BY <1>3, Limits DEF Retry, RetriesLeft
<1>4. CASE UNCHANGED <<job, try, attempt, requotes>>
  BY <1>4
<1>5. CASE Fold \/ OtherCall \/ \E s \in Sections, m \in {"append", "overwrite"} : Note(s, m)
  BY <1>4, <1>5, ToolEnds DEF outer
<1> QED
  BY <1>1, <1>2, <1>3, <1>4, <1>5, Steps DEF Load, Turn, Reply, Submit, SubmitCut,
     StartCall, Announce, Record, Accept, GiveUp, Abandon, outer, vars

\* The clock of the loop stops at the budget, and max_tokens at its ceiling.
LEMMA NextCounts ==
  ASSUME ClockType, CountType, [Next]_vars
  PROVE  ClockType' /\ CountType'
<1> USE DEF ClockType, CountType
<1>1. CASE Load
  BY <1>1, Limits DEF Load, config, choice, turn
<1>2. ASSUME NEW b \in BOOLEAN, Reply(b) PROVE ClockType' /\ CountType'
  <2>1. refusals' \in {refusals, refusals + 1} /\ UNCHANGED <<room, empties>>
    BY <1>2 DEF Reply, choice, config
  <2>2. PICK ticks \in {1, 2} :
          elapsed' = IF elapsed + ticks > Budget THEN Budget ELSE elapsed + ticks
    BY <1>2 DEF Reply
  <2> QED
    BY <2>1, <2>2, Limits
<1>3. ASSUME NEW b \in BOOLEAN, ApiError(b) PROVE ClockType' /\ CountType'
  <2>1. room' \in {0, room} /\ empties' \in {0, empties} /\ elapsed' = 0 /\ UNCHANGED refusals
    BY <1>3 DEF ApiError, BackOff, RestartConfig, config, Fresh, NoLocals, choice
  <2> QED
    BY <2>1, Limits
<1>4. CASE SubmitCut
  BY <1>4, Limits DEF SubmitCut, RaiseRoom, choice
<1>5. CASE Requote
  BY <1>5, Limits DEF Requote, RestartConfig, Fresh, NoLocals, choice
<1>6. CASE Retry
  <2>1. room' \in {room, IF room < RoomLevels THEN room + 1 ELSE room}
        /\ empties' \in {0, empties + 1} /\ elapsed' = 0 /\ UNCHANGED refusals
    BY <1>6 DEF Retry, RaiseRoom, Fresh, NoLocals, choice
  <2> QED
    BY <2>1, Limits
<1>7. CASE UNCHANGED <<elapsed, room, empties, refusals>>
  BY <1>7
<1>8. CASE Fold \/ OtherCall \/ \E s \in Sections, m \in {"append", "overwrite"} : Note(s, m)
  BY <1>7, <1>8, ToolEnds DEF config, choice
<1>9. CASE GiveUp \/ Abandon
  BY <1>9, Limits DEF GiveUp, Abandon, Fresh, NoLocals, config, choice
<1> QED
  BY <1>1, <1>2, <1>3, <1>4, <1>5, <1>6, <1>7, <1>8, <1>9, Steps DEF Turn, Submit, StartCall,
     Announce, Record, Accept, config, choice, turn, vars

-----------------------------------------------------------------------------
\* A store: the scratchpad in memory becomes pad; written, it is the store's too
\* or the store has failed.
LEMMA StoreKeeps ==
  ASSUME NEW pad, NEW write \in BOOLEAN, Store(pad, write)
  PROVE  /\ mem' = pad /\ saved' \in {pad, saved}
         /\ detached' \in {TRUE, FALSE, detached}
         /\ write /\ ~detached' => mem' = saved'
  BY DEF Store

\* What compaction may leave: a set of sections, in the store too if a proposal
\* is being written.
LEMMA CompactKeeps ==
  ASSUME Compact, NoteType, "plain" \in Sections
  PROVE  /\ NoteType'
         /\ \/ UNCHANGED notes
            \/ job.phase = "propose" /\ ~detached' => mem' = saved'
<1>1. CASE UNCHANGED notes
  BY <1>1 DEF notes, NoteType
<1>2. ASSUME NEW pad \in {Folded(mem)} \cup Squeezed(mem), Store(pad, job.phase = "propose")
      PROVE  NoteType' /\ (job.phase = "propose" /\ ~detached' => mem' = saved')
  <2>1. pad \subseteq Sections
    BY <1>2 DEF Folded, Squeezed, NoteType
  <2>2. (job.phase = "propose") \in BOOLEAN
    OBVIOUS
  <2>3. /\ mem' = pad /\ saved' \in {pad, saved} /\ detached' \in {TRUE, FALSE, detached}
        /\ job.phase = "propose" /\ ~detached' => mem' = saved'
    BY <1>2, <2>2, StoreKeeps
  <2> QED
    BY <2>1, <2>3 DEF NoteType
<1> QED
  BY <1>1, <1>2 DEF Compact

\* While a proposal is being written the scratchpad in memory is the stored one.
LEMMA NextNotes ==
  ASSUME NoteType, NotesSurvive, LoopType, Control, [Next]_vars
  PROVE  NoteType' /\ NotesSurvive'
<1>0. "plain" \in Sections
  BY ReactAssumption
<1>1. CASE Load
  <2>1. \/ mem' = View(saved) /\ detached' = FALSE
        \/ mem' = {} /\ detached' = TRUE
    BY <1>1 DEF Load
  <2>2. View(saved) \subseteq Sections /\ (job.phase = "propose" => View(saved) = saved)
    BY DEF View, NoteType
  <2>3. UNCHANGED <<saved, job>>
    BY <1>1 DEF Load, outer
  <2> QED
    BY <2>1, <2>2, <2>3 DEF NoteType, NotesSurvive
<1>2. CASE Turn
  <2>1. pc = "turn" /\ UNCHANGED job /\ (Compact \/ UNCHANGED notes)
    BY <1>2 DEF Turn, outer
  <2>2. NoteType' /\ (UNCHANGED notes \/ (job.phase = "propose" /\ ~detached' => mem' = saved'))
    BY <1>0, <2>1, CompactKeeps DEF NoteType, notes
  <2> QED
    BY <2>1, <2>2 DEF NotesSurvive, notes
<1>3. CASE Fold
  <2>1. pc = "tools" /\ Compact /\ UNCHANGED job
    BY <1>3 DEF Fold, Running, ToolReturns, outer
  <2>2. NoteType' /\ (UNCHANGED notes \/ (job.phase = "propose" /\ ~detached' => mem' = saved'))
    BY <1>0, <2>1, CompactKeeps
  <2> QED
    BY <2>1, <2>2 DEF NotesSurvive, notes
<1>4. ASSUME NEW s \in Sections, NEW m \in {"append", "overwrite"}, Note(s, m)
      PROVE  NoteType' /\ NotesSurvive'
  <2> DEFINE pad == IF m = "append" THEN mem \cup {s} ELSE {s}
  <2>1. pad \subseteq Sections
    BY DEF NoteType
  <2>2. Store(pad, TRUE)
    BY <1>4 DEF Note
  <2>3. /\ mem' = pad /\ saved' \in {pad, saved} /\ detached' \in {TRUE, FALSE, detached}
        /\ ~detached' => mem' = saved'
    BY <2>2, StoreKeeps
  <2> QED
    BY <2>1, <2>3 DEF NoteType, NotesSurvive
<1>5. CASE Accept
  <2>1. pc' = "done" /\ Rotate
    BY <1>5 DEF Accept
  <2>2. UNCHANGED <<mem, detached>>
    BY <2>1 DEF Rotate, notes
  <2>3. saved' \subseteq saved \cup {"plain"}
    BY <2>1 DEF Rotate, notes
  <2> QED
    BY <1>0, <2>1, <2>2, <2>3 DEF NoteType, NotesSurvive
<1>6. CASE OtherCall
  BY <1>6 DEF OtherCall, ToolReturns, outer, notes, NoteType, NotesSurvive
<1>7. CASE /\ UNCHANGED <<notes, job>>
           /\ \/ pc' \in {"load"} \cup Final
              \/ pc \in {"turn", "ask", "announce", "tools", "record", "judge"}
  BY <1>7 DEF notes, NoteType, NotesSurvive, Final
<1>8. ASSUME NEW b \in BOOLEAN, Reply(b) PROVE NoteType' /\ NotesSurvive'
  BY <1>7, <1>8 DEF Reply, outer
<1>9. ASSUME NEW b \in BOOLEAN, ApiError(b) PROVE NoteType' /\ NotesSurvive'
  BY <1>7, <1>9 DEF ApiError, Final
<1>10. ASSUME NEW k \in ToolKinds, StartCall(k) PROVE NoteType' /\ NotesSurvive'
  BY <1>7, <1>10 DEF StartCall, outer
<1>11. CASE Submit \/ SubmitCut \/ Requote \/ Retry \/ GiveUp \/ Abandon \/ UNCHANGED vars
  BY <1>7, <1>11 DEF Submit, SubmitCut, Requote, Retry, GiveUp, Abandon, Final, outer, vars,
     notes, NoteType, NotesSurvive
<1>12. CASE Announce \/ Record
  BY <1>7, <1>12 DEF Announce, Record, outer
<1> QED
  BY <1>1, <1>2, <1>3, <1>4, <1>5, <1>6, <1>8, <1>9, <1>10, <1>11, <1>12, Steps

-----------------------------------------------------------------------------
\* A finalising turn is decided at its top; a cut reply is never judged as a
\* call.
LEMMA NextJudged ==
  ASSUME LoopType, Control, Judged, ToldToFinish, [Next]_vars
  PROVE  Judged' /\ ToldToFinish'
<1> USE DEF Judged, ToldToFinish, InCall
<1>1. CASE Turn
  <2>1. finalize' = (TimeLow \/ TurnsLow) /\ pc' = "ask" /\ UNCHANGED iter
    BY <1>1 DEF Turn
  <2>2. MaxIterations > FinalizeWindow /\ MaxIterations - iter <= FinalizeWindow => finalize'
    BY <2>1 DEF TurnsLow
  <2> QED
    BY <2>1, <2>2
<1>2. ASSUME NEW b \in BOOLEAN, Reply(b) PROVE Judged' /\ ToldToFinish'
  <2>1. /\ pc = "ask" /\ UNCHANGED <<iter, finalize>>
        /\ \/ pc' = "tools"
           \/ pc' = "judge" /\ source' = "prose"
    BY <1>2 DEF Reply
  <2> QED
    BY <2>1
<1>3. CASE Submit
  BY <1>3 DEF Submit
<1>4. ASSUME iter' = iter + 1, iter' = MaxIterations, pc \in InCall, pc' = "judge",
             source' = "stuck", UNCHANGED finalize
      PROVE  Judged' /\ ToldToFinish'
  <2>1. MaxIterations - iter <= FinalizeWindow
    BY <1>4, Limits DEF LoopType
  <2> QED
    BY <1>4, <2>1
<1>5. CASE SubmitCut
  BY <1>4, <1>5, Limits DEF SubmitCut, EndTurn
<1>6. CASE Fold \/ OtherCall \/ \E s \in Sections, m \in {"append", "overwrite"} : Note(s, m)
  BY <1>6, ToolEnds
<1>10. CASE Announce
  BY <1>10 DEF Announce
<1>11. CASE Record
  <2>1. pc = "record" /\ UNCHANGED finalize
    BY <1>11, CallEnds
  <2>3. CASE pc' = "tools" /\ UNCHANGED <<iter, source, cut>>
    BY <2>1, <2>3
  <2>4. CASE pc' = "turn"
    BY <2>4
  <2>5. CASE iter' = iter + 1 /\ iter' = MaxIterations /\ pc' = "judge" /\ source' = "stuck"
    BY <1>4, <2>1, <2>5
  <2> QED
    BY <1>11, <2>3, <2>4, <2>5, CallEnds
<1>7. ASSUME NEW k \in ToolKinds, StartCall(k) PROVE Judged' /\ ToldToFinish'
  BY <1>7 DEF StartCall
<1>8. CASE pc' \in {"load", "turn"} \cup Final
  BY <1>8 DEF Final
<1>9. CASE UNCHANGED vars
  BY <1>9 DEF vars, turn
<1> QED
  BY <1>1, <1>2, <1>3, <1>5, <1>6, <1>7, <1>8, <1>9, <1>10, <1>11, Steps
  DEF Load, ApiError, Accept, Requote, Retry, GiveUp, Abandon, Final

-----------------------------------------------------------------------------
\* Every reply stays in one of the counters until its loop is broken by an
\* error of the provider.
LEMMA NextBill ==
  ASSUME BillType, Billed, LoopType, Control, [Next]_vars
  PROVE  BillType' /\ Billed'
<1>0. tokens.loop \in Nat /\ tokens.attempts \in Nat /\ tokens.requotes \in Nat /\ owed \in Nat
  BY DEF BillType
<1>1. CASE Load
  <2>1. tokens' = [tokens EXCEPT !.loop = 0] /\ UNCHANGED owed /\ pc = "load" /\ pc' = "turn"
    BY <1>1 DEF Load
  <2>2. tokens'.loop = 0 /\ tokens'.attempts = tokens.attempts /\ tokens'.requotes = tokens.requotes
    BY <2>1 DEF BillType
  <2>3. BillType'
    BY <2>1 DEF BillType
  <2> QED
    BY <1>0, <2>1, <2>2, <2>3 DEF Billed
<1>2. ASSUME NEW b \in BOOLEAN, Reply(b) PROVE BillType' /\ Billed'
  <2>1. tokens' = [tokens EXCEPT !.loop = @ + 1] /\ owed' = owed + 1 /\ pc = "ask"
        /\ pc' \in {"tools", "judge"}
    BY <1>2 DEF Reply
  <2>2. tokens'.loop = tokens.loop + 1 /\ tokens'.attempts = tokens.attempts
        /\ tokens'.requotes = tokens.requotes
    BY <2>1 DEF BillType
  <2>3. BillType'
    BY <2>1 DEF BillType
  <2> QED
    BY <1>0, <2>1, <2>2, <2>3 DEF Billed
<1>3. ASSUME NEW b \in BOOLEAN, ApiError(b) PROVE BillType' /\ Billed'
  <2>1. CASE pc' = "load" /\ owed' = owed - tokens.loop /\ UNCHANGED tokens
    BY <1>0, <1>3, <2>1 DEF ApiError, Billed, BillType, InCall
  <2>2. CASE pc' = "failed" /\ UNCHANGED bill
    BY <2>2 DEF bill, Billed, BillType, InCall
  <2>3. CASE tokens' = [loop |-> 0, attempts |-> 0, requotes |-> 0] /\ owed' = 0
    BY <2>3 DEF Billed, BillType
  <2> QED
    BY <1>3, <2>1, <2>2, <2>3 DEF ApiError
<1>4. CASE Requote
  <2>1. /\ tokens' = [loop |-> 0, attempts |-> 0,
                      requotes |-> tokens.requotes + tokens.attempts + tokens.loop]
        /\ UNCHANGED owed /\ pc = "judge" /\ pc' = "load"
    BY <1>4 DEF Requote
  <2> QED
    BY <1>0, <2>1 DEF Billed, BillType
<1>5. CASE Retry
  <2>1. /\ tokens' = [tokens EXCEPT !.attempts = @ + tokens.loop, !.loop = 0]
        /\ UNCHANGED owed /\ pc = "judge" /\ pc' = "load"
    BY <1>5 DEF Retry, Accumulate
  <2>2. tokens'.loop = 0 /\ tokens'.attempts = tokens.attempts + tokens.loop
        /\ tokens'.requotes = tokens.requotes
    BY <2>1 DEF BillType
  <2>3. BillType'
    <3>1. tokens.attempts + tokens.loop \in Nat
      BY <1>0
    <3> QED
      BY <2>1, <3>1 DEF BillType
  <2> QED
    BY <1>0, <2>1, <2>2, <2>3 DEF Billed
<1>6. CASE UNCHANGED bill /\ \/ pc' \in {"failed", "abandoned"} \/ pc' = pc
                             \/ {pc, pc'} \subseteq {"turn", "ask", "judge", "done"} \cup InCall
  BY <1>6 DEF bill, Billed, BillType, InCall
<1>7. CASE Turn \/ Submit \/ Accept \/ GiveUp \/ Abandon \/ UNCHANGED vars
  BY <1>6, <1>7 DEF Turn, Submit, Accept, GiveUp, Abandon, vars, InCall
<1>8. CASE SubmitCut
  BY <1>6, <1>8 DEF SubmitCut, EndTurn, InCall
<1>9. ASSUME NEW k \in ToolKinds, StartCall(k) PROVE BillType' /\ Billed'
  BY <1>6, <1>9 DEF StartCall, InCall
<1>10. CASE Fold \/ OtherCall \/ \E s \in Sections, m \in {"append", "overwrite"} : Note(s, m)
  BY <1>6, <1>10, ToolEnds DEF InCall
<1>11. CASE Announce \/ Record
  <2>1. {pc, pc'} \subseteq {"turn", "judge"} \cup InCall /\ UNCHANGED bill
    BY <1>11, CallEnds DEF Announce, Record, InCall
  <2> QED
    BY <1>6, <2>1
<1> QED
  BY <1>1, <1>2, <1>3, <1>4, <1>5, <1>7, <1>8, <1>9, <1>10, <1>11, Steps

-----------------------------------------------------------------------------
\* The forms a judged text may have, whoever produced it.
LEMMA FormsAreNames == Forms \subseteq FormNames
  BY DEF Forms, FormNames

\* What is published of an acceptable text: its bill is the three counters, and
\* what the guard and the reviewer demand of the text holds of it.
LEMMA PublishedKeeps ==
  ASSUME BillType, LoopType, FlagType, NEW s \in Submissions, Acceptable(s)
  PROVE  /\ Published(s).via = source
         /\ Published(s).bill = tokens.attempts + tokens.loop + tokens.requotes
         /\ job.guarded /\ ~job.forced => Published(s).leak = "none"
         /\ job.reviewed /\ job.phase = "propose" => Published(s).passes
         /\ Published(s) \in [via: {"call", "prose", "stuck"}, form: FormNames, passes: BOOLEAN,
                              leak: {"none", "faint", "stark"}, bill: Nat]
<1>1. s.form \in FormNames /\ s.leak \in {"none", "faint", "stark"} /\ s.passes \in BOOLEAN
  BY FormsAreNames DEF Submissions
<1>2. Redacted(s.leak) \in {"none", "stark"} /\ (s.leak # "stark" => Redacted(s.leak) = "none")
  BY DEF Redacted
<1>3. (job.guarded => s.leak # "stark") /\ (job.reviewed /\ job.phase = "propose" => s.passes)
  BY DEF Acceptable, Screened, Reviewed
<1>4. /\ Published(s).via = source /\ Published(s).form = s.form
      /\ Published(s).passes = s.passes
      /\ Published(s).leak = IF job.guarded /\ ~job.forced THEN Redacted(s.leak) ELSE s.leak
      /\ Published(s).bill = tokens.attempts + tokens.loop + tokens.requotes
  BY DEF Published
<1>5. Published(s).leak \in {"none", "faint", "stark"}
  BY <1>1, <1>2, <1>4
<1>6. tokens.attempts + tokens.loop + tokens.requotes \in Nat
  BY DEF BillType
<1>7. source \in {"call", "prose", "stuck"}
  BY DEF LoopType
<1>8. Published(s) \in [via: {"call", "prose", "stuck"}, form: FormNames, passes: BOOLEAN,
                        leak: {"none", "faint", "stark"}, bill: Nat]
  BY <1>1, <1>4, <1>5, <1>6, <1>7 DEF Published
<1> QED
  BY <1>2, <1>3, <1>4, <1>8

\* Only Accept submits, and after it nothing happens.
LEMMA OnlyAcceptSubmits ==
  ASSUME [Next]_vars
  PROVE  \/ Accept
         \/ UNCHANGED vars
         \/ UNCHANGED submitted /\ pc \notin Final
<1>1. CASE Fold \/ OtherCall \/ \E s \in Sections, m \in {"append", "overwrite"} : Note(s, m)
  BY <1>1, ToolEnds DEF outer, Final
<1>2. ASSUME NEW b \in BOOLEAN, Reply(b) \/ ApiError(b)
      PROVE  UNCHANGED submitted /\ pc \notin Final
  BY <1>2 DEF Reply, ApiError, outer, Final
<1>3. ASSUME NEW k \in ToolKinds, StartCall(k)
      PROVE  UNCHANGED submitted /\ pc \notin Final
  BY <1>3 DEF StartCall, outer, Final
<1>4. CASE Load \/ Turn \/ Submit \/ SubmitCut \/ Announce \/ Record
  BY <1>4 DEF Load, Turn, Submit, SubmitCut, Announce, Record, outer, Final
<1>5. CASE Requote \/ Retry \/ GiveUp \/ Abandon
  BY <1>5 DEF Requote, Retry, GiveUp, Abandon, outer, Final
<1> QED
  BY <1>1, <1>2, <1>3, <1>4, <1>5, Steps

\* A submission is screened when it is made, and stays what it was.
LEMMA NextSubmission ==
  ASSUME ReactInv, [Next]_vars
  PROVE  SubmissionType' /\ Submitted' /\ SubmissionScreened' /\ BilledOnce'
<1>0. /\ BillType /\ LoopType /\ FlagType /\ SubmissionType /\ Judged /\ Billed
      /\ Submitted /\ SubmissionScreened /\ BilledOnce
  BY TypeParts DEF ReactInv
<1>1. CASE Accept
  <2>1. PICK s \in Submissions : Acceptable(s) /\ submitted' = Published(s)
    BY <1>1 DEF Accept
  <2>2. pc = "judge" /\ pc' = "done" /\ UNCHANGED <<job, source, cut, owed>>
    BY <1>1 DEF Accept, turn, bill
  <2>3. /\ submitted'.via = source
        /\ submitted'.bill = tokens.attempts + tokens.loop + tokens.requotes
        /\ job.guarded /\ ~job.forced => submitted'.leak = "none"
        /\ job.reviewed /\ job.phase = "propose" => submitted'.passes
    BY <1>0, <2>1, PublishedKeeps
  <2>4. SubmissionType'
    BY <1>0, <2>1, PublishedKeeps DEF SubmissionType
  <2>5. BilledOnce'
    <3>1. tokens.loop \in Nat /\ tokens.attempts \in Nat /\ tokens.requotes \in Nat
      BY <1>0 DEF BillType
    <3> QED
      BY <1>0, <2>2, <2>3, <3>1 DEF BilledOnce, Billed
  <2>6. ~(source = "call" /\ cut)
    BY <1>0, <2>2 DEF Judged
  <2>7. SubmissionScreened'
    BY <2>2, <2>3, <2>6 DEF SubmissionScreened
  <2> QED
    BY <2>2, <2>4, <2>5, <2>7 DEF Submitted
<1>2. CASE UNCHANGED vars
  <2>1. UNCHANGED <<submitted, pc, job, cut, owed>>
    BY <1>2 DEF vars, outer, turn, bill
  <2> QED
    BY <1>0, <2>1 DEF SubmissionType, Submitted, SubmissionScreened, BilledOnce
<1>3. CASE UNCHANGED submitted /\ pc \notin Final
  <2>1. submitted = NoSubmission /\ submitted' = NoSubmission
    BY <1>0, <1>3 DEF Submitted, Final
  <2> QED
    BY <2>1 DEF SubmissionType, Submitted, SubmissionScreened, BilledOnce
<1> QED
  BY <1>1, <1>2, <1>3, OnlyAcceptSubmits

-----------------------------------------------------------------------------
\* All parts together.
LEMMA NextReactInv == ReactInv /\ [Next]_vars => ReactInv'
<1> SUFFICES ASSUME ReactInv, [Next]_vars PROVE ReactInv'
  OBVIOUS
<1>1. /\ LoopType /\ CallType /\ ClockType /\ FlagType /\ RetryType
      /\ CountType /\ NoteType /\ BillType /\ SubmissionType
      /\ Control /\ Billed /\ NotesSurvive /\ CallsPaired /\ Underway
      /\ Judged /\ ToldToFinish
  BY TypeParts DEF ReactInv
<1>2. /\ LoopType' /\ Control' /\ CallType' /\ CallsPaired' /\ Underway' /\ FlagType' /\ RetryType'
  BY <1>1, NextLoop, NextCalls, NextFlags, NextRetries
<1>3. /\ ClockType' /\ CountType' /\ NoteType' /\ NotesSurvive' /\ BillType' /\ Billed'
  BY <1>1, NextCounts, NextNotes, NextBill
<1>4. Judged' /\ ToldToFinish'
  BY <1>1, NextJudged
<1>5. SubmissionType' /\ Submitted' /\ SubmissionScreened' /\ BilledOnce'
  BY NextSubmission
<1>6. TypeOK'
  <2>1. TypeOK' <=> /\ LoopType' /\ CallType' /\ ClockType' /\ FlagType' /\ RetryType'
                    /\ CountType' /\ NoteType' /\ BillType' /\ SubmissionType'
    BY DEF TypeOK, LoopType, CallType, ClockType, FlagType, RetryType, CountType,
           NoteType, BillType, SubmissionType, FormNames, InCall
  <2> QED
    BY <1>2, <1>3, <1>5, <2>1
<1> QED
  BY <1>2, <1>3, <1>4, <1>5, <1>6 DEF ReactInv

LEMMA ReactInvariant == Spec => []ReactInv
  BY InitReactInv, NextReactInv, PTL DEF Spec

\* Every counter of the loop keeps its type and stays within its limit, for any
\* limits (agents/nsed_agent.rs, generate_structured_output and react_loop).
THEOREM TypeCorrect == Spec => []TypeOK
<1>1. ReactInv => TypeOK
  BY DEF ReactInv
<1> QED
  BY <1>1, ReactInvariant, PTL

\* Whatever is submitted, on whichever attempt and by whichever repair, has
\* passed the prompt-exposure guard and the reviewer, and is not the arguments
\* of a call that was cut at max_tokens.
THEOREM SubmissionsScreened == Spec => []SubmissionScreened
<1>1. ReactInv => SubmissionScreened
  BY DEF ReactInv
<1> QED
  BY <1>1, ReactInvariant, PTL

\* The bill of a submission counts each reply since the last error of the
\* provider once, over all rejected attempts, re-quotes and restarts.
THEOREM RepliesBilledOnce == Spec => []BilledOnce
<1>1. ReactInv => BilledOnce
  BY DEF ReactInv
<1> QED
  BY <1>1, ReactInvariant, PTL

\* While a proposal is being written and the store answers, the scratchpad the
\* model sees is the one a retry or the next round will read, through every
\* note, fold and squeeze.
THEOREM NotesAreStored == Spec => []NotesSurvive
<1>1. ReactInv => NotesSurvive
  BY DEF ReactInv
<1> QED
  BY <1>1, ReactInvariant, PTL

\* A tool call has one ToolCallStarted and one Finished event, also when the
\* task is dropped in the middle of it, up to the publishes of them that failed
\* or were interrupted; two endings need a drop while the first is published.
THEOREM CallEventsPaired == Spec => []CallsPaired
<1>1. ReactInv => CallsPaired
  BY DEF ReactInv
<1> QED
  BY <1>1, ReactInvariant, PTL

\* The loop never makes up an empty submission without a last turn in which the
\* model could only submit, for any window and number of iterations.
THEOREM WarnedBeforeStuck == Spec => []ToldToFinish
<1>1. ReactInv => ToldToFinish
  BY DEF ReactInv
<1> QED
  BY <1>1, ReactInvariant, PTL

\* While proposals are written, appending to the scratchpad removes nothing from
\* the stored one; of an evaluation, which sees the findings only, this is false.
THEOREM AppendsKeepNotes ==
  ASSUME \A j \in Settings : j.phase = "propose"
  PROVE  Spec => AppendKeepsNotes
<1>1. ReactInv /\ [Next]_vars =>
        [\A s \in Sections : ~detached /\ Note(s, "append") => saved \subseteq saved']_vars
  <2> SUFFICES ASSUME ReactInv, NEW s \in Sections, ~detached, Note(s, "append")
               PROVE  saved \subseteq saved'
    OBVIOUS
  <2>1. pc = "tools" /\ Store(mem \cup {s}, TRUE)
    BY DEF Note, Running
  <2>2. job.phase = "propose"
    BY DEF ReactInv, TypeOK
  <2>3. mem = saved
    BY <2>1, <2>2 DEF ReactInv, NotesSurvive
  <2> QED
    BY <2>1, <2>3 DEF Store
<1> QED
  BY <1>1, ReactInvariant, PTL DEF Spec, AppendKeepsNotes

-----------------------------------------------------------------------------
(***************************************************************************)
(* Why the nested loops end.  Every step goes forward: into a new start of *)
(* the task, a new re-quote, a new attempt, a new turn, a later place of   *)
(* the turn, or a smaller rest of its batch, in this order of importance,  *)
(* and each of these is bounded by its limit (TypeCorrect).  With the      *)
(* fairness of the steps this is what Terminates rests on.                 *)
(***************************************************************************)
WithinTurn ==
  \/ <<pc, pc'>> \in {<<"turn", "ask">>, <<"ask", "tools">>, <<"ask", "judge">>, <<"tools", "judge">>}
  \/ pc = "record" /\ pc' = "tools" /\ left' < left
  \/ /\ left' = left
     /\ \/ pc = "tools" /\ call = "none" /\ pc' = "announce"
        \/ pc = "announce" /\ pc' = "tools" /\ call' # "none"
        \/ pc = "tools" /\ call # "none" /\ pc' = "record"

WithinAttempt ==
  \/ pc = "load" /\ pc' = "turn"
  \/ pc \in {"tools", "record"} /\ pc' \in {"turn", "judge"} /\ iter' = iter + 1
  \/ iter' = iter /\ WithinTurn

Advances ==
  \/ pc \notin Final /\ pc' \in Final /\ UNCHANGED <<try, requotes, attempt>>
  \/ try' = try + 1
  \/ try' = try /\ requotes' = requotes + 1
  \/ UNCHANGED <<try, requotes>> /\ attempt' = attempt + 1
  \/ UNCHANGED <<try, requotes, attempt>> /\ WithinAttempt

LEMMA StepAdvances == ReactInv /\ Next => Advances
<1> SUFFICES ASSUME ReactInv, Next PROVE Advances
  OBVIOUS
<1>0. LoopType /\ CallType /\ RetryType /\ Control
  BY TypeParts DEF ReactInv
<1>1. CASE Load \/ Turn \/ \E b \in BOOLEAN : Reply(b)
  BY <1>1 DEF Load, Turn, Reply, outer, turn, Advances, WithinAttempt, WithinTurn
<1>2. CASE \E b \in BOOLEAN : ApiError(b)
  <2>1. attempt + 1 # 1 /\ "failed" \in Final /\ pc = "ask" /\ pc \notin Final
    BY <1>0, <1>2, Limits DEF RetryType, ApiError, Final
  <2>2. PICK b \in BOOLEAN : ApiError(b)
    BY <1>2
  <2>3. CASE b /\ attempt <= MaxRetries
    <3>1. attempt' = attempt + 1 /\ try' = try /\ pc' = "load"
      BY <2>2, <2>3 DEF ApiError, BackOff
    <3>2. requotes' = requotes
      BY <2>1, <2>2, <3>1 DEF ApiError
    <3> QED
      BY <3>1, <3>2 DEF Advances
  <2>4. CASE ~(b /\ attempt <= MaxRetries)
    <3>1. \/ pc' = "failed" /\ UNCHANGED <<try, attempt>>
          \/ try' = try + 1
      BY <2>2, <2>4 DEF ApiError
    <3>2. pc' = "failed" => requotes' = requotes
      BY <2>2 DEF ApiError
    <3> QED
      BY <2>1, <3>1, <3>2 DEF Advances
  <2> QED
    BY <2>3, <2>4
<1>3. CASE Submit
  BY <1>3 DEF Submit, outer, Advances, WithinAttempt, WithinTurn
<1>4. CASE SubmitCut
  BY <1>4 DEF SubmitCut, EndTurn, outer, Advances, WithinAttempt
<1>5. CASE \E k \in ToolKinds : StartCall(k)
  BY <1>5 DEF StartCall, outer, Advances, WithinAttempt, WithinTurn
<1>11. CASE Announce
  BY <1>0, <1>11 DEF Announce, Control, outer, Advances, WithinAttempt, WithinTurn
<1>6. CASE Fold \/ OtherCall \/ \E s \in Sections, m \in {"append", "overwrite"} : Note(s, m)
  BY <1>6, ToolEnds DEF outer, Advances, WithinAttempt, WithinTurn
<1>12. CASE Record
  <2>1. /\ UNCHANGED <<try, requotes, attempt>> /\ pc = "record"
        /\ \/ left' = left - 1 /\ left' > 0 /\ pc' = "tools" /\ UNCHANGED iter
           \/ iter' = iter + 1 /\ pc' \in {"turn", "judge"}
    BY <1>0, <1>12, CallEnds DEF outer
  <2>2. left \in Nat
    BY <1>0 DEF LoopType
  <2> QED
    BY <2>1, <2>2 DEF Advances, WithinAttempt, WithinTurn
<1>7. CASE Accept \/ GiveUp
  BY <1>7 DEF Accept, GiveUp, outer, Advances, Final
<1>8. CASE Requote
  BY <1>8 DEF Requote, Advances
<1>9. CASE Retry
  BY <1>9 DEF Retry, Advances
<1>10. CASE Abandon
  BY <1>10 DEF Abandon, outer, Advances, Final
<1> QED
  BY <1>1, <1>2, <1>3, <1>4, <1>5, <1>6, <1>7, <1>8, <1>9, <1>10,
     <1>11, <1>12 DEF Next, Step

\* The loop never goes back: every step of a task ends it, starts it over, asks
\* for another quote, begins another attempt or turn, or gets further in the turn,
\* each of them within its limit, so no task makes more steps than the limits
\* allow (agents/nsed_agent.rs, propose, evaluate, generate_structured_output and
\* react_loop; workers/mod.rs, MAX_TASK_RETRIES).
THEOREM NeverGoesBack == Spec => [][Advances]_vars
<1>1. ReactInv /\ [Next]_vars => [Advances]_vars
  BY StepAdvances
<1> QED
  BY <1>1, ReactInvariant, PTL DEF Spec
=============================================================================
