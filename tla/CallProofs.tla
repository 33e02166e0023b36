----------------------------- MODULE CallProofs -----------------------------
(***************************************************************************)
(* Proofs about what an agent calls, for any number of requests, tasks and *)
(* handlers, any sizes and any program: the rate limiter keeps its         *)
(* distance (LlmRequest), a request's telemetry is closed exactly once     *)
(* (RequestSpan), a verdict is never read from a part of the output        *)
(* (SubprocessCall), how long a missing model benches its agent            *)
(* (ModelBench), what a phase of the Claude CLI submits and fails for      *)
(* (ClaudePhase), and what the runner of the agents returns (AgentRunner). *)
(***************************************************************************)
EXTENDS LlmRequest, RequestSpan, SubprocessCall, ModelBench, ClaudePhase,
        AgentRunner,
        FiniteSetTheorems, SequenceTheorems, TLAPS

-----------------------------------------------------------------------------
(***************************************************************************)
(* The rate limiter.                                                       *)
(***************************************************************************)
Slotted == { r \in Requests : call[r] = "slot" }

\* A slot that is waited for lies before the next one to give out, and at
\* least Spacing after the last send.
SlotInOrder(r) ==
  /\ wait[r] \in Nat
  /\ wait[r] + Spacing <= ahead
  /\ wait[r] + gap >= Spacing

\* Two slots are at least Spacing apart.
Apart(q, r) == wait[q] + Spacing <= wait[r] \/ wait[r] + Spacing <= wait[q]

LimiterInv ==
  /\ DOMAIN call = Requests /\ DOMAIN wait = Requests
  /\ ahead \in Nat /\ gap \in 0..Spacing /\ ahead + gap >= Spacing
  /\ \A r \in Slotted : SlotInOrder(r)
  /\ \A q, r \in Slotted : q # r => Apart(q, r)

\* No slot is taken, and the last send is long past.
LEMMA LimiterInit == LlmInit => LimiterInv
  BY LlmAssumption DEF LlmAssumption, LlmInit, LimiterInv, Slotted

\* A step that gives no slot out and sends nothing leaves the slots as they are.
LEMMA SlotsKept ==
  ASSUME LimiterInv, UNCHANGED <<ahead, gap>>,
         DOMAIN call' = Requests, DOMAIN wait' = Requests,
         \A r \in Requests : call'[r] = "slot" => call[r] = "slot" /\ wait'[r] = wait[r]
  PROVE  LimiterInv'
  BY DEF LimiterInv, Slotted, SlotInOrder, Apart

\* Only Reserve gives a slot out, only Send uses one, and time brings all of
\* them nearer together.
LEMMA LimiterNext == LimiterInv /\ [LlmNext]_llmVars => LimiterInv'
<1> SUFFICES ASSUME LimiterInv, [LlmNext]_llmVars PROVE LimiterInv'
  OBVIOUS
<1> USE LlmAssumption DEF LlmAssumption
<1>1. CASE Pass
  <2> USE DEF LimiterInv, Slotted, SlotInOrder, Apart
  <2>1. /\ call' = call /\ DOMAIN wait' = Requests
        /\ \A r \in Slotted : wait[r] > 0 /\ wait'[r] = wait[r] - 1
    BY <1>1 DEF Pass, Waiting
  <2>2. ahead' = (IF ahead = 0 THEN 0 ELSE ahead - 1) /\ gap' = Smaller(gap + 1, Spacing)
    BY <1>1 DEF Pass
  <2>3. \A r \in Slotted : SlotInOrder(r)'
    BY <2>1, <2>2 DEF Smaller
  <2>4. \A q, r \in Slotted : q # r => Apart(q, r)'
    BY <2>1
  <2>5. ahead' \in Nat /\ gap' \in 0..Spacing /\ ahead' + gap' >= Spacing
    BY <2>2 DEF Smaller
  <2> QED
    BY <2>1, <2>3, <2>4, <2>5
<1>2. ASSUME NEW r \in Requests, Reserve(r) PROVE LimiterInv'
  <2> USE DEF LimiterInv, Slotted, SlotInOrder, Apart
  <2>1. /\ call' = [call EXCEPT ![r] = "slot"] /\ wait' = [wait EXCEPT ![r] = ahead]
        /\ ahead' = ahead + Spacing /\ gap' = gap
    BY <1>2 DEF Reserve, Goes, Slot
  <2>2. Slotted' = Slotted \cup {r} /\ r \notin Slotted
    BY <1>2, <2>1 DEF Reserve
  <2>3. \A q \in Slotted' : SlotInOrder(q)'
    BY <2>1, <2>2
  <2>4. \A p, q \in Slotted' : p # q => Apart(p, q)'
    BY <2>1, <2>2
  <2> QED
    BY <2>1, <2>3, <2>4
<1>3. ASSUME NEW r \in Requests, Send(r) PROVE LimiterInv'
  <2> USE DEF LimiterInv, Slotted, SlotInOrder, Apart
  <2>1. /\ call' = [call EXCEPT ![r] = "sent"] /\ gap' = 0 /\ UNCHANGED <<wait, ahead>>
        /\ wait[r] = 0 /\ r \in Slotted
    BY <1>3 DEF Send, Goes
  <2>2. Slotted' = Slotted \ {r}
    BY <2>1
  <2>3. \A q \in Slotted' : SlotInOrder(q)'
    BY <2>1, <2>2
  <2> QED
    BY <2>1, <2>2, <2>3
<1>4. ASSUME NEW r \in Requests, Admit(r) \/ Reacts(r) \/ EndBackOff(r) \/ Dropped(r)
      PROVE  LimiterInv'
  <2>1. UNCHANGED <<ahead, gap>>
    BY <1>4 DEF Admit, Reacts, EndBackOff, Dropped, Ends, Overflows, RefusesName, WantsPayment,
                Throttled, Resend, Sleeps, Returns
  <2>2. \E to \in {"prepare", "done", "backoff"} : call' = [call EXCEPT ![r] = to]
    BY <1>4 DEF Admit, Reacts, EndBackOff, Dropped, Ends, Overflows, RefusesName, WantsPayment,
                Throttled, Resend, Sleeps, Returns, Goes
  <2>3. DOMAIN wait' = Requests /\ \A q \in Requests \ {r} : wait'[q] = wait[q]
    <3>1. CASE UNCHANGED wait
      BY <3>1 DEF LimiterInv
    <3>2. CASE Returns(r)
      BY <3>2 DEF Returns, LimiterInv
    <3>3. ASSUME NEW ticks, Sleeps(r, ticks)
          PROVE  DOMAIN wait' = Requests /\ \A q \in Requests \ {r} : wait'[q] = wait[q]
      BY <3>3 DEF Sleeps, LimiterInv
    <3> QED
      BY <1>4, <3>1, <3>2, <3>3
      DEF Admit, Reacts, EndBackOff, Dropped, Ends, Overflows, RefusesName, WantsPayment,
          Throttled, Resend
  <2>4. /\ DOMAIN call' = Requests /\ DOMAIN wait' = Requests
        /\ \A q \in Requests : call'[q] = "slot" => call[q] = "slot" /\ wait'[q] = wait[q]
    BY <2>2, <2>3 DEF LimiterInv
  <2> QED
    BY <2>1, <2>4, SlotsKept
<1>5. CASE UNCHANGED llmVars
  BY <1>5, SlotsKept DEF llmVars, LimiterInv
<1> QED
  BY <1>1, <1>2, <1>3, <1>4, <1>5 DEF LlmNext, LlmStep

\* A request leaves its slot for the wire only when the slot has come.
LEMMA SendAfterGap ==
  ASSUME LimiterInv, LlmNext, NEW r \in Requests, call[r] = "slot", call'[r] = "sent"
  PROVE  gap >= Spacing
<1>1. ASSUME NEW q \in Requests, LlmStep(q) \/ Dropped(q) PROVE Send(r)
  <2>1. \E to : call' = [call EXCEPT ![q] = to]
    BY <1>1 DEF LlmStep, Reserve, Send, Admit, Reacts, EndBackOff, Dropped, Ends, Overflows,
                RefusesName, WantsPayment, Throttled, Resend, Sleeps, Returns, Goes
  <2>2. q = r
    BY <2>1 DEF LimiterInv
  <2> QED
    BY <1>1, <2>2 DEF LlmStep, Admit, Reacts, EndBackOff, Dropped, Ends, Overflows, RefusesName,
                      WantsPayment, Throttled, Resend, Sleeps, Reserve, Dropped, Returns, Goes,
                      LimiterInv
<1>2. ~Pass
  BY DEF Pass
<1>3. Send(r)
  BY <1>1, <1>2 DEF LlmNext
<1> QED
  BY <1>3, LlmAssumption DEF LlmAssumption, Send, LimiterInv, Slotted, SlotInOrder

\* Whatever is retried, slept on or abandoned, two sends of one provider are
\* never closer than the limiter's spacing (rate_limiter.rs, acquire).
THEOREM LimiterKeepsDistance == LlmSpec => SendsSpaced
<1>1. LimiterInv /\ [LlmNext]_llmVars =>
        [\A r \in Requests : call[r] = "slot" /\ call'[r] = "sent" => gap >= Spacing]_llmVars
  BY SendAfterGap
<1> QED
  BY <1>1, LimiterInit, LimiterNext, PTL DEF LlmSpec, SendsSpaced

-----------------------------------------------------------------------------
(***************************************************************************)
(* The quirk.                                                              *)
(***************************************************************************)
InFlight == { r \in Requests : InLoop(r) }

\* Those who paid for the quirk, or may still have to.
Payers == refused \cup (IF learned THEN { r \in InFlight : ~renames[r] } ELSE InFlight)

AtMostPermits(S) == IsFiniteSet(S) /\ Cardinality(S) <= Permits

QuirkInv ==
  /\ DOMAIN call = Requests /\ DOMAIN renames = Requests /\ learned \in BOOLEAN
  /\ AtMostPermits(InFlight) /\ AtMostPermits(Payers)
  /\ learned \/ refused = {}

\* A subset of few is few.
LEMMA FewerStillFit ==
  ASSUME NEW S, NEW T \in SUBSET S, AtMostPermits(S)
  PROVE  AtMostPermits(T)
<1>1. IsFiniteSet(T) /\ Cardinality(T) <= Cardinality(S)
  BY FS_Subset DEF AtMostPermits
<1>2. Cardinality(T) \in Nat /\ Cardinality(S) \in Nat /\ Permits \in Nat
  BY <1>1, FS_CardinalityType, LlmAssumption DEF AtMostPermits, LlmAssumption
<1> QED
  BY <1>1, <1>2 DEF AtMostPermits

\* Nobody is in flight.
LEMMA QuirkInit == LlmInit => QuirkInv
<1> SUFFICES ASSUME LlmInit PROVE QuirkInv
  OBVIOUS
<1>1. InFlight = {} /\ Payers = {}
  BY DEF LlmInit, InFlight, InLoop, Payers
<1>2. AtMostPermits({})
  BY FS_EmptySet, LlmAssumption DEF AtMostPermits, LlmAssumption
<1> QED
  BY <1>1, <1>2 DEF LlmInit, QuirkInv

\* A step that admits nobody adds nobody to those who may have to pay.
LEMMA NoNewPayers ==
  ASSUME QuirkInv, InFlight' \subseteq InFlight, Payers' \subseteq Payers,
         DOMAIN call' = Requests, DOMAIN renames' = Requests, learned' \in BOOLEAN,
         learned' \/ refused' = {}
  PROVE  QuirkInv'
<1>1. AtMostPermits(InFlight') /\ AtMostPermits(Payers')
  BY FewerStillFit DEF QuirkInv
<1> QED
  BY <1>1 DEF QuirkInv, AtMostPermits

\* Only Admit adds a request, and once the quirk is known it starts out renamed.
LEMMA QuirkNext == QuirkInv /\ [LlmNext]_llmVars => QuirkInv'
<1> SUFFICES ASSUME QuirkInv, [LlmNext]_llmVars PROVE QuirkInv'
  OBVIOUS
<1>1. ASSUME NEW r \in Requests, Admit(r) PROVE QuirkInv'
  <2>1. /\ call[r] = "new" /\ call' = [call EXCEPT ![r] = "prepare"]
        /\ renames' = [renames EXCEPT ![r] = learned] /\ UNCHANGED <<learned, refused>>
        /\ Cardinality(InFlight) < Permits
    BY <1>1 DEF Admit, Goes, Seed, InFlight
  <2>2. InFlight' = InFlight \cup {r} /\ r \notin InFlight
    BY <2>1 DEF InFlight, InLoop, QuirkInv
  <2>3. AtMostPermits(InFlight')
    <3>1. IsFiniteSet(InFlight') /\ Cardinality(InFlight') = Cardinality(InFlight) + 1
      BY <2>2, FS_AddElement DEF QuirkInv, AtMostPermits
    <3>2. Cardinality(InFlight) \in Nat /\ Permits \in Nat
      BY FS_CardinalityType, LlmAssumption DEF QuirkInv, AtMostPermits, LlmAssumption
    <3> QED
      BY <2>1, <3>1, <3>2 DEF AtMostPermits
  <2>4. CASE learned
    <3>1. Payers' \subseteq Payers
      BY <2>1, <2>2, <2>4 DEF Payers, InFlight, QuirkInv
    <3>2. AtMostPermits(Payers')
      BY <3>1, FewerStillFit DEF QuirkInv
    <3> QED
      BY <2>1, <2>3, <3>2 DEF QuirkInv, AtMostPermits
  <2>5. CASE ~learned
    <3>1. Payers' = InFlight'
      BY <2>1, <2>5 DEF Payers, QuirkInv
    <3> QED
      BY <2>1, <2>3, <2>5, <3>1 DEF QuirkInv, AtMostPermits
  <2> QED
    BY <2>4, <2>5
<1>2. ASSUME NEW r \in Requests, RefusesName(r) PROVE QuirkInv'
  <2>1. /\ call[r] = "sent" /\ call' = [call EXCEPT ![r] = "prepare"]
        /\ ~renames[r] /\ renames' = [renames EXCEPT ![r] = TRUE]
        /\ learned' = TRUE /\ refused' = refused \cup {r}
    BY <1>2 DEF RefusesName, Resend, Goes
  <2>2. InFlight' = InFlight /\ r \in InFlight
    BY <2>1 DEF InFlight, InLoop, QuirkInv
  <2>3. Payers' \subseteq Payers
    BY <2>1, <2>2 DEF Payers, InFlight, QuirkInv
  <2> QED
    BY <2>1, <2>2, <2>3, NoNewPayers DEF QuirkInv
<1>3. ASSUME NEW r \in Requests, Returns(r) PROVE QuirkInv'
  <2>1. /\ call' = [call EXCEPT ![r] = "done"] /\ renames' = [renames EXCEPT ![r] = FALSE]
        /\ UNCHANGED <<learned, refused>>
    BY <1>3 DEF Returns, Goes
  <2>2. InFlight' = InFlight \ {r}
    BY <2>1 DEF InFlight, InLoop, QuirkInv
  <2>3. Payers' \subseteq Payers
    BY <2>1, <2>2 DEF Payers, InFlight, QuirkInv
  <2> QED
    BY <2>1, <2>2, <2>3, NoNewPayers DEF QuirkInv
<1>4. ASSUME NEW r \in Requests, NEW to \in {"prepare", "slot", "sent", "backoff"},
             InLoop(r), call' = [call EXCEPT ![r] = to], UNCHANGED <<renames, learned, refused>>
      PROVE  QuirkInv'
  <2>1. InFlight' = InFlight
    BY <1>4 DEF InFlight, InLoop, QuirkInv
  <2>2. Payers' = Payers
    BY <1>4, <2>1 DEF Payers
  <2> QED
    BY <1>4, <2>1, <2>2, NoNewPayers DEF QuirkInv
<1>5. ASSUME NEW r \in Requests, Reserve(r) \/ Send(r) \/ Overflows(r) \/ WantsPayment(r)
                                 \/ Throttled(r) \/ EndBackOff(r)
      PROVE  QuirkInv'
  <2>1. InLoop(r) /\ UNCHANGED <<renames, learned, refused>>
    BY <1>5 DEF Reserve, Send, Overflows, WantsPayment, Throttled, EndBackOff, Resend, Sleeps,
                InLoop
  <2>2. PICK to \in {"prepare", "slot", "sent", "backoff"} : call' = [call EXCEPT ![r] = to]
    BY <1>5 DEF Reserve, Send, Overflows, WantsPayment, Throttled, EndBackOff, Resend, Sleeps,
                Goes
  <2> QED
    BY <1>4, <2>1, <2>2
<1>6. CASE Pass \/ UNCHANGED llmVars
  <2>1. UNCHANGED <<call, renames, learned, refused>>
    BY <1>6 DEF Pass, llmVars
  <2>2. InFlight' = InFlight /\ Payers' = Payers
    BY <2>1 DEF InFlight, InLoop, Payers
  <2> QED
    BY <2>1, <2>2, NoNewPayers DEF QuirkInv
<1> QED
  BY <1>1, <1>2, <1>3, <1>5, <1>6
  DEF LlmNext, LlmStep, Reacts, Ends, Dropped

\* However many requests are made, no more than the provider's permits pay a
\* refused round trip to learn the name of the token ceiling
\* (openai_compatible.rs, quirks_of and remember_quirk).
THEOREM QuirkIsPaidOnce == LlmSpec => []QuirkPaidOnce
<1>1. QuirkInv => QuirkPaidOnce
  <2> SUFFICES ASSUME QuirkInv PROVE QuirkPaidOnce
    OBVIOUS
  <2>1. AtMostPermits(refused)
    BY FewerStillFit DEF QuirkInv, Payers
  <2> QED
    BY <2>1 DEF AtMostPermits, QuirkPaidOnce
<1> QED
  BY <1>1, QuirkInit, QuirkNext, PTL DEF LlmSpec

-----------------------------------------------------------------------------
(***************************************************************************)
(* The span.                                                               *)
(***************************************************************************)
SpanOver == span \in {"ended", "dropped"}

SpanTypeOK ==
  /\ span \in {"none", "open", "joining", "ended", "dropped"}
  /\ ending \in {"none", "complete", "failed"}
  /\ beat \in {"absent", "select", "emits", "gone"}
  /\ notified \in BOOLEAN /\ aborted \in BOOLEAN
  /\ events \in Seq({"start", "stalled", "complete", "failed"})

\* The terminal event is the last, or the last but one if the heartbeat was
\* about to emit when the span was dropped; nothing follows otherwise.
TerminalNearEnd ==
  \E i \in {Len(events), Len(events) - 1} \cap DOMAIN events :
    Terminals = {i} /\ (i < Len(events) => beat # "emits")

SpanInv ==
  /\ SpanTypeOK
  /\ span = "joining" => ending \in {"complete", "failed"}
  /\ span \in {"joining", "ended", "dropped"} => notified \/ beat = "gone"
  /\ span = "none" => beat = "absent"
  /\ span = "ended" => beat = "gone" /\ Terminals = {Len(events)}
  /\ ~SpanOver => Terminals = {}
  /\ SpanOver => TerminalNearEnd

\* Nothing has been emitted.
LEMMA SpanInitInv == SpanInit => SpanInv
<1> SUFFICES ASSUME SpanInit PROVE SpanInv
  OBVIOUS
<1>1. events = << >> /\ Terminals = {}
  BY DEF SpanInit, Terminals
<1>2. SpanTypeOK
  <2>1. << >> \in Seq({"start", "stalled", "complete", "failed"})
    OBVIOUS
  <2> QED
    BY <1>1, <2>1, Zenon DEF SpanInit, SpanTypeOK
<1> QED
  BY <1>1, <1>2 DEF SpanInit, SpanInv, SpanOver

\* What an emission does to the terminal events.
LEMMA EmitTerminals ==
  ASSUME SpanTypeOK, NEW e \in {"start", "stalled", "complete", "failed"}, Emit(e)
  PROVE  /\ Len(events') = Len(events) + 1 /\ Len(events) \in Nat
         /\ DOMAIN events = 1..Len(events) /\ DOMAIN events' = 1..Len(events')
         /\ events' \in Seq({"start", "stalled", "complete", "failed"})
         /\ Terminals' = Terminals \cup (IF Terminal(e) THEN {Len(events')} ELSE {})
<1>1. /\ Len(events') = Len(events) + 1 /\ Len(events) \in Nat
      /\ DOMAIN events = 1..Len(events) /\ DOMAIN events' = 1..Len(events')
      /\ events' \in Seq({"start", "stalled", "complete", "failed"})
      /\ events'[Len(events')] = e /\ \A i \in 1..Len(events) : events'[i] = events[i]
  BY DEF SpanTypeOK, Emit
<1> QED
  BY <1>1 DEF Terminals, Terminal

\* The heartbeat is told to go before the terminal event, and after it can
\* only finish the emission it was in.
LEMMA SpanNextInv == SpanInv /\ [SpanNext]_spanVars => SpanInv'
<1> SUFFICES ASSUME SpanInv, [SpanNext]_spanVars PROVE SpanInv'
  OBVIOUS
<1> USE DEF SpanInv, SpanOver, TerminalNearEnd
<1>1. CASE Start
  <2>1. Emit("start") /\ Terminals' = Terminals
    BY <1>1, EmitTerminals DEF Start, Terminal
  <2> QED
    BY <1>1, <2>1, EmitTerminals DEF Start, SpanTypeOK
<1>2. CASE Terminate
  <2>1. ending \in {"complete", "failed"} /\ Emit(ending) /\ Terminals' = {Len(events')}
    BY <1>2, EmitTerminals DEF Terminate, Terminal
  <2>2. span' = "ended" /\ beat' = "gone" /\ UNCHANGED <<ending, notified, aborted>>
    BY <1>2 DEF Terminate, Joined
  <2> QED
    BY <2>1, <2>2, EmitTerminals DEF SpanTypeOK
<1>3. CASE DropSpan
  <2>1. Emit("failed") /\ Terminals' = {Len(events')}
    BY <1>3, EmitTerminals DEF DropSpan, Synthetic, Terminal
  <2>2. /\ span' = "dropped" /\ notified' = TRUE /\ aborted' \in BOOLEAN
        /\ UNCHANGED <<ending, beat>>
    BY <1>3 DEF DropSpan, SpanTypeOK
  <2> QED
    BY <2>1, <2>2, EmitTerminals DEF SpanTypeOK
<1>4. CASE BeatEmits
  <2>1. Emit("stalled") /\ Terminals' = Terminals
    BY <1>4, EmitTerminals DEF BeatEmits, Terminal
  <2>2. beat = "emits" /\ beat' = "select" /\ UNCHANGED <<span, ending, notified, aborted>>
    BY <1>4 DEF BeatEmits
  <2>3. SpanTypeOK'
    BY <2>1, <2>2, EmitTerminals DEF SpanTypeOK
  <2>4. CASE span = "dropped"
    <3>1. Terminals = {Len(events)} /\ Len(events) \in DOMAIN events
      BY <2>2, <2>4, EmitTerminals, <2>1
    <3>2. TerminalNearEnd'
      BY <2>1, <2>2, <2>4, <3>1, EmitTerminals
    <3> QED
      BY <2>1, <2>2, <2>3, <2>4, <3>2
  <2> QED
    BY <2>1, <2>2, <2>3, <2>4 DEF SpanTypeOK
<1>5. CASE BeatEnds \/ BeatTicks \/ \E t \in {"complete", "failed"} : CancelHeartbeat(t)
  <2>1. UNCHANGED events /\ Terminals' = Terminals
    BY <1>5 DEF BeatEnds, BeatTicks, CancelHeartbeat, Terminals
  <2> QED
    BY <1>5, <2>1 DEF BeatEnds, BeatTicks, CancelHeartbeat, SpanTypeOK
<1>6. CASE UNCHANGED spanVars
  BY <1>6 DEF spanVars, SpanTypeOK, Terminals
<1> QED
  BY <1>1, <1>2, <1>3, <1>4, <1>5, <1>6 DEF SpanNext, SpanStep

\* Every span that is over has emitted exactly one terminal event, and at most
\* the heartbeat that was under way at a drop comes after it (llms/span.rs).
THEOREM SpansClosed == SpanSpec => []SpanClosed
<1>1. SpanInv => SpanClosed
  <2> SUFFICES ASSUME SpanInv PROVE SpanClosed
    OBVIOUS
  <2> USE DEF SpanInv, SpanOver
  <2>1. CASE ~SpanOver
    <3>1. Terminals = {} /\ AfterTerminal = {}
      BY <2>1 DEF Terminals, AfterTerminal, SpanTypeOK
    <3> QED
      BY <2>1, <3>1, FS_EmptySet DEF SpanClosed
  <2>2. CASE SpanOver
    <3>1. PICK i \in {Len(events), Len(events) - 1} \cap DOMAIN events : Terminals = {i}
      BY <2>2 DEF TerminalNearEnd
    <3>2. AfterTerminal = (i + 1)..Len(events)
      BY <3>1 DEF AfterTerminal, Terminals, SpanTypeOK
    <3>3. AfterTerminal = {} \/ AfterTerminal = {Len(events)}
      BY <3>1, <3>2 DEF SpanTypeOK
    <3>4. Cardinality(Terminals) = 1 /\ Cardinality(AfterTerminal) \in {0, 1}
      <4>1. Cardinality({}) = 0 /\ Cardinality({i}) = 1 /\ Cardinality({Len(events)}) = 1
        BY FS_Singleton, FS_EmptySet
      <4> QED
        BY <3>1, <3>3, <4>1
    <3>5. span = "ended" => AfterTerminal = {}
      BY <3>1, <3>2 DEF SpanTypeOK
    <3> QED
      BY <2>2, <3>4, <3>5 DEF SpanClosed
  <2> QED
    BY <2>1, <2>2
<1> QED
  BY <1>1, SpanInitInv, SpanNextInv, PTL DEF SpanSpec

-----------------------------------------------------------------------------
(***************************************************************************)
(* External programs.                                                      *)
(***************************************************************************)
PipeTypeOK ==
  /\ kind \in {"middleware", "exec"}
  /\ doing \in {"idle", "writing", "draining", "returned"}
  /\ fed \in Nat /\ DOMAIN stdin = {"holds", "open", "read"}
  /\ pipe \in [Streams -> Nat] /\ taken \in [Streams -> Nat] /\ wrote \in [Streams -> Nat]

\* What a stream was given is read or still in its pipe.
NothingLost == \A s \in Streams : wrote[s] = taken[s] + pipe[s]

\* stdin closes when the whole input is written, unless the program closed it.
InputWhole == ~stdin.open => broken \/ fed = Envelope

PipeInv ==
  /\ PipeTypeOK /\ NothingLost /\ InputWhole
  /\ result # "none" => doing = "returned"
  /\ VerdictSound

\* The pipes are empty.
LEMMA PipeInitInv == SubprocessInit => PipeInv
  BY SubprocessAssumption
  DEF SubprocessAssumption, SubprocessInit, PipeInv, PipeTypeOK, NothingLost, InputWhole,
      VerdictSound, Alive

\* A call that returns judges a program that has exited, from output that is
\* read to the end or cut at a limit no complete verdict reaches.
LEMMA CollectSound == PipeInv /\ Collect => VerdictSound'
<1> SUFFICES ASSUME PipeInv, Collect PROVE VerdictSound'
  OBVIOUS
<1> USE SubprocessAssumption DEF SubprocessAssumption, PipeInv, PipeTypeOK, NothingLost,
        InputWhole, Streams
<1>1. /\ child = "exited" /\ child' = "exited" /\ ~stdin.open
      /\ UNCHANGED <<taken, wrote, ended, fed>>
      /\ result' = IF kind = "middleware" THEN Judgement
                   ELSE IF Accepted THEN "output" ELSE "block"
  BY DEF Collect, ReturnsWith, Gathered, Alive
<1>2. taken["out"] = wrote["out"] \/ (kind = "middleware" /\ taken["out"] = MaxOutput)
  BY DEF Collect, Gathered, AtEof, Capped
<1>3. CASE kind = "middleware"
  <2>1. result' = "verdict" => taken["out"] = Whole
    BY <1>1, <1>3 DEF Judgement, Parses
  <2>2. result' = "pass" => taken["out"] = 0 /\ ended = "success"
    BY <1>1, <1>3 DEF Judgement, Parses
  <2>3. result' # "output"
    BY <1>1, <1>3 DEF Judgement, Parses
  <2> QED
    BY <1>1, <1>2, <2>1, <2>2, <2>3 DEF VerdictSound
<1>4. CASE kind = "exec"
  <2>1. result' \in {"output", "block"}
        /\ (result' = "output" => ended = "success" /\ ~broken)
    BY <1>1, <1>4 DEF Accepted
  <2> QED
    BY <1>1, <1>2, <1>4, <2>1 DEF VerdictSound
<1> QED
  BY <1>3, <1>4

\* The caller's steps, then the program's.
LEMMA PipeNextInv == PipeInv /\ [SubprocessNext]_pipeVars => PipeInv'
<1> SUFFICES ASSUME PipeInv, [SubprocessNext]_pipeVars PROVE PipeInv'
  OBVIOUS
<1> USE SubprocessAssumption DEF SubprocessAssumption, PipeInv, PipeTypeOK, NothingLost,
        InputWhole
<1>1. ASSUME NEW what, ReturnsWith(what) PROVE PipeInv' \/ ~VerdictSound'
  BY <1>1 DEF ReturnsWith, Alive
<1>2. CASE SpawnChild
  BY <1>2 DEF SpawnChild, VerdictSound, Alive
<1>3. ASSUME NEW units \in Nat, NEW isBroken \in BOOLEAN, Feed(units, isBroken), Writing
      PROVE  PipeInv'
  <2>1. /\ fed' = units /\ broken' = isBroken
        /\ stdin' = [stdin EXCEPT !.holds = IF isBroken THEN 0 ELSE @ + units - fed,
                                  !.open = ~(isBroken \/ units = Envelope)]
        /\ UNCHANGED <<kind, pipe, taken, child, ended, wrote, result>>
    BY <1>3 DEF Feed
  <2>2. result' = "none" /\ doing' \in {"writing", "draining"}
    BY <1>3, <2>1 DEF Feed, Writing
  <2>3. DOMAIN stdin' = DOMAIN stdin
    BY <2>1
  <2>4. InputWhole'
    BY <2>1
  <2> QED
    BY <2>1, <2>2, <2>3, <2>4 DEF VerdictSound
<1>4. CASE WriteInput \/ BrokenPipe
  <2>1. fed + 1 \in Nat
    OBVIOUS
  <2> QED
    BY <1>3, <1>4, <2>1 DEF WriteInput, BrokenPipe
<1>5. ASSUME NEW s \in Streams, Drain(s) PROVE PipeInv'
  BY <1>5 DEF Drain, VerdictSound, Alive
<1>6. CASE Collect
  BY <1>1, <1>6, CollectSound DEF Collect
<1>7. CASE SpawnFails \/ WriteFails \/ GatherFails \/ TimesOut
  <2>1. ReturnsWith("block")
    BY <1>7 DEF SpawnFails, WriteFails, GatherFails, TimesOut
  <2>2. VerdictSound'
    BY <2>1 DEF ReturnsWith, VerdictSound
  <2> QED
    BY <1>1, <2>1, <2>2
<1>8. CASE ChildStep \/ Killed \/ LetGo
  <2>1. PipeTypeOK' /\ NothingLost' /\ InputWhole'
    <3>1. CASE Decide \/ Exit \/ Killed \/ LetGo
      BY <3>1 DEF Killed, LetGo, Decide, Exit, Same
    <3>2. ASSUME NEW s \in Streams, WriteOutput(s) PROVE PipeTypeOK' /\ NothingLost' /\ InputWhole'
      BY <3>2 DEF WriteOutput, Same
    <3>3. CASE ReadInput
      BY <3>3 DEF ReadInput, Same
    <3>4. CASE CloseStdin
      BY <3>4 DEF CloseStdin, Same
    <3> QED
      BY <1>8, <3>1, <3>2, <3>3, <3>4 DEF ChildStep
  <2>2. UNCHANGED result /\ UNCHANGED doing /\ UNCHANGED taken /\ UNCHANGED fed
    BY <1>8 DEF ChildStep, Killed, LetGo, Decide, WriteOutput, ReadInput, CloseStdin, Exit, Same
  <2>3. child = "exited" => UNCHANGED <<child, wrote, ended>>
    BY <1>8 DEF ChildStep, Killed, LetGo, Decide, WriteOutput, ReadInput, CloseStdin, Exit, Same,
                Writes, Alive
  <2> QED
    BY <2>1, <2>2, <2>3 DEF VerdictSound, Alive
<1>9. CASE UNCHANGED pipeVars
  BY <1>9 DEF pipeVars, VerdictSound, Alive
<1> QED
  BY <1>2, <1>4, <1>5, <1>6, <1>7, <1>8, <1>9 DEF SubprocessNext, Caller

\* A verdict or a proposal always stands for the whole output of a program that
\* has exited, and a pass for no output and success, for every size of input,
\* output and limit (middleware/binary.rs, execute; agents/exec_agent.rs,
\* run_subprocess).
THEOREM VerdictsSound == SubprocessSpec => []VerdictSound
<1>1. PipeInv => VerdictSound
  BY DEF PipeInv
<1> QED
  BY <1>1, PipeInitInv, PipeNextInv, PTL DEF SubprocessSpec

-----------------------------------------------------------------------------
(***************************************************************************)
(* The bench.                                                              *)
(***************************************************************************)
\* A power of two is the number of subsets of a finite set.
LEMMA PowerOfTwo ==
  ASSUME NEW n \in Nat
  PROVE  2^n \in Nat /\ 2^n >= 1
<1>1. IsFiniteSet(1..n) /\ Cardinality(1..n) = n
  BY FS_Interval
<1>2. IsFiniteSet(SUBSET (1..n)) /\ Cardinality(SUBSET (1..n)) = 2^n
  BY <1>1, FS_SUBSET
<1>3. Cardinality(SUBSET (1..n)) \in Nat
  BY <1>2, FS_CardinalityType
<1>4. Cardinality(SUBSET (1..n)) # 0
  BY <1>2, FS_EmptySet
<1> QED
  BY <1>2, <1>3, <1>4

\* A strike costs the base time at least and the cap at most.
LEMMA CooldownRange ==
  ASSUME NEW n \in 1..MaxStrikes
  PROVE  Cooldown(n) \in Base..Cap
<1>1. Base \in Nat /\ Cap \in Nat /\ Base <= Cap /\ n - 1 \in Nat
  BY BenchAssumption
<1> DEFINE factor == 2^(n - 1)
<1>2. factor \in Nat /\ factor >= 1
  BY <1>1, PowerOfTwo
<1> HIDE DEF factor
<1>3. Base * factor \in Nat /\ Base * factor >= Base
  BY <1>1, <1>2
<1>4. Cooldown(n) = Least(Base * factor, Cap)
  BY DEF Cooldown, factor
<1> QED
  BY <1>1, <1>3, <1>4 DEF Least

BenchTypeOK ==
  /\ strikes \in 0..MaxStrikes /\ left \in 0..Cap
  /\ probe \in {"idle", "refresh", "count", "arm"} /\ aged \in 0..RefreshTime
  /\ handler \in [Handlers -> {"work", "fail", "arm"}]
  /\ took \in [Counters -> 0..MaxStrikes]
  /\ sinceArm \in 0..Base

\* Whoever is about to arm a deadline has counted a strike of its own.
Counted ==
  /\ \A h \in Handlers : handler[h] = "arm" => took[h] > 0
  /\ probe = "arm" => took["probe"] > 0

BenchInv == BenchTypeOK /\ Counted /\ BenchHolds

\* The numbers of the code.
LEMMA BenchNumbers ==
  /\ Base \in Nat /\ Cap \in Nat /\ RefreshTime \in Nat /\ MaxStrikes \in Nat
  /\ 0 < Base /\ Base <= Cap /\ RefreshTime <= Base /\ 0 < MaxStrikes
  BY BenchAssumption

LEMMA BenchInitInv == BenchInit => BenchInv
  BY BenchNumbers DEF BenchInit, BenchInv, BenchTypeOK, Counted, BenchHolds, Counters

\* A strike is counted before its deadline is armed.
LEMMA StrikeKeeps ==
  ASSUME BenchInv, NEW c \in Counters, Strike(c)
  PROVE  /\ strikes' \in 0..MaxStrikes /\ took' \in [Counters -> 0..MaxStrikes]
         /\ took'[c] > 0 /\ \A d \in Counters \ {c} : took'[d] = took[d]
<1>1. strikes \in 0..MaxStrikes /\ took \in [Counters -> 0..MaxStrikes]
  BY DEF BenchInv, BenchTypeOK
<1>2. Least(strikes + 1, MaxStrikes) \in 1..MaxStrikes
  BY <1>1, BenchNumbers DEF Least
<1> QED
  BY <1>1, <1>2, BenchNumbers DEF Strike

\* A deadline that is armed is in range, and the strike it was for is used up.
LEMMA ArmsKeeps ==
  ASSUME BenchInv, NEW c \in Counters, NEW until \in (Base - RefreshTime)..Cap, Arms(c, until)
  PROVE  /\ left' \in 0..Cap /\ sinceArm' = 0 /\ BenchHolds'
         /\ took' \in [Counters -> 0..MaxStrikes]
         /\ \A d \in Counters \ {c} : took'[d] = took[d]
<1>1. left' = Most(until, 0) /\ sinceArm' = 0 /\ took' = [took EXCEPT ![c] = 0]
  BY DEF Arms
<1>2. Most(until, 0) = until
  BY BenchNumbers DEF Most
<1>3. took \in [Counters -> 0..MaxStrikes]
  BY DEF BenchInv, BenchTypeOK
<1>4. left' = until /\ until \in 0..Cap
  BY <1>1, <1>2, BenchNumbers
<1>5. BenchHolds'
  BY <1>1, <1>4, BenchNumbers DEF BenchHolds
<1> QED
  BY <1>1, <1>3, <1>4, <1>5, BenchNumbers

\* A handler's step.
LEMMA HandlerKeeps ==
  ASSUME BenchInv, NEW h \in Handlers, TaskSucceeds(h) \/ TaskFails(h) \/ HandlerStep(h)
  PROVE  BenchInv'
<1>1. BenchTypeOK /\ Counted /\ BenchHolds /\ h \in Counters /\ "probe" \in Counters
      /\ h # "probe" /\ Handlers \subseteq Counters
  BY BenchAssumption DEF BenchInv, Counters
<1>2. CASE TaskSucceeds(h)
  BY <1>1, <1>2, BenchNumbers DEF TaskSucceeds, BenchInv, BenchTypeOK, Counted, BenchHolds
<1>3. CASE TaskFails(h)
  BY <1>1, <1>3 DEF TaskFails, Moves, cells, BenchInv, BenchTypeOK, Counted, BenchHolds
<1>4. CASE CountStrike(h)
  <2>1. /\ strikes' \in 0..MaxStrikes /\ took' \in [Counters -> 0..MaxStrikes]
        /\ took'[h] > 0 /\ \A d \in Counters \ {h} : took'[d] = took[d]
    BY <1>1, <1>4, StrikeKeeps DEF CountStrike
  <2> QED
    BY <1>1, <1>4, <2>1 DEF CountStrike, Moves, BenchInv, BenchTypeOK, Counted, BenchHolds
<1>5. CASE ArmBench(h)
  <2>1. handler[h] = "arm" /\ took[h] \in 1..MaxStrikes
    BY <1>1, <1>5, BenchNumbers DEF ArmBench, BenchTypeOK, Counted
  <2>2. Cooldown(took[h]) \in (Base - RefreshTime)..Cap
    BY <2>1, CooldownRange, BenchNumbers
  <2>3. /\ left' \in 0..Cap /\ sinceArm' = 0 /\ BenchHolds'
        /\ took' \in [Counters -> 0..MaxStrikes]
        /\ \A d \in Counters \ {h} : took'[d] = took[d]
    BY <1>1, <1>5, <2>2, ArmsKeeps DEF ArmBench
  <2> QED
    BY <1>1, <1>5, <2>3, BenchNumbers DEF ArmBench, Moves, BenchInv, BenchTypeOK, Counted
<1> QED
  BY <1>2, <1>3, <1>4, <1>5 DEF HandlerStep

\* A step of the heartbeat's probe.
LEMMA ProbeKeeps ==
  ASSUME BenchInv, StartProbe \/ ProbeStep
  PROVE  BenchInv'
<1>1. BenchTypeOK /\ Counted /\ BenchHolds /\ "probe" \in Counters
      /\ Handlers \subseteq Counters \ {"probe"}
  BY BenchAssumption DEF BenchInv, Counters
<1>2. CASE StartProbe
  BY <1>1, <1>2, BenchNumbers DEF StartProbe, cells, BenchInv, BenchTypeOK, Counted, BenchHolds
<1>3. ASSUME NEW fetched \in BOOLEAN, EndRefresh(fetched) PROVE BenchInv'
  BY <1>1, <1>3, BenchNumbers DEF EndRefresh, cells, BenchInv, BenchTypeOK, Counted, BenchHolds
<1>4. CASE CountProbe
  <2>1. /\ strikes' \in 0..MaxStrikes /\ took' \in [Counters -> 0..MaxStrikes]
        /\ took'["probe"] > 0 /\ \A d \in Counters \ {"probe"} : took'[d] = took[d]
    BY <1>1, <1>4, StrikeKeeps DEF CountProbe
  <2> QED
    BY <1>1, <1>4, <2>1 DEF CountProbe, BenchInv, BenchTypeOK, Counted, BenchHolds
<1>5. CASE ArmProbe
  <2>1. took["probe"] \in 1..MaxStrikes /\ aged \in 0..RefreshTime
    BY <1>1, <1>5, BenchNumbers DEF ArmProbe, BenchTypeOK, Counted
  <2>2. Cooldown(took["probe"]) - aged \in (Base - RefreshTime)..Cap
    BY <2>1, CooldownRange, BenchNumbers
  <2>3. /\ left' \in 0..Cap /\ sinceArm' = 0 /\ BenchHolds'
        /\ took' \in [Counters -> 0..MaxStrikes]
        /\ \A d \in Counters \ {"probe"} : took'[d] = took[d]
    BY <1>1, <1>5, <2>2, ArmsKeeps DEF ArmProbe
  <2> QED
    BY <1>1, <1>5, <2>3, BenchNumbers DEF ArmProbe, BenchInv, BenchTypeOK, Counted
<1> QED
  BY <1>2, <1>3, <1>4, <1>5 DEF ProbeStep

\* Time passes.
LEMMA TickKeeps ==
  ASSUME BenchInv, Tick
  PROVE  BenchInv'
<1>1. BenchTypeOK /\ Counted /\ BenchHolds
  BY DEF BenchInv
<1>2. /\ left' = Most(left - 1, 0) /\ sinceArm' = Least(sinceArm + 1, Base)
      /\ UNCHANGED <<strikes, probe, handler, took>>
  BY DEF Tick
<1>3. aged' \in 0..RefreshTime
  BY <1>1, BenchNumbers DEF Tick, BenchTypeOK
<1>4. left' \in 0..Cap /\ sinceArm' \in 0..Base /\ BenchHolds'
  BY <1>1, <1>2, BenchNumbers DEF Most, Least, BenchTypeOK, BenchHolds
<1> QED
  BY <1>1, <1>2, <1>3, <1>4 DEF BenchInv, BenchTypeOK, Counted

\* A bench is never longer than the cap, and a strike keeps the agent out for
\* the base time less what a refresh took: for any number of handlers, however
\* their counting races the probe's, and for every base, cap and interval.
THEOREM BenchHeld == BenchSpec => []BenchHolds
<1>1. ASSUME BenchInv, ModelChanges \/ UNCHANGED benchVars PROVE BenchInv'
  BY <1>1 DEF ModelChanges, benchVars, cells, BenchInv, BenchTypeOK, Counted, BenchHolds
<1>2. BenchInv /\ [BenchNext]_benchVars => BenchInv'
  BY <1>1, HandlerKeeps, ProbeKeeps, TickKeeps DEF BenchNext
<1>3. BenchInv => BenchHolds
  BY DEF BenchInv
<1> QED
  BY <1>2, <1>3, BenchInitInv, PTL DEF BenchSpec

-----------------------------------------------------------------------------
(***************************************************************************)
(* The phases of the Claude CLI.                                           *)
(***************************************************************************)
Calls == [task: Nat, kind: Kinds, form: {"good", "loose", "bad"}]
Exits == {"none", "ok", "silent", "in use", "limit", "other", "timeout"}

\* The lock: the second attempt starts without one, so that it is not refused.
LockInv ==
  /\ try \in {1, 2} /\ exit \in Exits
  /\ phase # "exited" => exit = "none"
  /\ phase = "begin" => try = 1
  /\ exit = "ok" => envLock = "none"
  /\ phase = "spawn" => try = 1 \/ envLock = "none"
  /\ exit = "in use" => try = 1
  /\ LockNeverFatal

LEMMA LockNextInv ==
  ASSUME LockInv, [ClaudeNext]_claudeVars
  PROVE  LockInv'
<1>1. CASE Begin
  BY <1>1 DEF Begin, LockInv, LockNeverFatal, Exits, results
<1>2. CASE Spawn
  BY <1>2 DEF Spawn, LockInv, LockNeverFatal, Exits, results
<1>3. CASE EndChild
  BY <1>3 DEF EndChild, LockInv, LockNeverFatal, Exits, results
<1>4. CASE Succeed
  BY <1>4 DEF Succeed, NextTask, Reset, LockInv, LockNeverFatal, Exits
<1>5. CASE Again
  BY <1>5 DEF Again, Retryable, Collided, Cleared, LockInv, LockNeverFatal, Exits, results
<1>6. CASE GiveUp
  BY <1>6 DEF GiveUp, NextTask, Reset, Retryable, Collided, LockInv, LockNeverFatal, Exits
<1>7. CASE WaitOut
  BY <1>7 DEF WaitOut, Reset, LockInv, LockNeverFatal, Exits, results
<1>8. CASE CallTool \/ Forget \/ UNCHANGED claudeVars
  BY <1>8 DEF CallTool, Forget, claudeVars, LockInv, LockNeverFatal, Exits, results
<1> QED
  BY <1>1, <1>2, <1>3, <1>4, <1>5, <1>6, <1>7, <1>8 DEF ClaudeNext, ClaudeStep

\* No task fails for the lock a killed child left behind: in any sequence of
\* tasks, directories, ways to end and waits.
THEOREM LockCleared == ClaudeSpec => []LockNeverFatal
<1>1. ClaudeInit => LockInv
  BY DEF ClaudeInit, LockInv, LockNeverFatal, Exits
<1>2. LockInv /\ [ClaudeNext]_claudeVars => LockInv'
  BY LockNextInv
<1>3. LockInv => LockNeverFatal
  BY DEF LockInv
<1> QED
  BY <1>1, <1>2, <1>3, PTL DEF ClaudeSpec

-----------------------------------------------------------------------------
\* The order the library's theorem on natural numbers is about.
LEMMA LessThan == OpToRel(<, Nat) = {ss \in Nat \X Nat : ss[1] < ss[2]}
  BY Zenon DEF OpToRel

\* A bounded set of naturals has a greatest element.
LEMMA GreatestElement ==
  ASSUME NEW n \in Nat, NEW S \in SUBSET (1..n), S # {}
  PROVE  \E x \in S : \A y \in S : y <= x
<1> DEFINE Less == {ss \in Nat \X Nat : ss[1] < ss[2]}
           T == { n - x : x \in S }
<1>2. IsWellFoundedOn(Less, Nat)
  BY LessThan, NatLessThanWellFounded
<1>3. T \in SUBSET Nat /\ T # {}
  <2>1. \A x \in S : n - x \in Nat
    OBVIOUS
  <2> QED
    BY <2>1
<1>4. PICK t \in T : \A u \in T : <<u, t>> \notin Less
  <2> HIDE DEF Less, T
  <2> QED
    BY <1>2, <1>3, WFMin
<1>5. PICK x \in S : t = n - x
  OBVIOUS
<1>6. ASSUME NEW y \in S, x < y PROVE FALSE
  <2>1. n - y \in T /\ n - y \in Nat /\ n - x \in Nat /\ n - y < n - x
    BY <1>6
  <2>2. <<n - y, n - x>> \in Nat \X Nat /\ <<n - y, n - x>>[1] < <<n - y, n - x>>[2]
    BY <2>1
  <2>3. <<n - y, n - x>> \in Less
    BY <2>2, Zenon DEF Less
  <2> QED
    BY <1>4, <1>5, <2>1, <2>3
<1> QED
  BY <1>6

\* A call of the task that runs.
Own(made) == made.task = task /\ made.kind = Kind

\* While a child runs or has ended, what it added to the transcript is of its
\* task; what was submitted last is of the task before.
FreshInv ==
  /\ task \in Nat \ {0} /\ (phase # "begin" => task \in DOMAIN Work)
  /\ transcript \in [Dirs -> Seq(Calls)]
  /\ reply # NoCall => /\ phase \in {"live", "exited"}
                       /\ Own(reply) /\ reply.form # "bad"
  /\ phase \in {"live", "exited"} =>
       \A i \in DOMAIN transcript[StaticDir] :
         i > offset => Own(transcript[StaticDir][i])
  /\ ResultIsFresh

OneDir == \A t \in DOMAIN Work : Work[t].dir = StaticDir

\* The salvaged call is one that this child made.
LEMMA SalvagedIsOwn ==
  ASSUME FreshInv, phase = "exited", Salvaged # NoCall
  PROVE  Own(Salvaged)
<1> DEFINE t == transcript[StaticDir]
           mine == { i \in DOMAIN t : i > offset /\ t[i].kind = Kind }
           last == CHOOSE i \in mine : \A j \in mine : j <= i
<1>1. t \in Seq(Calls)
  BY DEF FreshInv, Dirs
<1>2. DOMAIN t = 1..Len(t) /\ Len(t) \in Nat
  BY <1>1
<1>3. Salvaged = t[last] /\ mine # {}
  BY DEF Salvaged, RecoveryDir
<1>4. last \in mine
  <2>1. mine \in SUBSET (1..Len(t))
    BY <1>2
  <2> HIDE DEF mine
  <2>2. \E x \in mine : \A y \in mine : y <= x
    BY <1>2, <1>3, <2>1, GreatestElement
  <2> QED
    BY <2>2
<1>5. last \in DOMAIN t /\ last > offset
  BY <1>4
<1> HIDE DEF last
<1> QED
  BY <1>3, <1>5 DEF FreshInv

\* The result of an attempt is of its task, and usable.
LEMMA ResultIsOwn ==
  ASSUME FreshInv, phase = "exited", Result # NoCall
  PROVE  Own(Result) /\ Result.form # "bad"
  BY SalvagedIsOwn DEF Result, FreshInv

\* A task ends with a call of its own or with none.
LEMMA NextTaskKeeps ==
  ASSUME FreshInv, NEW made, NEW how, NextTask(made, how), Reset, UNCHANGED disk,
         task \in DOMAIN Work, made # NoCall => Own(made) /\ made.form # "bad"
  PROVE  FreshInv'
<1>1. /\ task' = task + 1 /\ got' = made /\ phase' = "begin" /\ reply' = NoCall
      /\ UNCHANGED transcript /\ task \in Nat \ {0}
  BY DEF NextTask, Reset, disk, FreshInv
<1>2. task' - 1 = task /\ task' \in Nat \ {0}
  BY <1>1
<1>3. ResultIsFresh'
  BY <1>1, <1>2 DEF ResultIsFresh, Own, Kind
<1> QED
  BY <1>1, <1>2, <1>3 DEF FreshInv

LEMMA KindOfTask ==
  ASSUME task \in DOMAIN Work
  PROVE  Kind \in Kinds
<1> DEFINE Tasks == [kind: Kinds, dir: Dirs]
<1>1. Work \in Seq(Tasks)
  BY ClaudeAssumption
<1> HIDE DEF Tasks
<1>2. Work[task] \in Tasks
  BY <1>1, LenProperties, ElementOfSeq
<1> QED
  BY <1>2 DEF Kind, Tasks

LEMMA FreshNextInv ==
  ASSUME OneDir, FreshInv, [ClaudeNext]_claudeVars
  PROVE  FreshInv'
<1>1. CASE Begin
  <2>1. task \in DOMAIN Work
    BY <1>1, ClaudeAssumption DEF Begin, Over, FreshInv
  <2> QED
    BY <1>1, <2>1 DEF Begin, disk, results, FreshInv, ResultIsFresh
<1>2. CASE Spawn
  <2>1. /\ offset' = Len(transcript[StaticDir]) /\ UNCHANGED <<transcript, task, reply, got>>
        /\ phase' \in {"live", "exited"} /\ task \in DOMAIN Work /\ reply = NoCall
    BY <1>2 DEF Spawn, OneDir, Size, Dir, disk, results, FreshInv
  <2>2. transcript[StaticDir] \in Seq(Calls)
    BY DEF FreshInv, Dirs
  <2>3. \A i \in DOMAIN transcript[StaticDir] : ~(i > offset')
    BY <2>1, <2>2
  <2> QED
    BY <2>1, <2>3 DEF FreshInv, ResultIsFresh
<1>3. CASE EndChild
  BY <1>3 DEF EndChild, disk, results, FreshInv, ResultIsFresh, Own, Kind
<1>4. CASE Succeed
  <2>1. Own(Result) /\ Result.form # "bad" /\ task \in DOMAIN Work
    BY <1>4, ResultIsOwn DEF Succeed, FreshInv
  <2> QED
    BY <1>4, <2>1, NextTaskKeeps DEF Succeed
<1>5. CASE Again
  BY <1>5 DEF Again, disk, results, FreshInv, ResultIsFresh
<1>6. CASE GiveUp
  BY <1>6, NextTaskKeeps DEF GiveUp, FreshInv
<1>7. CASE WaitOut
  BY <1>7 DEF WaitOut, Reset, disk, results, FreshInv, ResultIsFresh
<1>8. CASE CallTool
  <2>1. /\ phase = "live" /\ task \in DOMAIN Work /\ Dir = StaticDir
        /\ UNCHANGED <<task, phase, offset, got>> /\ StaticDir \in Dirs
        /\ transcript \in [Dirs -> Seq(Calls)] /\ task \in Nat /\ Kind \in Kinds
    <3>1. phase = "live" /\ UNCHANGED <<task, phase, offset, got>>
      BY <1>8 DEF CallTool, results
    <3>2. task \in DOMAIN Work /\ transcript \in [Dirs -> Seq(Calls)] /\ task \in Nat
      BY <3>1 DEF FreshInv
    <3>3. Kind \in Kinds
      BY <3>2, KindOfTask
    <3> QED
      BY <3>1, <3>2, <3>3 DEF OneDir, Dir, Dirs
  <2>2. PICK form \in Forms, reached \in BOOLEAN :
          /\ transcript' = [transcript EXCEPT ![Dir] =
               Append(@, [task |-> task, kind |-> Kind, form |-> form])]
          /\ reply' = Taken([task |-> task, kind |-> Kind, form |-> form], reached)
    BY <1>8 DEF CallTool
  <2> DEFINE made == [task |-> task, kind |-> Kind, form |-> form]
  <2>3. made \in Calls /\ Own(made)
    BY <2>1 DEF Calls, Own, Forms
  <2>4. reply' \in {reply, made} /\ (reply' # reply => made.form # "bad")
    BY <2>2 DEF Taken
  <2>5. /\ transcript' \in [Dirs -> Seq(Calls)]
        /\ transcript'[StaticDir] = Append(transcript[StaticDir], made)
        /\ transcript[StaticDir] \in Seq(Calls)
    BY <2>1, <2>2, <2>3
  <2>6. \A c : Own(c)' <=> Own(c)
    BY <2>1 DEF Own, Kind
  <2> HIDE DEF made
  <2>7. \A i \in DOMAIN transcript'[StaticDir] :
          i > offset => Own(transcript'[StaticDir][i])
    BY <2>1, <2>3, <2>5 DEF FreshInv
  <2>8. reply' # NoCall => Own(reply') /\ reply'.form # "bad"
    BY <2>3, <2>4 DEF FreshInv
  <2> QED
    BY <2>1, <2>5, <2>6, <2>7, <2>8 DEF FreshInv, ResultIsFresh, Own, Kind
<1>9. CASE Forget
  <2>1. transcript' \in [Dirs -> Seq(Calls)] /\ phase' = "begin"
    <3>1. PICK d \in sessions : transcript' = [transcript EXCEPT ![d] = << >>]
      BY <1>9 DEF Forget
    <3>2. << >> \in Seq(Calls) /\ transcript \in [Dirs -> Seq(Calls)]
      BY DEF FreshInv
    <3> QED
      BY <1>9, <3>1, <3>2 DEF Forget
  <2> QED
    BY <1>9, <2>1 DEF Forget, results, FreshInv, ResultIsFresh
<1>10. CASE UNCHANGED claudeVars
  BY <1>10 DEF claudeVars, disk, results, FreshInv, ResultIsFresh, Own, Kind
<1> QED
  BY <1>1, <1>2, <1>3, <1>4, <1>5, <1>6, <1>7, <1>8, <1>9, <1>10 DEF ClaudeNext, ClaudeStep

\* What a task submits is a made its own child made, of its phase and usable:
\* however many attempts and waits there are, as long as every task runs in the
\* directory recovery reads.  (Where one does not, it is false: the code bug
\* that a run shows.)
THEOREM ResultsFresh ==
  ASSUME OneDir
  PROVE  ClaudeSpec => []ResultIsFresh
<1>1. ClaudeInit => FreshInv
  <2> SUFFICES ASSUME ClaudeInit PROVE FreshInv
    OBVIOUS
  <2>1. transcript \in [Dirs -> Seq(Calls)]
    BY DEF ClaudeInit
  <2> QED
    BY <2>1 DEF ClaudeInit, FreshInv, ResultIsFresh
<1>2. FreshInv /\ [ClaudeNext]_claudeVars => FreshInv'
  BY FreshNextInv
<1>3. FreshInv => ResultIsFresh
  BY DEF FreshInv
<1> QED
  BY <1>1, <1>2, <1>3, PTL DEF ClaudeSpec

-----------------------------------------------------------------------------
(***************************************************************************)
(* The runner.  The join goes through the loops in their order; each it    *)
(* has passed is over and stays over, so the errors it has recorded are    *)
(* those of the loops it has passed as they are now.                       *)
(***************************************************************************)
Endings == {"stopped", "aborted", "gave up", "panicked"}

RunnerTypeOK ==
  /\ loop \in [Names -> {"run", "rest"} \cup Endings]
  /\ failures \in [Names -> Nat] /\ \A a \in Names : failures[a] <= MaxFailures
  /\ aborting \subseteq Names
  /\ joined \in Nat /\ joined <= Len(Agents) /\ errors \subseteq Names
  /\ returned \in {"no", "ok", "err"}

\* A loop under way has failed fewer times in a row than it may, and one that gave
\* up exactly as often.
WithinLimit(a) ==
  /\ loop[a] \in {"run", "rest"} => failures[a] < MaxFailures
  /\ loop[a] = "gave up" => failures[a] = MaxFailures

\* No loop is aborted or shut down before the cancellation.
ShutDown(a) == a \in aborting \/ loop[a] \in {"stopped", "aborted"} => cancelled

\* The join has recorded the faults among the loops it has passed, and no others.
JoinSound ==
  /\ \A i \in 1..joined : Ended(Agents[i]) /\ (Fault(loop[Agents[i]]) <=> Agents[i] \in errors)
  /\ \A a \in errors : Ended(a) /\ Fault(loop[a])
  /\ returned # "no" => joined = Len(Agents) /\ (returned = "ok" <=> errors = {})

RunnerInv ==
  RunnerTypeOK /\ JoinSound /\ (\A a \in Names : WithinLimit(a)) /\ (\A a \in Names : ShutDown(a))

\* The agents are those at the places of the join.
LEMMA AgentsInOrder ==
  /\ MaxFailures \in Nat /\ MaxFailures > 0
  /\ Len(Agents) \in Nat /\ Len(Agents) > 0
  /\ \A i \in 1..Len(Agents) : Agents[i] \in Names
  /\ \A a \in Names : \E i \in 1..Len(Agents) : Agents[i] = a
BY RunnerAssumption DEF Names

\* Every loop is at its top and nothing is joined.
LEMMA RunnerInitInv == RunnerInit => RunnerInv
<1> SUFFICES ASSUME RunnerInit PROVE RunnerInv
  OBVIOUS
<1>1. RunnerTypeOK
  BY AgentsInOrder DEF RunnerInit, RunnerTypeOK, Endings
<1>2. JoinSound
  BY DEF RunnerInit, JoinSound
<1>3. \A a \in Names : WithinLimit(a)
  BY AgentsInOrder DEF RunnerInit, WithinLimit
<1>4. \A a \in Names : ShutDown(a)
  BY DEF RunnerInit, ShutDown
<1> QED
  BY <1>1, <1>2, <1>3, <1>4 DEF RunnerInv

\* A loop that is over takes no further step.
LEMMA EndedStays ==
  ASSUME RunnerInv, [RunnerNext]_runnerVars, NEW a \in Names, Ended(a)
  PROVE  loop'[a] = loop[a]
<1> USE DEF RunnerInv, RunnerTypeOK, Ended
<1>1. ASSUME NEW b \in Names, LoopStep(b) \/ AbortLands(b) PROVE loop'[a] = loop[a]
  BY <1>1 DEF LoopStep, Wake, RunEnds, RunFails, Panic, AbortLands, Turns
<1>2. CASE UNCHANGED loop
  BY <1>2
<1> QED
  BY <1>1, <1>2 DEF RunnerNext, Abort, Cancel, Join, Conclude, runnerVars

\* The steps of the loops, of the abort and of the cancellation leave the join as
\* it is, and what it has recorded stays so.
LEMMA JoinStays ==
  ASSUME RunnerInv, [RunnerNext]_runnerVars, UNCHANGED Joining
  PROVE  JoinSound'
<1>1. ASSUME NEW a \in Names, Ended(a) PROVE Ended(a)' /\ loop'[a] = loop[a]
  BY <1>1, EndedStays DEF Ended
<1>2. ASSUME NEW i \in 1..joined
      PROVE  Ended(Agents[i])' /\ (Fault(loop'[Agents[i]]) <=> Agents[i] \in errors)
  <2>1. Agents[i] \in Names
    BY AgentsInOrder DEF RunnerInv, RunnerTypeOK
  <2>2. Ended(Agents[i]) /\ (Fault(loop[Agents[i]]) <=> Agents[i] \in errors)
    BY DEF RunnerInv, JoinSound
  <2> QED
    BY <1>1, <2>1, <2>2
<1>3. ASSUME NEW a \in errors PROVE Ended(a)' /\ Fault(loop'[a])
  BY <1>1 DEF RunnerInv, RunnerTypeOK, JoinSound
<1> QED
  BY <1>2, <1>3 DEF RunnerInv, JoinSound, Joining

LoopPlaces == {"run", "rest"} \cup Endings

\* What the invariant says of one loop, and that a function is itself updated with
\* the value it has.
LEMMA OneLoopFacts ==
  ASSUME RunnerInv, NEW a \in Names
  PROVE  /\ loop[a] \in LoopPlaces /\ loop = [loop EXCEPT ![a] = loop[a]]
         /\ failures[a] \in Nat /\ failures = [failures EXCEPT ![a] = failures[a]]
         /\ \A e : loop' = [loop EXCEPT ![a] = e] => loop'[a] = e
         /\ \A n : failures' = [failures EXCEPT ![a] = n] => failures'[a] = n
         /\ failures[a] <= MaxFailures /\ WithinLimit(a)
         /\ MaxFailures \in Nat /\ MaxFailures > 0
<1>1. /\ loop \in [Names -> LoopPlaces] /\ failures \in [Names -> Nat]
      /\ \A b \in Names : failures[b] <= MaxFailures
      /\ WithinLimit(a)
  BY DEF RunnerInv, RunnerTypeOK, LoopPlaces
<1>2. /\ loop[a] \in LoopPlaces /\ loop = [loop EXCEPT ![a] = loop[a]]
      /\ \A e : loop' = [loop EXCEPT ![a] = e] => loop'[a] = e
  BY <1>1
<1>3. /\ failures[a] \in Nat /\ failures = [failures EXCEPT ![a] = failures[a]]
      /\ \A n : failures' = [failures EXCEPT ![a] = n] => failures'[a] = n
  BY <1>1
<1> QED
  BY <1>1, <1>2, <1>3, AgentsInOrder

\* A step that changes the place and the count of one loop, within its limit, and
\* leaves the join as it is.
LEMMA LoopMoves ==
  ASSUME RunnerInv, [RunnerNext]_runnerVars, UNCHANGED Joining, NEW a \in Names,
         \E e \in LoopPlaces : loop' = [loop EXCEPT ![a] = e],
         \E n \in Nat : n <= MaxFailures /\ failures' = [failures EXCEPT ![a] = n],
         WithinLimit(a)', aborting' \subseteq aborting \cup {a}
  PROVE  RunnerTypeOK' /\ (\A b \in Names : WithinLimit(b)') /\ JoinSound'
<1>1. RunnerTypeOK /\ \A b \in Names : WithinLimit(b)
  BY DEF RunnerInv
<1>2. joined' = joined /\ errors' = errors /\ returned' = returned /\ aborting' \subseteq Names
  BY <1>1 DEF Joining, RunnerTypeOK
<1>3. PICK e \in LoopPlaces : loop' = [loop EXCEPT ![a] = e]
  OBVIOUS
<1>4. loop' \in [Names -> LoopPlaces] /\ \A b \in Names \ {a} : loop'[b] = loop[b]
  BY <1>1, <1>3 DEF RunnerTypeOK, LoopPlaces
<1>5. PICK n \in Nat : n <= MaxFailures /\ failures' = [failures EXCEPT ![a] = n]
  OBVIOUS
<1>6. failures' \in [Names -> Nat] /\ \A b \in Names : failures'[b] <= MaxFailures
  BY <1>1, <1>5 DEF RunnerTypeOK
<1>7. \A b \in Names \ {a} : failures'[b] = failures[b]
  BY <1>1, <1>5 DEF RunnerTypeOK
<1>8. \A b \in Names : WithinLimit(b)'
  BY <1>1, <1>4, <1>7 DEF WithinLimit
<1> QED
  BY <1>1, <1>2, <1>4, <1>6, <1>8, JoinStays DEF RunnerTypeOK, LoopPlaces

\* A loop is shut down after the cancellation only, and the cancellation stays.
LEMMA CancelFirst ==
  ASSUME RunnerInv, [RunnerNext]_runnerVars
  PROVE  \A a \in Names : ShutDown(a)'
<1> SUFFICES ASSUME NEW a \in Names PROVE ShutDown(a)'
  OBVIOUS
<1> USE DEF ShutDown
<1>1. ShutDown(a) /\ RunnerTypeOK
  BY DEF RunnerInv
<1>2. ASSUME NEW b \in Names, LoopStep(b) PROVE ShutDown(a)'
  BY <1>1, <1>2 DEF LoopStep, Wake, RunEnds, RunFails, Panic, Turns, RunnerTypeOK, Endings
<1>3. ASSUME NEW b \in Names, Abort(b) PROVE ShutDown(a)'
  BY <1>1, <1>3 DEF Abort
<1>4. ASSUME NEW b \in Names, AbortLands(b) PROVE ShutDown(a)'
  <2>1. ShutDown(b)
    BY DEF RunnerInv
  <2> QED
    BY <1>1, <1>4, <2>1 DEF AbortLands, Turns, RunnerTypeOK
<1>5. CASE Cancel
  BY <1>1, <1>5 DEF Cancel
<1>6. CASE Join \/ Conclude \/ UNCHANGED runnerVars
  BY <1>1, <1>6 DEF Join, Conclude, runnerVars
<1> QED
  BY <1>2, <1>3, <1>4, <1>5, <1>6 DEF RunnerNext

\* The join and its conclusion, which leave the loops as they are.
LEMMA JoinGoesOn ==
  ASSUME RunnerInv, Join \/ Conclude
  PROVE  RunnerTypeOK' /\ (\A b \in Names : WithinLimit(b)') /\ JoinSound'
<1>1. /\ UNCHANGED <<loop, failures, aborting>>
      /\ RunnerTypeOK /\ (\A b \in Names : WithinLimit(b)) /\ JoinSound
  BY DEF RunnerInv, Join, Conclude
<1>2. \A b \in Names : WithinLimit(b)'
  BY <1>1 DEF WithinLimit
<1>3. CASE Join
  <2> DEFINE a == Agents[joined + 1]
  <2>1. /\ joined < Len(Agents) /\ Ended(a) /\ joined' = joined + 1 /\ UNCHANGED returned
        /\ errors' = IF Fault(loop[a]) THEN errors \cup {a} ELSE errors
    BY <1>3 DEF Join
  <2>2. joined + 1 \in 1..Len(Agents) /\ joined \in Nat
    BY <1>1, <2>1, AgentsInOrder DEF RunnerTypeOK
  <2>3. a \in Names
    BY <2>2, AgentsInOrder
  <2>4. RunnerTypeOK'
    BY <1>1, <2>1, <2>2, <2>3, AgentsInOrder DEF RunnerTypeOK
  <2>5. \A b \in errors' : Ended(b)' /\ Fault(loop'[b])
    BY <1>1, <2>1 DEF JoinSound, Ended
  <2>6. ASSUME NEW i \in 1..joined'
        PROVE  Ended(Agents[i])' /\ (Fault(loop'[Agents[i]]) <=> Agents[i] \in errors')
    <3>1. CASE i = joined + 1
      <4>1. Agents[i] = a
        BY <3>1
      <4> QED
        BY <1>1, <2>1, <2>5, <4>1 DEF Ended
    <3>2. CASE i \in 1..joined
      <4>1. Ended(Agents[i]) /\ (Fault(loop[Agents[i]]) <=> Agents[i] \in errors)
        BY <1>1, <3>2 DEF JoinSound
      <4> QED
        BY <1>1, <2>1, <2>5, <4>1 DEF Ended
    <3> QED
      BY <2>1, <2>2, <3>1, <3>2
  <2>7. returned' = "no"
    <3>1. joined # Len(Agents)
      BY <2>1, <2>2, AgentsInOrder
    <3> QED
      BY <1>1, <2>1, <3>1 DEF JoinSound
  <2> QED
    BY <1>2, <2>4, <2>5, <2>6, <2>7 DEF JoinSound
<1>4. CASE Conclude
  <2>1. /\ joined = Len(Agents) /\ UNCHANGED <<joined, errors>>
        /\ returned' = IF errors = {} THEN "ok" ELSE "err"
    BY <1>4 DEF Conclude
  <2> QED
    BY <1>1, <1>2, <2>1 DEF JoinSound, RunnerTypeOK, Ended
<1> QED
  BY <1>3, <1>4

\* One case per step of a loop, of the watchdog and of the join.
LEMMA RunnerNextInv == RunnerInv /\ [RunnerNext]_runnerVars => RunnerInv'
<1> SUFFICES ASSUME RunnerInv, [RunnerNext]_runnerVars
             PROVE  RunnerTypeOK' /\ (\A b \in Names : WithinLimit(b)') /\ JoinSound'
  BY CancelFirst DEF RunnerInv
<1>1. ASSUME NEW a \in Names, Wake(a)
      PROVE  RunnerTypeOK' /\ (\A b \in Names : WithinLimit(b)') /\ JoinSound'
  <2>1. /\ UNCHANGED Joining /\ failures' = failures /\ aborting' = aborting /\ loop[a] = "rest"
        /\ loop' = [loop EXCEPT ![a] = "run"] \/ loop' = [loop EXCEPT ![a] = "stopped"]
    BY <1>1 DEF Wake, Turns
  <2>2. WithinLimit(a)'
    BY <2>1, OneLoopFacts DEF WithinLimit
  <2>3. /\ \E e \in LoopPlaces : loop' = [loop EXCEPT ![a] = e]
        /\ \E n \in Nat : n <= MaxFailures /\ failures' = [failures EXCEPT ![a] = n]
    BY <2>1, OneLoopFacts DEF LoopPlaces, Endings
  <2> QED
    BY <2>1, <2>2, <2>3, LoopMoves
<1>2. ASSUME NEW a \in Names, RunEnds(a)
      PROVE  RunnerTypeOK' /\ (\A b \in Names : WithinLimit(b)') /\ JoinSound'
  <2>1. /\ UNCHANGED Joining /\ aborting' = aborting
        /\ loop' = [loop EXCEPT ![a] = "rest"] /\ failures' = [failures EXCEPT ![a] = 0]
    BY <1>2 DEF RunEnds, Turns
  <2>2. WithinLimit(a)'
    BY <2>1, OneLoopFacts DEF WithinLimit
  <2>3. 0 \in Nat /\ 0 <= MaxFailures /\ "rest" \in LoopPlaces
    BY AgentsInOrder DEF LoopPlaces
  <2>4. /\ \E e \in LoopPlaces : loop' = [loop EXCEPT ![a] = e]
        /\ \E n \in Nat : n <= MaxFailures /\ failures' = [failures EXCEPT ![a] = n]
    BY <2>1, <2>3, Zenon
  <2> QED
    BY <2>1, <2>2, <2>4, LoopMoves
<1>3. ASSUME NEW a \in Names, RunFails(a)
      PROVE  RunnerTypeOK' /\ (\A b \in Names : WithinLimit(b)') /\ JoinSound'
  <2> DEFINE n == failures[a] + 1
             e == IF n >= MaxFailures THEN "gave up" ELSE "rest"
  <2>1. /\ UNCHANGED Joining /\ aborting' = aborting /\ loop[a] = "run"
        /\ failures' = [failures EXCEPT ![a] = n] /\ loop' = [loop EXCEPT ![a] = e]
    BY <1>3, Zenon DEF RunFails, Turns, Spent
  <2>2. /\ failures[a] \in Nat /\ MaxFailures \in Nat
        /\ loop[a] \in {"run", "rest"} => failures[a] < MaxFailures
    BY OneLoopFacts, Zenon DEF WithinLimit
  <2>3. failures[a] < MaxFailures
    BY <2>1, <2>2, Zenon
  <2>4. n \in Nat /\ n <= MaxFailures
    BY <2>2, <2>3
  <2>5. /\ e \in LoopPlaces
        /\ e \in {"run", "rest"} => n < MaxFailures
        /\ e = "gave up" => n = MaxFailures
    BY <2>2, <2>4 DEF LoopPlaces, Endings
  <2> HIDE DEF n, e
  <2>6. failures'[a] = n /\ loop'[a] = e
    BY <2>1, OneLoopFacts, Zenon
  <2>7. WithinLimit(a)'
    BY <2>5, <2>6 DEF WithinLimit
  <2>8. /\ \E d \in LoopPlaces : loop' = [loop EXCEPT ![a] = d]
        /\ \E m \in Nat : m <= MaxFailures /\ failures' = [failures EXCEPT ![a] = m]
    BY <2>1, <2>4, <2>5, Zenon
  <2> QED
    BY <2>1, <2>7, <2>8, LoopMoves
<1>4. ASSUME NEW a \in Names, Panic(a)
      PROVE  RunnerTypeOK' /\ (\A b \in Names : WithinLimit(b)') /\ JoinSound'
  <2>1. /\ UNCHANGED Joining /\ failures' = failures /\ aborting' = aborting
        /\ loop' = [loop EXCEPT ![a] = "panicked"]
    BY <1>4 DEF Panic, Turns
  <2>2. WithinLimit(a)'
    BY <2>1, OneLoopFacts DEF WithinLimit
  <2>3. /\ \E e \in LoopPlaces : loop' = [loop EXCEPT ![a] = e]
        /\ \E n \in Nat : n <= MaxFailures /\ failures' = [failures EXCEPT ![a] = n]
    BY <2>1, OneLoopFacts DEF LoopPlaces, Endings
  <2> QED
    BY <2>1, <2>2, <2>3, LoopMoves
<1>5. ASSUME NEW a \in Names, Abort(a)
      PROVE  RunnerTypeOK' /\ (\A b \in Names : WithinLimit(b)') /\ JoinSound'
  <2>1. /\ UNCHANGED Joining /\ failures' = failures /\ loop' = loop /\ aborting' = aborting \cup {a}
    BY <1>5 DEF Abort
  <2>2. WithinLimit(a)'
    BY <2>1, OneLoopFacts DEF WithinLimit
  <2>3. /\ \E e \in LoopPlaces : loop' = [loop EXCEPT ![a] = e]
        /\ \E n \in Nat : n <= MaxFailures /\ failures' = [failures EXCEPT ![a] = n]
    BY <2>1, OneLoopFacts DEF LoopPlaces, Endings
  <2> QED
    BY <2>1, <2>2, <2>3, LoopMoves
<1>6. ASSUME NEW a \in Names, AbortLands(a)
      PROVE  RunnerTypeOK' /\ (\A b \in Names : WithinLimit(b)') /\ JoinSound'
  <2>1. /\ UNCHANGED Joining /\ failures' = failures /\ aborting' = aborting
        /\ loop' = [loop EXCEPT ![a] = "aborted"]
    BY <1>6 DEF AbortLands, Turns
  <2>2. WithinLimit(a)'
    BY <2>1, OneLoopFacts DEF WithinLimit
  <2>3. /\ \E e \in LoopPlaces : loop' = [loop EXCEPT ![a] = e]
        /\ \E n \in Nat : n <= MaxFailures /\ failures' = [failures EXCEPT ![a] = n]
    BY <2>1, OneLoopFacts DEF LoopPlaces, Endings
  <2> QED
    BY <2>1, <2>2, <2>3, LoopMoves
<1>7. CASE Cancel \/ UNCHANGED runnerVars
  <2>1. UNCHANGED Joining /\ loop' = loop /\ failures' = failures /\ aborting' = aborting
    BY <1>7 DEF Cancel, runnerVars, Joining
  <2>2. PICK a \in Names : TRUE
    BY AgentsInOrder
  <2>3. WithinLimit(a)'
    BY <2>1, OneLoopFacts DEF WithinLimit
  <2>4. /\ \E e \in LoopPlaces : loop' = [loop EXCEPT ![a] = e]
        /\ \E n \in Nat : n <= MaxFailures /\ failures' = [failures EXCEPT ![a] = n]
    BY <2>1, OneLoopFacts
  <2> QED
    BY <2>1, <2>3, <2>4, LoopMoves
<1> QED
  BY <1>1, <1>2, <1>3, <1>4, <1>5, <1>6, <1>7, JoinGoesOn DEF RunnerNext, LoopStep

\* What the runner returns is how its agents ended, for any agents and limit of
\* failures: Ok only after a cancellation and with all shut down, an error only for
\* one that panicked or failed so often in a row (multi_agent.rs,
\* run_with_cancellation).
THEOREM EndingsReported == RunnerInit /\ [][RunnerNext]_runnerVars => []EndingReported
<1>1. RunnerInv => EndingReported
  <2> SUFFICES ASSUME RunnerInv PROVE EndingReported
    OBVIOUS
  <2>1. ASSUME returned # "no", NEW a \in Names
        PROVE  Ended(a) /\ (Fault(loop[a]) <=> a \in errors)
    <3>1. PICK i \in 1..Len(Agents) : Agents[i] = a
      BY AgentsInOrder
    <3> QED
      BY <2>1, <3>1 DEF RunnerInv, JoinSound
  <2>2. PICK a \in Names : TRUE
    BY AgentsInOrder
  <2>3. ASSUME returned = "ok"
        PROVE  cancelled /\ \A b \in Names : loop[b] \in {"stopped", "aborted"}
    <3>1. errors = {}
      BY <2>3 DEF RunnerInv, JoinSound
    <3>2. \A b \in Names : loop[b] \in {"stopped", "aborted"}
      BY <2>1, <2>3, <3>1 DEF RunnerInv, RunnerTypeOK, Endings, Ended, Fault
    <3> QED
      BY <2>2, <3>2 DEF RunnerInv, ShutDown
  <2>4. ASSUME returned = "err"
        PROVE  \E b \in Names : loop[b] = "panicked"
                                \/ (loop[b] = "gave up" /\ failures[b] = MaxFailures)
    <3>1. PICK b \in errors : TRUE
      BY <2>4 DEF RunnerInv, JoinSound
    <3>2. b \in Names /\ Fault(loop[b]) /\ WithinLimit(b)
      BY DEF RunnerInv, RunnerTypeOK, JoinSound
    <3> QED
      BY <3>2 DEF Fault, WithinLimit
  <2> QED
    BY <2>3, <2>4 DEF EndingReported
<1> QED
  BY <1>1, RunnerInitInv, RunnerNextInv, PTL
=============================================================================
