----------------------------- MODULE LlmRequest -----------------------------
(***************************************************************************)
(* OpenAICompatibleModel::chat_completion (llms/openai_compatible.rs) and  *)
(* the RateLimiter it shares (llms/rate_limiter.rs): concurrent requests   *)
(* to one model of one provider, each under a permit it keeps over its     *)
(* retries, every send through the limiter.  Time is counted in ticks and  *)
(* timers are exact.                                                       *)
(*                                                                         *)
(* A definition named Wrong... is a mutated form of the one after it.      *)
(***************************************************************************)
EXTENDS Integers, FiniteSets

CONSTANTS
  Requests,
  Permits,        \* of the provider's semaphore
  MaxTries,       \* 11 in the code
  PayBudget,      \* half the response SLA: how long a 402 is retried
  PayCap,         \* the longest sleep after a 402, 30 s in the code
  Spacing,        \* of the rate limiter
  WantsOtherName  \* the model refuses `max_tokens` by name

ASSUME LlmAssumption ==
  /\ Permits \in Nat \ {0} /\ MaxTries \in Nat \ {0} /\ Spacing \in Nat \ {0}
  /\ PayBudget \in Nat /\ PayCap \in 1..2^MaxTries /\ WantsOtherName \in BOOLEAN

VARIABLES
  call,      \* each request: "new", "prepare", "slot", "sent", "backoff", "done"
  tries,     \* counted up to MaxTries
  wait,      \* ticks until its slot comes, or its back-off ends
  elapsed,   \* since loop_start, counted up to PayBudget
  renames,   \* its copy of the quirk: send the ceiling under the other name
  learned,   \* the quirk the model object remembers
  ahead,     \* next_allowed, less the time
  gap,       \* ghost: time since the last send, counted up to Spacing
  refused    \* ghost: requests that paid a round trip for the quirk

llmVars == <<call, tries, wait, elapsed, renames, learned, ahead, gap, refused>>

LlmInit ==
  /\ call = [r \in Requests |-> "new"]
  /\ tries = [r \in Requests |-> 0] /\ wait = [r \in Requests |-> 0]
  /\ elapsed = [r \in Requests |-> 0] /\ renames = [r \in Requests |-> FALSE]
  /\ learned = FALSE /\ ahead = 0 /\ gap = Spacing /\ refused = {}

Smaller(a, b) == IF a < b THEN a ELSE b
Goes(r, to) == call' = [call EXCEPT ![r] = to]

\* The request returns: its locals are gone, its permit is free.
Returns(r) ==
  /\ Goes(r, "done")
  /\ tries' = [tries EXCEPT ![r] = 0] /\ wait' = [wait EXCEPT ![r] = 0]
  /\ elapsed' = [elapsed EXCEPT ![r] = 0] /\ renames' = [renames EXCEPT ![r] = FALSE]
  /\ UNCHANGED <<learned, ahead, gap, refused>>

InLoop(r) == call[r] \in {"prepare", "slot", "sent", "backoff"}

WrongSeed == FALSE
Seed == learned                  \* quirks_of

\* A permit, and what the model has refused before.
Admit(r) ==
  /\ call[r] = "new" /\ Cardinality({ q \in Requests : InLoop(q) }) < Permits
  /\ Goes(r, "prepare") /\ renames' = [renames EXCEPT ![r] = Seed]
  /\ UNCHANGED <<tries, wait, elapsed, learned, ahead, gap, refused>>

WrongSlot(n) == IF n > 1 THEN 0 ELSE ahead       \* retries skip the limiter
Slot(n) == ahead

\* The top of the loop up to RateLimiter::acquire: the next slot is reserved.
Reserve(r) ==
  /\ call[r] = "prepare" /\ Goes(r, "slot")
  /\ tries' = [tries EXCEPT ![r] = Smaller(@ + 1, MaxTries)]
  /\ wait' = [wait EXCEPT ![r] = Slot(tries[r] + 1)]
  /\ ahead' = ahead + Spacing
  /\ UNCHANGED <<elapsed, renames, learned, gap, refused>>

Send(r) ==
  /\ call[r] = "slot" /\ wait[r] = 0 /\ Goes(r, "sent") /\ gap' = 0
  /\ UNCHANGED <<tries, wait, elapsed, renames, learned, ahead, refused>>

-----------------------------------------------------------------------------
\* An answer, a transport error or a status nobody retries.
Ends(r) == call[r] = "sent" /\ Returns(r)

Resend(r) ==
  /\ call[r] = "sent" /\ Goes(r, "prepare")
  /\ UNCHANGED <<tries, wait, elapsed, ahead, gap>>

Sleeps(r, ticks) ==
  /\ call[r] = "sent" /\ Goes(r, "backoff") /\ wait' = [wait EXCEPT ![r] = ticks]
  /\ UNCHANGED <<tries, elapsed, renames, learned, ahead, gap, refused>>

\* 400, the context is too long: shrunk and sent again, after the first attempt
\* only.
Overflows(r) ==
  tries[r] < 2 /\ Resend(r) /\ UNCHANGED <<renames, learned, refused>>

\* 400, the ceiling's name: renamed, remembered and sent again.
RefusesName(r) ==
  /\ WantsOtherName /\ ~renames[r] /\ Resend(r)
  /\ renames' = [renames EXCEPT ![r] = TRUE] /\ learned' = TRUE
  /\ refused' = refused \cup {r}

\* 402: sleep within the budget; when nothing is left of it, it Ends.
PaySleep(r) ==
  Smaller(Smaller(2^tries[r], PayCap), PayBudget - elapsed[r])

WantsPayment(r) == PaySleep(r) > 0 /\ Sleeps(r, PaySleep(r))

WrongTriesLeft(n) == TRUE
TriesLeft(n) == n < MaxTries

\* 429 and 5xx.
Throttled(r) == TriesLeft(tries[r]) /\ Sleeps(r, 2^tries[r])

EndBackOff(r) ==
  /\ call[r] = "backoff" /\ wait[r] = 0 /\ Goes(r, "prepare")
  /\ UNCHANGED <<tries, wait, elapsed, renames, learned, ahead, gap, refused>>

\* The caller gives up at an await: the permit is free, the slot stays taken.
Dropped(r) ==
  call[r] \in {"slot", "backoff"} /\ Returns(r)

Waiting(r) == call[r] \in {"slot", "backoff"}

Pass ==
  /\ \A r \in Requests : Waiting(r) => wait[r] > 0
  /\ wait' = [r \in Requests |-> IF Waiting(r) THEN wait[r] - 1 ELSE wait[r]]
  /\ elapsed' = [r \in Requests |->
       IF InLoop(r) THEN Smaller(elapsed[r] + 1, PayBudget) ELSE elapsed[r]]
  /\ ahead' = IF ahead = 0 THEN 0 ELSE ahead - 1
  /\ gap' = Smaller(gap + 1, Spacing)
  /\ UNCHANGED <<call, tries, renames, learned, refused>>

Reacts(r) == Ends(r) \/ Overflows(r) \/ RefusesName(r) \/ WantsPayment(r) \/ Throttled(r)
LlmStep(r) == Admit(r) \/ Reserve(r) \/ Send(r) \/ Reacts(r) \/ EndBackOff(r)
LlmNext == Pass \/ \E r \in Requests : LlmStep(r) \/ Dropped(r)

LlmSpec == LlmInit /\ [][LlmNext]_llmVars

-----------------------------------------------------------------------------
\* Sends keep the limiter's distance, retries and abandoned requests included.
SendsSpaced ==
  [][\A r \in Requests : call[r] = "slot" /\ call'[r] = "sent" => gap >= Spacing]_llmVars

\* The quirk is learned for the whole process: at most the requests that were
\* in flight together pay a refused round trip for it.
QuirkPaidOnce == Cardinality(refused) <= Permits

\* Every request ends and gives its permit back, whatever the provider answers.
RequestsEnd == []<>(\A r \in Requests : ~InLoop(r))
=============================================================================
