----------------------------- MODULE ModelBench -----------------------------
(***************************************************************************)
(* Self-benching of an agent whose remote model is gone (workers/mod.rs):  *)
(* failed tasks of concurrent handlers and a throttled catalog probe add   *)
(* strikes and arm a deadline that doubles per strike up to a cap; a       *)
(* success forgets the strikes.  The three cells are atomics written       *)
(* without a lock.  Time is relative: `left` is what remains of the bench. *)
(*                                                                         *)
(* A definition named Wrong... is a mutated form of the one after it.      *)
(***************************************************************************)
EXTENDS Integers, FiniteSets

CONSTANTS
  Handlers,     \* concurrent task handlers
  Base, Cap,    \* shortest and longest bench, 5 and 30 minutes in the code
  Interval,     \* AVAILABILITY_PROBE_INTERVAL_MS
  RefreshTime,  \* the longest a catalog refresh takes
  MaxStrikes    \* bound: strikes counted; the bench is at the cap from there

ASSUME BenchAssumption ==
  /\ Base \in Nat \ {0} /\ Cap \in Nat /\ Base <= Cap
  /\ Interval \in Nat /\ RefreshTime \in 0..Base
  /\ MaxStrikes \in Nat \ {0} /\ Base * 2^(MaxStrikes - 1) >= Cap
  /\ "probe" \notin Handlers

VARIABLES
  up,        \* whether the model is there
  strikes,   \* model_down_strikes
  left,      \* model_down_until_ms, less the time
  sinceProbe, \* time since last_availability_probe_ms, at most Interval
  probe,     \* the heartbeat's probe: "idle", "refresh", "count" or "arm"
  aged,      \* time since the probe took `now`, while it runs
  handler,   \* each handler, of one task after another: "work", "fail", "arm"
  took,      \* the strike a handler, or the probe, counted, until it armed
  sinceArm   \* ghost: time since the last bench was armed, at most Base

cells == <<strikes, left>>
benchVars == <<up, strikes, left, sinceProbe, probe, aged, handler, took, sinceArm>>
Counters == Handlers \cup {"probe"}

BenchInit ==
  /\ up = TRUE /\ strikes = 0 /\ left = 0 /\ sinceArm = Base
  /\ sinceProbe = Interval /\ probe = "idle" /\ aged = 0
  /\ handler = [h \in Handlers |-> "work"]
  /\ took = [c \in Counters |-> 0]

Least(a, b) == IF a < b THEN a ELSE b
Most(a, b)  == IF a > b THEN a ELSE b

WrongCooldown(n) == Base * 2^(n - 1)
Cooldown(n) == Least(Base * 2^(n - 1), Cap)      \* escalated_cooldown_ms

ModelChanges ==
  up' = ~up /\ UNCHANGED <<cells, sinceProbe, probe, aged, handler, took, sinceArm>>

Strike(c) == /\ took' = [took EXCEPT ![c] = Least(strikes + 1, MaxStrikes)]
             /\ strikes' = Least(strikes + 1, MaxStrikes)
Arms(c, until) == /\ left' = Most(until, 0) /\ sinceArm' = 0
                  /\ took' = [took EXCEPT ![c] = 0]
Moves(h, place) == handler' = [handler EXCEPT ![h] = place]

-----------------------------------------------------------------------------
TaskSucceeds(h) ==
  /\ handler[h] = "work" /\ up
  /\ strikes' = 0
  /\ UNCHANGED <<up, left, sinceProbe, probe, aged, handler, took, sinceArm>>

\* The model's answer, then the strike, then the deadline: three steps of a
\* handler between which others run.
TaskFails(h) ==
  /\ handler[h] = "work" /\ ~up /\ Moves(h, "fail")
  /\ UNCHANGED <<up, cells, sinceProbe, probe, aged, took, sinceArm>>

CountStrike(h) ==
  /\ handler[h] = "fail" /\ Moves(h, "arm") /\ Strike(h)
  /\ UNCHANGED <<up, left, sinceProbe, probe, aged, sinceArm>>

ArmBench(h) ==
  /\ handler[h] = "arm" /\ Moves(h, "work")
  /\ Arms(h, Cooldown(took[h]))
  /\ UNCHANGED <<up, strikes, sinceProbe, probe, aged>>

-----------------------------------------------------------------------------
\* maybe_probe_model_availability, on a heartbeat.
StartProbe ==
  /\ probe = "idle" /\ sinceProbe >= Interval
  /\ probe' = "refresh" /\ aged' = 0 /\ sinceProbe' = 0
  /\ UNCHANGED <<up, cells, handler, took, sinceArm>>

WrongUnlisted(fetched) == ~fetched \/ ~up
Unlisted(fetched) == fetched /\ ~up      \* a failed refresh keeps the agent up

EndRefresh(fetched) ==
  /\ probe = "refresh"
  /\ probe' = IF Unlisted(fetched) THEN "count" ELSE "idle"
  /\ aged' = IF Unlisted(fetched) THEN aged ELSE 0
  /\ UNCHANGED <<up, cells, sinceProbe, handler, took, sinceArm>>

CountProbe ==
  /\ probe = "count" /\ probe' = "arm" /\ Strike("probe")
  /\ UNCHANGED <<up, left, sinceProbe, aged, handler, sinceArm>>

\* The deadline counts from before the refresh.
ArmProbe ==
  /\ probe = "arm" /\ probe' = "idle"
  /\ Arms("probe", Cooldown(took["probe"]) - aged)
  /\ aged' = 0
  /\ UNCHANGED <<up, strikes, sinceProbe, handler>>

\* Time passes while nobody is between two of its stores, where nothing waits.
Tick ==
  /\ probe \in {"idle", "refresh"} /\ (probe = "refresh" => aged < RefreshTime)
  /\ \A h \in Handlers : handler[h] = "work"
  /\ left' = Most(left - 1, 0)
  /\ sinceProbe' = Least(sinceProbe + 1, Interval)
  /\ aged' = IF probe = "refresh" THEN aged + 1 ELSE 0
  /\ sinceArm' = Least(sinceArm + 1, Base)
  /\ UNCHANGED <<up, strikes, probe, handler, took>>

HandlerStep(h) == CountStrike(h) \/ ArmBench(h)
ProbeStep == (\E fetched \in BOOLEAN : EndRefresh(fetched)) \/ CountProbe \/ ArmProbe

BenchNext ==
  \/ ModelChanges \/ StartProbe \/ ProbeStep \/ Tick
  \/ \E h \in Handlers :
       TaskSucceeds(h) \/ TaskFails(h) \/ HandlerStep(h)

BenchSpec == BenchInit /\ [][BenchNext]_benchVars

\* What goes on besides time: the refresh has a timeout, the stores are
\* straight-line code.
Stores == ProbeStep \/ \E h \in Handlers : HandlerStep(h)

-----------------------------------------------------------------------------
\* Whoever armed last, and however its counting raced the others: a bench is
\* never longer than the cap, and a strike keeps the agent out for the base
\* time, less what a refresh took at most.
BenchHolds ==
  /\ left <= Cap
  /\ left + sinceArm >= Base - RefreshTime

\* A model that stays there brings the agent back for good: no stale failure
\* and no failed refresh keeps benching it.
RejoinsWhenUp == <>[]up => <>[](left = 0)
=============================================================================
