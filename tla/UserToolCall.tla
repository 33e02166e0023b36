---------------------------- MODULE UserToolCall ----------------------------
(***************************************************************************)
(* Questions of one agent to its user (agents/user_tools.rs): a call is    *)
(* counted against a limit, stored as a pending record, waited for, and    *)
(* expired by compare-and-set when the phase budget runs out; the user's   *)
(* answer, written by the orchestrator, may come at any time.              *)
(*                                                                         *)
(* A definition named Wrong... is a mutated form of the one after it.      *)
(***************************************************************************)
EXTENDS Integers, FiniteSets

CONSTANTS
  Calls,       \* calls of handle_call
  Lanes,       \* bound: calls that run at the same time
  MaxPending,  \* max_pending_per_agent
  CountFaults  \* whether the count may miss pending calls

ASSUME UserToolAssumption ==
  Lanes \in Nat \ {0} /\ MaxPending \in Nat \ {0} /\ CountFaults \in BOOLEAN

VARIABLES
  status,    \* the record of each call in the bucket, "absent" at first
  at,        \* where each call is
  read,      \* the status expire_call read
  answer     \* what the agent was told

callVars == <<status, at, read, answer>>

Pending == { c \in Calls : status[c] = "pending" }
Active  == { c \in Calls : at[c] \notin {"idle", "returned", "dropped"} }

CallInit ==
  /\ status = [c \in Calls |-> "absent"]
  /\ at = [c \in Calls |-> "idle"]
  /\ read = [c \in Calls |-> "absent"]
  /\ answer = [c \in Calls |-> "none"]

Move(c, place) == at' = [at EXCEPT ![c] = place] /\ UNCHANGED answer
Tell(c, what) == /\ at' = [at EXCEPT ![c] = "returned"]
                 /\ answer' = [answer EXCEPT ![c] = what]

\* No budget beyond the reserve, bad arguments or no bucket: nothing is asked.
Enter(c) ==
  /\ at[c] = "idle" /\ Cardinality(Active) < Lanes
  /\ \/ Move(c, "count")
     \/ Tell(c, "not asked")
  /\ UNCHANGED <<status, read>>

WrongFull(n) == n > MaxPending
Full(n) == n >= MaxPending

\* The scan skips what it cannot read, and a failed one is only logged.
Count(c) ==
  /\ at[c] = "count"
  /\ \E n \in IF CountFaults THEN 0..Cardinality(Pending) ELSE {Cardinality(Pending)} :
       IF Full(n) THEN Tell(c, "refused") ELSE Move(c, "put")
  /\ UNCHANGED <<status, read>>

\* A put that failed may have been stored: only its ack was lost.
Put(c) ==
  /\ at[c] = "put"
  /\ \/ status' = [status EXCEPT ![c] = "pending"] /\ (Move(c, "wait") \/ Tell(c, "error"))
     \/ UNCHANGED status /\ Tell(c, "error")
  /\ UNCHANGED <<read>>

Responded(c) == status[c] = "responded"

\* The watcher replays the latest record first, so an answer that came before
\* it was set up is not missed.
Hear(c) ==
  /\ at[c] = "wait" /\ Responded(c)
  /\ Tell(c, "answered")
  /\ UNCHANGED <<status, read>>

\* The watch fails or ends: the record is left as it is.
LoseWatch(c) ==
  /\ at[c] = "wait" /\ Tell(c, "error")
  /\ UNCHANGED <<status, read>>

TimeOut(c) ==
  /\ at[c] = "wait" /\ Move(c, "expire")
  /\ UNCHANGED <<status, read>>

\* expire_call reads the record and its revision, and gives up unless it is
\* still pending.
ReadRecord(c) ==
  /\ at[c] = "expire"
  /\ read' = [read EXCEPT ![c] = status[c]]
  /\ \/ status[c] = "pending" /\ Move(c, "cas")
     \/ Tell(c, "no response")       \* answered meanwhile, or a failed read
  /\ UNCHANGED <<status>>

WrongSameRevision(c) == TRUE
SameRevision(c) == status[c] = read[c]

\* The update is sent, and the call waits for its ack.
Expire(c) ==
  /\ at[c] = "cas"
  /\ \/ SameRevision(c) /\ status' = [status EXCEPT ![c] = "expired"]
     \/ UNCHANGED status             \* the update loses or fails: only logged
  /\ Move(c, "reply")
  /\ UNCHANGED <<read>>

\* The ack and the event about the expiry were waited for: now the agent hears.
Reply(c) ==
  /\ at[c] = "reply" /\ Tell(c, "no response")
  /\ UNCHANGED <<status, read>>

\* The user's answer reaches the record through the orchestrator.
Answer(c) ==
  /\ status[c] = "pending"
  /\ status' = [status EXCEPT ![c] = "responded"]
  /\ UNCHANGED <<at, read, answer>>

\* The agent's task is dropped while the call waits for something.
Drop(c) ==
  /\ at[c] \in {"count", "put", "wait", "expire", "cas", "reply"}
  /\ at' = [at EXCEPT ![c] = "dropped"]
  /\ UNCHANGED <<status, read, answer>>

CallStep(c) ==
  \/ Count(c) \/ Put(c) \/ Hear(c) \/ TimeOut(c)
  \/ ReadRecord(c) \/ Expire(c) \/ Reply(c)

CallNext == \E c \in Calls :
  Enter(c) \/ CallStep(c) \/ LoseWatch(c) \/ Answer(c) \/ Drop(c)

CallSpec == CallInit /\ [][CallNext]_callVars

-----------------------------------------------------------------------------
\* An answer, once it is in the bucket, is never clobbered by the expiry that
\* raced it: it is there for the next round even when the agent gave up.
AnswerKept ==
  [][\A c \in Calls : status[c] = "responded" => status'[c] = "responded"]_callVars

\* The agent is told "answered" only of an answer, and of a question that was
\* withdrawn only that nobody answered, unless its task ends before it hears.
ToldTheTruth ==
  \A c \in Calls :
    /\ answer[c] = "answered" => status[c] = "responded"
    /\ status[c] = "expired" =>
         \/ answer[c] = "no response"
         \/ answer[c] = "none" /\ at[c] \in {"reply", "dropped"}

\* The limit counts, then stores: calls that run together may pass it
\* together, each by itself once.
PendingBounded ==
  Cardinality(Pending) <= MaxPending + Lanes - 1

-----------------------------------------------------------------------------
\* Outside the call nothing shows but the record and what the agent is told: to
\* them a question is asked once, answered or withdrawn but never both, and told
\* of once, whatever the watch, the timeout and the compare-and-set do.
Question == INSTANCE UserQuestion WITH record <- status, told <- answer
QuestionKept == Question!Spec
=============================================================================
