-------------------------- MODULE ScratchpadAppend --------------------------
(***************************************************************************)
(* NatsScratchpadStore (workers/mod.rs): concurrent appends to one key,    *)
(* each a read and a compare-and-set at the revision that was read, tried  *)
(* again when the race is lost, and blind sets of the same key.            *)
(*                                                                         *)
(* A definition named Wrong... is a mutated form of the one after it.      *)
(***************************************************************************)
EXTENDS Integers, Sequences, FiniteSets, Functions

CONSTANTS
  Appenders, Setters,   \* the calls of append and of set; each writes its name
  MaxAttempts           \* max_retries, 20 in the code

ASSUME ScratchpadAssumption == MaxAttempts \in Nat \ {0}

VARIABLES
  text,      \* the key's value: the writers whose text it holds, in order
  revision,  \* its revision, 0 when the key is absent
  stage,     \* where each call is: "read", "write" or "over"
  based,     \* the entry each append read
  attempts,  \* the attempts each append has made
  told,      \* what each call returned
  erased     \* ghost: the writers whose text a set replaced

padVars == <<text, revision, stage, based, attempts, told, erased>>

Callers == Appenders \cup Setters

PadInit ==
  /\ text = << >> /\ revision = 0 /\ erased = {}
  /\ stage = [c \in Callers |-> "read"]
  /\ based = [c \in Callers |-> [text |-> << >>, revision |-> 0]]
  /\ attempts = [c \in Callers |-> 0]
  /\ told = [c \in Callers |-> "none"]

Finish(c, what) == /\ stage' = [stage EXCEPT ![c] = "over"]
                   /\ told' = [told EXCEPT ![c] = what]
GoOn(c, place)  == stage' = [stage EXCEPT ![c] = place] /\ UNCHANGED told

Write(t) == text' = t /\ revision' = revision + 1

Exhausted(n) == n > MaxAttempts

ReadEntry(c) ==
  /\ c \in Appenders /\ stage[c] = "read"
  /\ attempts' = [attempts EXCEPT ![c] = @ + 1]
  /\ IF Exhausted(attempts[c] + 1)
     THEN Finish(c, "contention") /\ UNCHANGED based
     ELSE /\ based' = [based EXCEPT ![c] = [text |-> text, revision |-> revision]]
          /\ GoOn(c, "write")
  /\ UNCHANGED <<text, revision, erased>>

WrongUnraced(c) == TRUE
Unraced(c) == revision = based[c].revision

\* update at the revision, or create when the key was absent.
Commit(c) ==
  /\ stage[c] = "write" /\ Unraced(c)
  /\ Write(Append(based[c].text, c))
  /\ \E what \in {"ok", "error"} : Finish(c, what)   \* the ack may be lost
  /\ UNCHANGED <<based, attempts, erased>>

\* WrongLastRevision or AlreadyExists: back to the read.
LoseRace(c) ==
  /\ stage[c] = "write" /\ ~Unraced(c)
  /\ GoOn(c, "read")
  /\ UNCHANGED <<text, revision, based, attempts, erased>>

\* Any other failure of the store ends the call.
StoreError(c) ==
  /\ stage[c] # "over" /\ Finish(c, "error")
  /\ UNCHANGED <<text, revision, based, attempts, erased>>

\* set: a put without a revision, whose ack may be lost as well.
Set(c) ==
  /\ c \in Setters /\ stage[c] = "read"
  /\ erased' = erased \cup Range(text)
  /\ Write(<<c>>)
  /\ \E what \in {"ok", "error"} : Finish(c, what)
  /\ UNCHANGED <<based, attempts>>

PadNext == \E c \in Callers :
  ReadEntry(c) \/ Commit(c) \/ LoseRace(c) \/ StoreError(c) \/ Set(c)

PadSpec == PadInit /\ [][PadNext]_padVars

-----------------------------------------------------------------------------
\* No append is lost and none is applied twice: one that returned Ok is in the
\* value, whatever races it, until a set replaces the whole value; one that gave
\* up for contention left nothing behind; and however often it was tried, it is
\* in the value at most once.
AppendDurable ==
  /\ \A c \in Appenders : told[c] = "ok" => c \in Range(text) \cup erased
  /\ \A c \in Appenders : told[c] = "contention" => c \notin Range(text) \cup erased
  /\ \A i, j \in DOMAIN text : text[i] = text[j] => i = j

-----------------------------------------------------------------------------
\* Reads, lost races and retries do not show: an append acts on the value it
\* finds at one moment, as if the store had the operation.
Note == INSTANCE SharedNote WITH applied <- Range(text) \cup erased
AppendsAtomic == Note!Spec
=============================================================================
