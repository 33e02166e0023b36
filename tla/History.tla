------------------------------ MODULE History ------------------------------
(***************************************************************************)
(* The conversation an agent sends to its model with native tools: replies *)
(* with tool calls, their results, compact_message_history (agents/        *)
(* nsed_agent.rs), which folds old results into one synthetic pair, and    *)
(* pair_orphan_tool_calls (llm-repair, history.rs), which the native       *)
(* strategy runs on the copy it sends and a retry on what it keeps.  (The  *)
(* Harmony and XML strategies do not run it, and with native tools off     *)
(* results are user text.)  A strict provider rejects a conversation whose *)
(* calls and results do not pair up.                                       *)
(*                                                                         *)
(* Calls read from a reply's text reach the stored reply only when they    *)
(* came as XML or Python: calls found as bare JSON run and are answered,   *)
(* but the reply goes on without them ("prose").                           *)
(*                                                                         *)
(* A definition named Wrong... is a mutated form of the one after it.      *)
(***************************************************************************)
EXTENDS Integers, FiniteSets, SequencesExt

CONSTANTS
  MaxLength,   \* bound: messages
  MaxId,       \* bound: call ids handed out
  BatchSize,   \* bound: calls of one reply
  Keeps        \* values of keep_last_n_calls (0 is treated as 1)

ASSUME HistoryAssumption ==
  MaxLength \in Nat /\ MaxId \in Nat /\ BatchSize \in Nat /\ Keeps \subseteq Nat

\* A message: its role, and the ids of the calls it makes (in prose: calls
\* found in its text and not recorded with it) or answers.
Message(role, calls) == [role |-> role, ids |-> calls]

VARIABLES
  messages,   \* the conversation
  open,       \* calls of the last reply not yet executed, in order
  ids,        \* call ids handed out
  began       \* the conversation the attempt began with

historyVars == <<messages, open, ids, began>>

HistoryInit ==
  /\ messages = << Message("user", << >>) >>
  /\ open = << >> /\ ids = 0 /\ began = messages

IsTool(m) == m.role = "tool"
IsReply(m) == m.role \in {"assistant", "prose"}
\* The calls a message carries as calls.
Carried(m) == IF m.role = "assistant" THEN m.ids ELSE << >>
Places(h, Test(_)) == { i \in DOMAIN h : Test(h[i]) }

-----------------------------------------------------------------------------
\* The results that directly follow the reply at i end at RunEnd.
RunEnd(h, i) ==
  Max({ j \in i..Len(h) : \A k \in (i + 1)..j : IsTool(h[k]) })

Answered(h, i, c) == \E k \in (i + 1)..RunEnd(h, i) : c \in Range(h[k].ids)

WrongMissing(h, i) == << >>
\* Calls the reply at i carries and no result of its run answers, in order.
Missing(h, i) ==
  LET calls == Carried(h[i])
  IN FlattenSeq([ k \in DOMAIN calls |->
       IF Answered(h, i, calls[k]) THEN << >> ELSE << calls[k] >> ])

Stubs(calls) == [k \in DOMAIN calls |-> Message("tool", << calls[k] >>)]

\* The message at p, and the stubs of the reply whose run ends there.
WithStubs(h, p) ==
  LET ends == { i \in Places(h, IsReply) : RunEnd(h, i) = p }
  IN IF ends = {} THEN << h[p] >> ELSE << h[p] >> \o Stubs(Missing(h, Max(ends)))

\* pair_orphan_tool_calls: stubs go where each run ends.
Paired(h) == FlattenSeq([ p \in DOMAIN h |-> WithStubs(h, p) ])

-----------------------------------------------------------------------------
Before(S, i) == { j \in S : j < i }

WrongAnchor(h, i) == i
\* The reply a position belongs to: a cut falls in front of it.
Anchor(h, i) ==
  LET replies == Before(Places(h, IsReply), i)
  IN IF replies = {} THEN i ELSE Max(replies)

Results(h) == Places(h, IsTool)
\* Where the kept part begins: at the reply of the keep-th last result.
Cut(h, keep) ==
  LET recent == { i \in Results(h) : Cardinality({ j \in Results(h) : j >= i }) <= keep }
  IN Anchor(h, Min(recent))

Folded(h, keep) == Before(Results(h), Cut(h, keep))
Preamble(h, keep) == SubSeq(h, 1, Anchor(h, Min(Folded(h, keep))) - 1)

\* What compact_message_history returns when it has something to fold.
Compacted(h, keep, id) ==
  Preamble(h, keep)
    \o << Message("assistant", << id >>), Message("tool", << id >>) >>
    \o SubSeq(h, Cut(h, keep), Len(h))

Keep(n) == IF n = 0 THEN 1 ELSE n
Foldable(h, keep) == Cardinality(Results(h)) > keep /\ Folded(h, keep) # {}

-----------------------------------------------------------------------------
Room(n) == Len(messages) + n <= MaxLength

\* A turn begins: every call of the last batch ran or was given up, and a
\* reply without calls ended the loop.
AtTurn == open = << >> /\ ~IsReply(Last(messages))

\* What a request of this turn carries: the paired copy.
Request == Paired(messages)

\* A request goes out; the model answers with some calls, which
\* the pushed reply carries (native, or patched into it) or not (bare JSON).
Ask(n, role) ==
  /\ AtTurn /\ Room(1) /\ ids + n <= MaxId
  /\ LET calls == [k \in 1..n |-> ids + k]
     IN messages' = Append(messages, Message(role, calls)) /\ open' = calls
  /\ ids' = ids + n
  /\ UNCHANGED began

\* The request is lost in transport: the attempt starts over.
Lose ==
  /\ AtTurn
  /\ messages' = began
  /\ UNCHANGED <<open, ids, began>>

\* The calls of a reply run in order.
Execute ==
  /\ open # << >> /\ Room(1)
  /\ messages' = Append(messages, Message("tool", << Head(open) >>))
  /\ open' = Tail(open)
  /\ UNCHANGED <<ids, began>>

\* A terminal call cut short by max_tokens: it is answered with an error, the
\* rest of its batch is given up, and the loop goes on to the next turn.
CutShort ==
  /\ open # << >> /\ Room(1)
  /\ messages' = Append(messages, Message("tool", << Head(open) >>))
  /\ open' = << >>
  /\ UNCHANGED <<ids, began>>

\* The call is compact_history, or the history is over its threshold before a
\* turn; the call's own result is pushed after.
Compact(n) ==
  /\ open # << >> \/ AtTurn
  /\ Foldable(messages, Keep(n)) /\ ids < MaxId
  /\ messages' = Compacted(messages, Keep(n), ids + 1) /\ ids' = ids + 1
  /\ UNCHANGED <<open, began>>

\* The loop ended (a terminal call, in the middle of its batch; a reply without
\* calls; too many turns) with an answer that does not parse: the next attempt
\* begins with what it left, paired, and the error.
Retry ==
  /\ Last(messages).role # "user" /\ Len(Paired(messages)) < MaxLength
  /\ messages' = Append(Paired(messages), Message("user", << >>))
  /\ began' = messages' /\ open' = << >>
  /\ UNCHANGED ids

HistoryNext ==
  \/ Lose \/ Execute \/ CutShort \/ Retry
  \/ \E n \in 0..BatchSize, role \in {"assistant", "prose"} : Ask(n, role)
  \/ \E n \in Keeps : Compact(n)

-----------------------------------------------------------------------------
\* The results directly behind the reply at i: each is of one of its calls, no
\* call has two, and each call it carries has one.
AnswersMatch(h, i) ==
  LET run == (i + 1)..RunEnd(h, i)
  IN /\ \A k \in run : \E c \in Range(h[i].ids) : h[k].ids = << c >>
     /\ \A k, l \in run : h[k].ids = h[l].ids => k = l
     /\ \A c \in Range(Carried(h[i])) : Answered(h, i, c)

\* Each reply is directly followed by results that match it, and a result
\* stands nowhere else.
Matched(h) ==
  /\ \A i \in Places(h, IsReply) : AnswersMatch(h, i)
  /\ \A k \in Places(h, IsTool) : \E i \in Places(h, IsReply) : k \in i..RunEnd(h, i)

\* Every request is matched.  (A strict provider takes such a request if its
\* replies all carry their calls; see the README for those in prose.)
RequestsMatch == AtTurn => Matched(Request)
=============================================================================
