---------------------------- MODULE BucketProofs ----------------------------
(***************************************************************************)
(* Proofs about the two clients of a compare-and-set bucket, for any number*)
(* of concurrent calls: an answer of the user survives the expiry that     *)
(* races it (UserToolCall), and an append that returned Ok is in the value *)
(* once (ScratchpadAppend).  In both the argument is that the revision a   *)
(* write names stands for the whole record the writer read, and with it    *)
(* each is shown to implement what its callers see: UserQuestion and       *)
(* SharedNote.                                                             *)
(***************************************************************************)
EXTENDS UserToolCall, ScratchpadAppend, FiniteSetTheorems, TLAPS

-----------------------------------------------------------------------------
(***************************************************************************)
(* Questions to the user.                                                  *)
(***************************************************************************)
CallTypeOK ==
  /\ status \in [Calls -> {"absent", "pending", "responded", "expired"}]
  /\ at \in [Calls -> {"idle", "count", "put", "wait", "expire", "cas", "reply", "returned", "dropped"}]
  /\ read \in [Calls -> {"absent", "pending", "responded", "expired"}]
  /\ answer \in [Calls -> {"none", "not asked", "refused", "error", "answered", "no response"}]

\* No record before the put, so the put replaces nothing.
NotYetAsked(c) == at[c] \in {"idle", "count", "put"} => status[c] = "absent"

\* A compare-and-set is only tried against a record that was read as pending.
ExpiresPending(c) == at[c] = "cas" => read[c] = "pending"

\* A call that withdrew its record only goes on to say so.
Withdrawn(c) ==
  status[c] = "expired" =>
    \/ at[c] \in {"reply", "dropped"}
    \/ at[c] = "returned" /\ answer[c] = "no response"

Answered(c) == answer[c] = "answered" => at[c] = "returned" /\ status[c] = "responded"

OneCall(c) == NotYetAsked(c) /\ ExpiresPending(c) /\ Withdrawn(c) /\ Answered(c)

CallInv == CallTypeOK /\ \A c \in Calls : OneCall(c)

\* No call is made yet.
LEMMA CallInitInv == CallInit => CallInv
  BY DEF CallInit, CallInv, CallTypeOK, OneCall, NotYetAsked, ExpiresPending, Withdrawn, Answered

\* A step changes the record and the place of one call only, so the invariant
\* is to be shown of that call.
LEMMA OneCallMoves ==
  ASSUME CallInv, NEW c \in Calls, CallTypeOK', OneCall(c)',
         \A d \in Calls \ {c} : /\ status'[d] = status[d] /\ at'[d] = at[d]
                                /\ read'[d] = read[d] /\ answer'[d] = answer[d]
  PROVE  CallInv'
<1>1. ASSUME NEW d \in Calls \ {c} PROVE OneCall(d)'
  <2>1. OneCall(d)
    BY DEF CallInv
  <2> QED
    BY <2>1 DEF OneCall, NotYetAsked, ExpiresPending, Withdrawn, Answered
<1> QED
  BY <1>1 DEF CallInv

Statuses  == {"absent", "pending", "responded", "expired"}
Places    == {"idle", "count", "put", "wait", "expire", "cas", "reply", "returned", "dropped"}
Outcomes  == {"none", "not asked", "refused", "error", "answered", "no response"}

\* The same, for the four functions as an action updates them at that call.
LEMMA OneCallUpdated ==
  ASSUME CallInv, NEW c \in Calls, OneCall(c)',
         \E e \in Statuses : status' = [status EXCEPT ![c] = e],
         \E e \in Places : at' = [at EXCEPT ![c] = e],
         \E e \in Statuses : read' = [read EXCEPT ![c] = e],
         \E e \in Outcomes : answer' = [answer EXCEPT ![c] = e]
  PROVE  CallInv'
<1>1. /\ status \in [Calls -> Statuses] /\ at \in [Calls -> Places]
      /\ read \in [Calls -> Statuses] /\ answer \in [Calls -> Outcomes]
  BY DEF CallInv, CallTypeOK, Statuses, Places, Outcomes
<1>2. CallTypeOK'
  <2>1. status' \in [Calls -> Statuses]
    BY <1>1
  <2>2. at' \in [Calls -> Places]
    BY <1>1
  <2>3. read' \in [Calls -> Statuses]
    BY <1>1
  <2>4. answer' \in [Calls -> Outcomes]
    BY <1>1
  <2> QED
    BY <2>1, <2>2, <2>3, <2>4 DEF CallTypeOK, Statuses, Places, Outcomes
<1>3. \A d \in Calls \ {c} : /\ status'[d] = status[d] /\ at'[d] = at[d]
                             /\ read'[d] = read[d] /\ answer'[d] = answer[d]
  BY <1>1
<1> QED
  BY <1>2, <1>3, OneCallMoves

\* What the invariant says of one call, and that a function is itself updated
\* with the value it has.
LEMMA OneCallFacts ==
  ASSUME CallInv, NEW c \in Calls
  PROVE  /\ status[c] \in Statuses /\ at[c] \in Places
         /\ read[c] \in Statuses /\ answer[c] \in Outcomes
         /\ status = [status EXCEPT ![c] = status[c]]
         /\ at = [at EXCEPT ![c] = at[c]]
         /\ read = [read EXCEPT ![c] = read[c]]
         /\ answer = [answer EXCEPT ![c] = answer[c]]
         /\ NotYetAsked(c) /\ ExpiresPending(c) /\ Withdrawn(c) /\ Answered(c)
<1>1. CallTypeOK
  BY DEF CallInv
<1>2. /\ status[c] \in Statuses /\ at[c] \in Places
      /\ read[c] \in Statuses /\ answer[c] \in Outcomes
  BY <1>1 DEF CallTypeOK, Statuses, Places, Outcomes
<1>3. /\ status = [status EXCEPT ![c] = status[c]] /\ at = [at EXCEPT ![c] = at[c]]
      /\ read = [read EXCEPT ![c] = read[c]] /\ answer = [answer EXCEPT ![c] = answer[c]]
  BY <1>1 DEF CallTypeOK
<1>4. NotYetAsked(c) /\ ExpiresPending(c) /\ Withdrawn(c) /\ Answered(c)
  BY DEF CallInv, OneCall
<1> QED
  BY <1>2, <1>3, <1>4

\* What an update puts at the call.
LEMMA OneCallWrites ==
  ASSUME CallInv, NEW c \in Calls
  PROVE  /\ \A e : status' = [status EXCEPT ![c] = e] => status'[c] = e
         /\ \A e : at' = [at EXCEPT ![c] = e] => at'[c] = e
         /\ \A e : read' = [read EXCEPT ![c] = e] => read'[c] = e
         /\ \A e : answer' = [answer EXCEPT ![c] = e] => answer'[c] = e
  BY DEF CallInv, CallTypeOK

\* A step that only moves the call on, and one that only answers the agent.
LEMMA Moves ==
  ASSUME CallInv, NEW c \in Calls, UNCHANGED status, at[c] # "returned",
         NEW p \in Places \ {"idle"}, Move(c, p),
         \E e \in Statuses : read' = [read EXCEPT ![c] = e],
         p \in {"count", "put"} => status[c] = "absent",
         p = "cas" => read'[c] = "pending",
         status[c] = "expired" => p = "dropped"
  PROVE  CallInv'
<1>1. at' = [at EXCEPT ![c] = p] /\ answer' = answer
  BY DEF Move
<1>2. at'[c] = p
  BY <1>1, OneCallWrites
<1>3. answer[c] # "answered"
  BY OneCallFacts DEF Answered
<1>4. OneCall(c)'
  BY <1>1, <1>2, <1>3 DEF OneCall, NotYetAsked, ExpiresPending, Withdrawn, Answered
<1>5. /\ \E e \in Statuses : status' = [status EXCEPT ![c] = e]
      /\ \E e \in Outcomes : answer' = [answer EXCEPT ![c] = e]
  BY <1>1, OneCallFacts
<1>6. \E e \in Places : at' = [at EXCEPT ![c] = e]
  BY <1>1
<1> QED
  BY <1>4, <1>5, <1>6, OneCallUpdated

LEMMA Tells ==
  ASSUME CallInv, NEW c \in Calls, at[c] # "returned",
         NEW a \in Outcomes, Tell(c, a),
         \E e \in Statuses : status' = [status EXCEPT ![c] = e],
         \E e \in Statuses : read' = [read EXCEPT ![c] = e],
         status'[c] = "expired" => a = "no response",
         a = "answered" => status'[c] = "responded"
  PROVE  CallInv'
<1>1. at' = [at EXCEPT ![c] = "returned"] /\ answer' = [answer EXCEPT ![c] = a]
  BY DEF Tell
<1>2. at'[c] = "returned" /\ answer'[c] = a
  BY <1>1, OneCallWrites
<1>3. OneCall(c)'
  BY <1>2 DEF OneCall, NotYetAsked, ExpiresPending, Withdrawn, Answered
<1>4. \E e \in Places : at' = [at EXCEPT ![c] = e]
  BY <1>1 DEF Places
<1>5. \E e \in Outcomes : answer' = [answer EXCEPT ![c] = e]
  BY <1>1
<1> QED
  BY <1>3, <1>4, <1>5, OneCallUpdated

\* The record is left as it is.
LEMMA SameRecord ==
  ASSUME CallInv, NEW c \in Calls
  PROVE  /\ UNCHANGED status =>
              /\ \E e \in Statuses : status' = [status EXCEPT ![c] = e]
              /\ status'[c] = status[c]
         /\ UNCHANGED read => \E e \in Statuses : read' = [read EXCEPT ![c] = e]
         /\ at[c] \notin {"reply", "dropped", "returned"} => status[c] # "expired"
  BY OneCallFacts DEF Withdrawn

\* One case per step of handle_call and expire_call, the user's answer and the
\* drop of the task.
LEMMA CallNextInv == CallInv /\ [CallNext]_callVars => CallInv'
<1> SUFFICES ASSUME CallInv, [CallNext]_callVars PROVE CallInv'
  OBVIOUS
<1> USE DEF Statuses, Places, Outcomes
<1>1. ASSUME NEW c \in Calls, Enter(c) PROVE CallInv'
  <2>1. at[c] = "idle" /\ UNCHANGED <<status, read>> /\ status[c] = "absent"
    BY <1>1, OneCallFacts DEF Enter, NotYetAsked
  <2>2. CASE Move(c, "count")
    BY <2>1, <2>2, SameRecord, Moves
  <2>3. CASE Tell(c, "not asked")
    BY <2>1, <2>3, SameRecord, Tells
  <2> QED
    BY <1>1, <2>2, <2>3 DEF Enter
<1>2. ASSUME NEW c \in Calls, Count(c) PROVE CallInv'
  <2>1. at[c] = "count" /\ UNCHANGED <<status, read>> /\ status[c] = "absent"
    BY <1>2, OneCallFacts DEF Count, NotYetAsked
  <2>2. CASE Move(c, "put")
    BY <2>1, <2>2, SameRecord, Moves
  <2>3. CASE Tell(c, "refused")
    BY <2>1, <2>3, SameRecord, Tells
  <2> QED
    BY <1>2, <2>2, <2>3 DEF Count
<1>3. ASSUME NEW c \in Calls, Put(c) PROVE CallInv'
  <2>1. at[c] = "put" /\ UNCHANGED read
    BY <1>3 DEF Put
  <2>2. CASE UNCHANGED status /\ Tell(c, "error")
    BY <2>1, <2>2, SameRecord, Tells
  <2>3. CASE status' = [status EXCEPT ![c] = "pending"] /\ Tell(c, "error")
    <3>1. status'[c] = "pending" /\ \E e \in Statuses : status' = [status EXCEPT ![c] = e]
      BY <2>3, OneCallWrites
    <3>2. \E e \in Statuses : read' = [read EXCEPT ![c] = e]
      BY <2>1, SameRecord
    <3> QED
      BY <2>1, <2>3, <3>1, <3>2, Tells
  <2>4. CASE status' = [status EXCEPT ![c] = "pending"] /\ Move(c, "wait")
    <3>1. at' = [at EXCEPT ![c] = "wait"] /\ UNCHANGED <<answer, read>>
      BY <2>1, <2>4 DEF Move
    <3>2. at'[c] = "wait" /\ status'[c] = "pending"
      BY <2>4, <3>1, OneCallWrites
    <3>3. answer[c] # "answered"
      BY <2>1, OneCallFacts DEF Answered
    <3>4. OneCall(c)'
      BY <3>1, <3>2, <3>3 DEF OneCall, NotYetAsked, ExpiresPending, Withdrawn, Answered
    <3>5. /\ \E e \in Statuses : status' = [status EXCEPT ![c] = e]
          /\ \E e \in Places : at' = [at EXCEPT ![c] = e]
      BY <2>4, <3>1
    <3>6. /\ \E e \in Statuses : read' = [read EXCEPT ![c] = e]
          /\ \E e \in Outcomes : answer' = [answer EXCEPT ![c] = e]
      BY <3>1, OneCallFacts
    <3> QED
      BY <3>4, <3>5, <3>6, OneCallUpdated
  <2> QED
    BY <1>3, <2>2, <2>4, <2>3 DEF Put
<1>4. ASSUME NEW c \in Calls, Hear(c) PROVE CallInv'
  <2>1. at[c] = "wait" /\ Tell(c, "answered") /\ UNCHANGED <<status, read>>
        /\ status[c] = "responded"
    BY <1>4 DEF Hear, Responded
  <2> QED
    BY <2>1, SameRecord, Tells
<1>5. ASSUME NEW c \in Calls, LoseWatch(c) PROVE CallInv'
  <2>1. at[c] = "wait" /\ Tell(c, "error") /\ UNCHANGED <<status, read>>
    BY <1>5 DEF LoseWatch
  <2> QED
    BY <2>1, SameRecord, Tells
<1>6. ASSUME NEW c \in Calls, TimeOut(c) PROVE CallInv'
  <2>1. at[c] = "wait" /\ Move(c, "expire") /\ UNCHANGED <<status, read>>
    BY <1>6 DEF TimeOut
  <2> QED
    BY <2>1, SameRecord, Moves
<1>7. ASSUME NEW c \in Calls, ReadRecord(c) PROVE CallInv'
  <2>1. /\ at[c] = "expire" /\ read' = [read EXCEPT ![c] = status[c]] /\ UNCHANGED status
    BY <1>7 DEF ReadRecord
  <2>2. read'[c] = status[c] /\ \E e \in Statuses : read' = [read EXCEPT ![c] = e]
    BY <2>1, OneCallFacts, OneCallWrites
  <2>3. CASE Tell(c, "no response")
    BY <2>1, <2>2, <2>3, SameRecord, Tells
  <2>4. CASE status[c] = "pending" /\ Move(c, "cas")
    BY <2>1, <2>2, <2>4, Moves
  <2> QED
    BY <1>7, <2>3, <2>4 DEF ReadRecord
<1>8. ASSUME NEW c \in Calls, Expire(c) PROVE CallInv'
  <2>1. at[c] = "cas" /\ at' = [at EXCEPT ![c] = "reply"] /\ UNCHANGED <<read, answer>>
    BY <1>8 DEF Expire, Move
  <2>2. \E e \in Statuses : status' = [status EXCEPT ![c] = e]
    BY <1>8, SameRecord DEF Expire
  <2>3. at'[c] = "reply" /\ answer[c] # "answered" /\ answer'[c] = answer[c]
    BY <2>1, OneCallFacts, OneCallWrites DEF Answered
  <2>4. OneCall(c)'
    BY <2>1, <2>3 DEF OneCall, NotYetAsked, ExpiresPending, Withdrawn, Answered
  <2>5. /\ \E e \in Places : at' = [at EXCEPT ![c] = e]
        /\ \E e \in Statuses : read' = [read EXCEPT ![c] = e]
        /\ \E e \in Outcomes : answer' = [answer EXCEPT ![c] = e]
    BY <2>1, OneCallFacts
  <2> QED
    BY <2>2, <2>4, <2>5, OneCallUpdated
<1>9. ASSUME NEW c \in Calls, Answer(c) PROVE CallInv'
  <2>1. /\ status[c] = "pending" /\ status' = [status EXCEPT ![c] = "responded"]
        /\ UNCHANGED <<at, read, answer>>
    BY <1>9 DEF Answer
  <2>2. status'[c] = "responded"
    BY <2>1, OneCallWrites
  <2>3. at[c] \notin {"idle", "count", "put"} /\ answer[c] # "answered"
        /\ (at[c] = "cas" => read[c] = "pending")
    BY <2>1, OneCallFacts DEF NotYetAsked, Answered, ExpiresPending
  <2>4. OneCall(c)'
    BY <2>1, <2>2, <2>3 DEF OneCall, NotYetAsked, ExpiresPending, Withdrawn, Answered
  <2>5. /\ \E e \in Places : at' = [at EXCEPT ![c] = e]
        /\ \E e \in Statuses : read' = [read EXCEPT ![c] = e]
        /\ \E e \in Outcomes : answer' = [answer EXCEPT ![c] = e]
    BY <2>1, OneCallFacts
  <2>6. \E e \in Statuses : status' = [status EXCEPT ![c] = e]
    BY <2>1
  <2> QED
    BY <2>4, <2>5, <2>6, OneCallUpdated
<1>10. ASSUME NEW c \in Calls, Drop(c) PROVE CallInv'
  <2>1. at[c] # "returned" /\ Move(c, "dropped") /\ UNCHANGED <<status, read>>
    BY <1>10 DEF Drop, Move
  <2> QED
    BY <2>1, SameRecord, Moves
<1>11. ASSUME NEW c \in Calls, Reply(c) PROVE CallInv'
  <2>1. at[c] = "reply" /\ Tell(c, "no response") /\ UNCHANGED <<status, read>>
    BY <1>11 DEF Reply
  <2> QED
    BY <2>1, SameRecord, Tells
<1>12. CASE UNCHANGED callVars
  BY <1>12 DEF callVars, CallInv, CallTypeOK, OneCall, NotYetAsked, ExpiresPending, Withdrawn, Answered
<1> QED
  BY <1>1, <1>2, <1>3, <1>4, <1>5, <1>6, <1>7, <1>8, <1>9, <1>10, <1>11, <1>12 DEF CallNext, CallStep

\* An expiry is a compare-and-set at the pending record it read, so it cannot
\* replace an answer; nothing else writes a record that is there.
LEMMA CallStepKeepsAnswer ==
  ASSUME CallInv, CallNext, NEW c \in Calls, status[c] = "responded"
  PROVE  status'[c] = "responded"
<1> USE DEF CallInv, CallTypeOK, OneCall, NotYetAsked, ExpiresPending
<1>1. PICK d \in Calls : Enter(d) \/ CallStep(d) \/ LoseWatch(d) \/ Answer(d) \/ Drop(d)
  BY DEF CallNext
<1>2. CASE Put(d)
  BY <1>2 DEF Put
<1>3. CASE Expire(d)
  BY <1>3 DEF Expire, SameRevision
<1>4. CASE Answer(d)
  BY <1>4 DEF Answer
<1>5. CASE UNCHANGED status
  BY <1>5
<1> QED
  BY <1>1, <1>2, <1>3, <1>4, <1>5
  DEF CallStep, Enter, Count, Hear, LoseWatch, TimeOut, ReadRecord, Reply, Drop

\* The user's answer, once stored, is never replaced by the expiry of the call
\* that waited for it (user_tools.rs, expire_call).
THEOREM AnswersKept == CallSpec => AnswerKept
<1>1. CallInv /\ [CallNext]_callVars =>
        [\A c \in Calls : status[c] = "responded" => status'[c] = "responded"]_callVars
  BY CallStepKeepsAnswer DEF callVars
<1> QED
  BY <1>1, CallInitInv, CallNextInv, PTL DEF CallSpec, AnswerKept

-----------------------------------------------------------------------------
(***************************************************************************)
(* The limit on pending questions.  A call that passed the count is going  *)
(* to store its record, so it is counted with the records there are.       *)
(***************************************************************************)
Touched == {c \in Calls : at[c] # "idle"}
Putting == {c \in Calls : at[c] = "put"}

LimitInv ==
  /\ IsFiniteSet(Touched)
  /\ Cardinality(Active) <= Lanes
  /\ Cardinality(Pending \cup Putting) <= MaxPending + Lanes - 1

\* Nobody has called, so nothing is pending.
LEMMA LimitInitInv == CallInit => LimitInv
<1> SUFFICES ASSUME CallInit PROVE LimitInv
  OBVIOUS
<1>1. Touched = {} /\ Active = {} /\ Pending \cup Putting = {}
  BY DEF CallInit, Touched, Active, Pending, Putting
<1>2. IsFiniteSet({}) /\ Cardinality({}) = 0
  BY FS_EmptySet
<1> QED
  BY <1>1, <1>2, UserToolAssumption DEF LimitInv

\* Who runs has been touched, and so has who holds a record.
LEMMA TouchedBounds ==
  ASSUME CallInv, IsFiniteSet(Touched)
  PROVE  /\ Active \subseteq Touched /\ IsFiniteSet(Active) /\ Cardinality(Active) \in Nat
         /\ Pending \subseteq Touched /\ Putting \subseteq Active
         /\ IsFiniteSet(Pending) /\ Cardinality(Pending) \in Nat
         /\ IsFiniteSet(Pending \cup Putting) /\ Cardinality(Pending \cup Putting) \in Nat
<1>1. Active \subseteq Touched /\ Putting \subseteq Active
  BY DEF Active, Touched, Putting
<1>2. Pending \subseteq Touched
  BY DEF CallInv, OneCall, NotYetAsked, Pending, Touched
<1>3. Pending \cup Putting \subseteq Touched
  BY <1>1, <1>2
<1>4. IsFiniteSet(Active) /\ IsFiniteSet(Pending) /\ IsFiniteSet(Pending \cup Putting)
  BY <1>1, <1>2, <1>3, FS_Subset
<1> QED
  BY <1>1, <1>2, <1>4, FS_CardinalityType

\* A step after which no more calls run, and none more has a record or is about
\* to store one.
LEMMA NoMoreAsked ==
  ASSUME CallInv, LimitInv, Touched' \subseteq Touched, Active' \subseteq Active,
         (Pending \cup Putting)' \subseteq Pending \cup Putting
  PROVE  LimitInv'
<1>1. /\ IsFiniteSet(Touched) /\ IsFiniteSet(Active) /\ Cardinality(Active) \in Nat
      /\ IsFiniteSet(Pending \cup Putting) /\ Cardinality(Pending \cup Putting) \in Nat
  BY TouchedBounds DEF LimitInv
<1>2. IsFiniteSet(Touched')
  BY <1>1, FS_Subset
<1>3. Cardinality(Active') <= Cardinality(Active) /\ Cardinality(Active') \in Nat
  BY <1>1, FS_Subset, FS_CardinalityType
<1>4. Cardinality((Pending \cup Putting)') <= Cardinality(Pending \cup Putting)
      /\ Cardinality((Pending \cup Putting)') \in Nat
  BY <1>1, FS_Subset, FS_CardinalityType
<1> QED
  BY <1>1, <1>2, <1>3, <1>4, UserToolAssumption DEF LimitInv

\* The lanes bound who enters, and the count who goes on to store a record.
LEMMA LimitNextInv ==
  ASSUME ~CountFaults, CallInv, CallInv', LimitInv, [CallNext]_callVars
  PROVE  LimitInv'
<1>1. CallTypeOK
  BY DEF CallInv
<1>2. /\ IsFiniteSet(Touched) /\ IsFiniteSet(Active) /\ Cardinality(Active) \in Nat
      /\ IsFiniteSet(Pending) /\ Cardinality(Pending) \in Nat
  BY TouchedBounds DEF LimitInv
<1>3. ASSUME NEW c \in Calls, Enter(c) PROVE LimitInv'
  <2>1. /\ at[c] = "idle" /\ Cardinality(Active) < Lanes /\ UNCHANGED status
        /\ at' = [at EXCEPT ![c] = "count"] \/ at' = [at EXCEPT ![c] = "returned"]
    BY <1>3 DEF Enter, Move, Tell
  <2>2. Touched' \subseteq Touched \cup {c} /\ Active' \subseteq Active \cup {c}
        /\ (Pending \cup Putting)' \subseteq Pending \cup Putting
    BY <1>1, <2>1 DEF Touched, Active, Pending, Putting, CallTypeOK
  <2>3. IsFiniteSet(Touched')
    BY <1>2, <2>2, FS_AddElement, FS_Subset
  <2>4. Cardinality(Active') <= Lanes
    <3>1. /\ IsFiniteSet(Active \cup {c})
          /\ Cardinality(Active \cup {c}) \in {Cardinality(Active), Cardinality(Active) + 1}
      BY <1>2, FS_AddElement
    <3>2. Cardinality(Active') <= Cardinality(Active \cup {c}) /\ IsFiniteSet(Active')
      BY <2>2, <3>1, FS_Subset
    <3>3. Cardinality(Active') \in Nat
      BY <3>2, FS_CardinalityType
    <3> QED
      BY <1>2, <2>1, <3>1, <3>2, <3>3, UserToolAssumption
  <2>5. Cardinality((Pending \cup Putting)') <= MaxPending + Lanes - 1
    <3>1. IsFiniteSet(Pending \cup Putting) /\ Cardinality(Pending \cup Putting) \in Nat
      BY TouchedBounds DEF LimitInv
    <3>2. Cardinality((Pending \cup Putting)') <= Cardinality(Pending \cup Putting)
          /\ Cardinality((Pending \cup Putting)') \in Nat
      BY <2>2, <3>1, FS_Subset, FS_CardinalityType
    <3> QED
      BY <3>1, <3>2, UserToolAssumption DEF LimitInv
  <2> QED
    BY <2>3, <2>4, <2>5 DEF LimitInv
<1>4. ASSUME NEW c \in Calls, Count(c) PROVE LimitInv'
  <2>1. CASE Tell(c, "refused")
    <3>1. at[c] = "count" /\ at' = [at EXCEPT ![c] = "returned"] /\ UNCHANGED status
      BY <1>4, <2>1 DEF Count, Tell
    <3>2. /\ Touched' \subseteq Touched /\ Active' \subseteq Active
          /\ (Pending \cup Putting)' \subseteq Pending \cup Putting
      BY <1>1, <3>1 DEF Touched, Active, Pending, Putting, CallTypeOK
    <3> QED
      BY <3>2, NoMoreAsked
  <2>2. CASE ~Full(Cardinality(Pending)) /\ Move(c, "put")
    <3>1. at[c] = "count" /\ at' = [at EXCEPT ![c] = "put"] /\ UNCHANGED status
      BY <1>4, <2>2 DEF Count, Move
    <3>2. Touched' = Touched /\ Active' = Active /\ Pending' = Pending
      BY <1>1, <3>1 DEF Touched, Active, Pending, CallTypeOK
    <3>3. Cardinality(Pending) <= MaxPending - 1
      BY <1>2, <2>2, UserToolAssumption DEF Full
    <3>4. Putting' \subseteq Active
      BY <3>2 DEF Putting, Active
    <3>5. IsFiniteSet(Putting') /\ Cardinality(Putting') <= Cardinality(Active)
          /\ Cardinality(Putting') \in Nat
      BY <1>2, <3>4, FS_Subset, FS_CardinalityType
    <3>6. IsFiniteSet(Pending \cap Putting') /\ Cardinality(Pending \cap Putting') \in Nat
      BY <1>2, FS_Intersection, FS_CardinalityType
    <3>7. Cardinality(Pending \cup Putting') =
            Cardinality(Pending) + Cardinality(Putting') - Cardinality(Pending \cap Putting')
      BY <1>2, <3>5, FS_Union
    <3>8. Cardinality((Pending \cup Putting)') <= MaxPending + Lanes - 1
      <4>1. Cardinality(Active) <= Lanes
        BY DEF LimitInv
      <4> QED
        BY <1>2, <3>2, <3>3, <3>5, <3>6, <3>7, <4>1, UserToolAssumption
    <3> QED
      BY <3>2, <3>8 DEF LimitInv
  <2>3. ~CountFaults => Tell(c, "refused") \/ (~Full(Cardinality(Pending)) /\ Move(c, "put"))
    BY <1>4 DEF Count
  <2> QED
    BY <2>1, <2>2, <2>3
<1>5. ASSUME NEW c \in Calls, CallStep(c) \/ LoseWatch(c) \/ Answer(c) \/ Drop(c), ~Count(c)
      PROVE  LimitInv'
  <2>1. /\ at' = at \/ (at[c] \notin {"idle", "returned", "dropped"} /\ \E p \in Places \ {"put"} :
                          at' = [at EXCEPT ![c] = p])
        /\ \/ status' = status
           \/ (at[c] = "put" /\ status' = [status EXCEPT ![c] = "pending"])
           \/ \E s \in Statuses \ {"pending"} : status' = [status EXCEPT ![c] = s]
        /\ at[c] = "put" => at' = at \/ status'[c] = "pending" \/ at'[c] # "put"
    BY <1>1, <1>5 DEF CallStep, Put, Hear, TimeOut, ReadRecord, Expire, Reply, LoseWatch, Answer, Drop,
       Move, Tell, CallTypeOK, Places, Statuses
  <2>2. Touched' \subseteq Touched /\ Active' \subseteq Active
    BY <1>1, <2>1 DEF Touched, Active, CallTypeOK
  <2>3. (Pending \cup Putting)' \subseteq Pending \cup Putting
    BY <1>1, <2>1 DEF Pending, Putting, CallTypeOK
  <2> QED
    BY <2>2, <2>3, NoMoreAsked
<1>6. CASE UNCHANGED callVars
  BY <1>6, NoMoreAsked DEF callVars, Touched, Active, Pending, Putting
<1> QED
  BY <1>3, <1>4, <1>5, <1>6 DEF CallNext, CallStep

\* Calls that run together may pass the limit together, each by itself once: no
\* more than max_pending_per_agent questions are open, and one for each other
\* lane, when the count misses none (user_tools.rs, handle_call).
THEOREM PendingLimited ==
  ASSUME ~CountFaults
  PROVE  CallSpec => []PendingBounded
<1>1. CallInv /\ LimitInv => PendingBounded
  <2> SUFFICES ASSUME CallInv, LimitInv PROVE PendingBounded
    OBVIOUS
  <2>1. IsFiniteSet(Pending \cup Putting) /\ Cardinality(Pending \cup Putting) \in Nat
        /\ Cardinality(Pending) \in Nat
    BY TouchedBounds DEF LimitInv
  <2>2. Cardinality(Pending) <= Cardinality(Pending \cup Putting)
    BY <2>1, FS_Subset
  <2> QED
    BY <2>1, <2>2, UserToolAssumption DEF LimitInv, PendingBounded
<1>2. CallInv /\ LimitInv /\ [CallNext]_callVars => CallInv' /\ LimitInv'
  BY CallNextInv, LimitNextInv
<1> QED
  BY <1>1, <1>2, CallInitInv, LimitInitInv, PTL DEF CallSpec

-----------------------------------------------------------------------------
(***************************************************************************)
(* The question as the user and the agent see it.  The watch, the timeout, *)
(* the read of the record and a lost compare-and-set are steps nobody sees;*)
(* a call that has not returned has told the agent nothing.                *)
(***************************************************************************)
Untold(c) == at[c] # "returned" => answer[c] = "none"
AskedInv == CallInv /\ \A c \in Calls : Untold(c)

LEMMA AskedInitInv == CallInit => AskedInv
  BY CallInitInv DEF CallInit, AskedInv, Untold

\* What a step does to the place and the answer of the call it is of: it moves
\* the call on, or returns, or does neither.
LEMMA StepTellsOnce ==
  ASSUME NEW c \in Calls,
         Enter(c) \/ CallStep(c) \/ LoseWatch(c) \/ Answer(c) \/ Drop(c)
  PROVE  \/ at[c] # "returned" /\ \E p \in Places : at' = [at EXCEPT ![c] = p] /\ UNCHANGED answer
         \/ \E a \in Outcomes : Tell(c, a)
         \/ UNCHANGED <<at, answer>>
<1> USE DEF Places, Outcomes
<1>1. CASE Enter(c)
  BY <1>1 DEF Enter, Move
<1>2. CASE Count(c)
  BY <1>2 DEF Count, Move
<1>3. CASE Put(c)
  BY <1>3 DEF Put, Move
<1>4. CASE Hear(c) \/ LoseWatch(c) \/ Reply(c)
  BY <1>4 DEF Hear, LoseWatch, Reply
<1>5. CASE TimeOut(c)
  BY <1>5 DEF TimeOut, Move
<1>6. CASE ReadRecord(c)
  BY <1>6 DEF ReadRecord, Move
<1>7. CASE Answer(c)
  BY <1>7 DEF Answer
<1>8. CASE Drop(c)
  BY <1>8 DEF Drop
<1>9. CASE Expire(c)
  BY <1>9 DEF Expire, Move
<1> QED
  BY <1>1, <1>2, <1>3, <1>4, <1>5, <1>6, <1>7, <1>8, <1>9 DEF CallStep

LEMMA AskedNextInv == AskedInv /\ [CallNext]_callVars => AskedInv'
<1> SUFFICES ASSUME AskedInv, [CallNext]_callVars PROVE AskedInv'
  OBVIOUS
<1>1. CallInv' /\ CallTypeOK
  BY CallNextInv DEF AskedInv, CallInv
<1>2. ASSUME NEW c \in Calls, NEW p \in Places, at[c] # "returned",
             at' = [at EXCEPT ![c] = p], UNCHANGED answer, NEW d \in Calls
      PROVE  Untold(d)'
  BY <1>1, <1>2 DEF AskedInv, Untold, CallTypeOK
<1>3. ASSUME NEW c \in Calls, NEW a \in Outcomes, Tell(c, a), NEW d \in Calls
      PROVE  Untold(d)'
  BY <1>1, <1>3 DEF AskedInv, Untold, CallTypeOK, Tell
<1>4. CASE UNCHANGED <<at, answer>>
  BY <1>1, <1>4 DEF AskedInv, Untold
<1>5. CASE UNCHANGED callVars
  BY <1>4, <1>5 DEF callVars
<1> QED
  BY <1>1, <1>2, <1>3, <1>4, <1>5, StepTellsOnce DEF CallNext, AskedInv

\* What the agent is told of a question agrees with its record: "answered" only
\* of an answer, and of a withdrawn question only that nobody answered, unless
\* its task ends between the compare-and-set and the return (user_tools.rs,
\* expire_call).
THEOREM AgentToldTheTruth == CallSpec => []ToldTheTruth
<1>1. AskedInv => ToldTheTruth
  BY DEF AskedInv, Untold, CallInv, OneCall, Withdrawn, Answered, ToldTheTruth
<1> QED
  BY <1>1, AskedInitInv, AskedNextInv, PTL DEF CallSpec

\* The agent is told something by a call that had told it nothing.
LEMMA TellsOfTheQuestion ==
  ASSUME AskedInv, NEW c \in Calls, at[c] # "returned", NEW a, Tell(c, a)
  PROVE  Question!Tell(c, a)
  BY DEF AskedInv, Untold, Tell, Question!Tell

\* Each step of a call is a step of the question, or shows nothing of it.
LEMMA CallStepSimulates ==
  ASSUME AskedInv, [CallNext]_callVars
  PROVE  [Question!Next]_(Question!vars)
<1> USE DEF Question!vars
<1>1. ASSUME NEW c \in Calls, Enter(c) PROVE [Question!Next]_(Question!vars)
  <2>1. at[c] = "idle" /\ UNCHANGED status /\ status[c] = "absent"
    BY <1>1 DEF Enter, AskedInv, CallInv, OneCall, NotYetAsked
  <2>2. CASE Move(c, "count")
    BY <2>1, <2>2 DEF Move
  <2>3. CASE Tell(c, "not asked")
    <3>1. Question!Decline(c)
      BY <2>1, <2>3, TellsOfTheQuestion DEF Question!Decline
    <3> QED
      BY <2>1, <3>1 DEF Question!Next
  <2> QED
    BY <1>1, <2>2, <2>3 DEF Enter
<1>2. ASSUME NEW c \in Calls, Count(c) PROVE [Question!Next]_(Question!vars)
  <2>1. at[c] = "count" /\ UNCHANGED status /\ status[c] = "absent"
    BY <1>2 DEF Count, AskedInv, CallInv, OneCall, NotYetAsked
  <2>2. CASE Move(c, "put")
    BY <2>1, <2>2 DEF Move
  <2>3. CASE Tell(c, "refused")
    <3>1. Question!Decline(c)
      BY <2>1, <2>3, TellsOfTheQuestion DEF Question!Decline
    <3> QED
      BY <2>1, <3>1 DEF Question!Next
  <2> QED
    BY <1>2, <2>2, <2>3 DEF Count
<1>3. ASSUME NEW c \in Calls, Put(c) PROVE [Question!Next]_(Question!vars)
  <2>1. at[c] = "put" /\ status[c] = "absent" /\ answer[c] = "none"
    BY <1>3 DEF Put, AskedInv, CallInv, OneCall, NotYetAsked, Untold
  <2>2. CASE status' = [status EXCEPT ![c] = "pending"] /\ Move(c, "wait")
    <3>1. Question!Ask(c)
      BY <2>1, <2>2 DEF Question!Ask, Question!Becomes, Move
    <3> QED
      BY <3>1 DEF Question!Next
  <2>3. CASE status' = [status EXCEPT ![c] = "pending"] /\ Tell(c, "error")
    <3>1. Question!Ask(c)
      BY <2>1, <2>3, TellsOfTheQuestion DEF Question!Ask, Question!Becomes
    <3> QED
      BY <3>1 DEF Question!Next
  <2>4. CASE UNCHANGED status /\ Tell(c, "error")
    <3>1. Question!Abandon(c)
      BY <2>1, <2>4, TellsOfTheQuestion DEF Question!Abandon
    <3> QED
      BY <2>4, <3>1 DEF Question!Next
  <2> QED
    BY <1>3, <2>2, <2>4, <2>3 DEF Put
<1>4. ASSUME NEW c \in Calls, Hear(c) PROVE [Question!Next]_(Question!vars)
  <2>1. at[c] = "wait" /\ status[c] = "responded" /\ UNCHANGED status /\ Tell(c, "answered")
    BY <1>4 DEF Hear, Responded
  <2>2. Question!Hear(c)
    BY <2>1, TellsOfTheQuestion DEF Question!Hear
  <2> QED
    BY <2>2 DEF Question!Next
<1>5. ASSUME NEW c \in Calls, LoseWatch(c) PROVE [Question!Next]_(Question!vars)
  <2>1. at[c] = "wait" /\ UNCHANGED status /\ Tell(c, "error")
    BY <1>5 DEF LoseWatch
  <2>2. status[c] # "expired"
    BY <2>1 DEF AskedInv, CallInv, OneCall, Withdrawn
  <2>3. Question!Abandon(c)
    BY <2>1, <2>2, TellsOfTheQuestion DEF Question!Abandon
  <2> QED
    BY <2>1, <2>3 DEF Question!Next
<1>6. ASSUME NEW c \in Calls, TimeOut(c) PROVE [Question!Next]_(Question!vars)
  BY <1>6 DEF TimeOut, Move
<1>7. ASSUME NEW c \in Calls, ReadRecord(c) PROVE [Question!Next]_(Question!vars)
  <2>1. at[c] = "expire" /\ UNCHANGED status
    BY <1>7 DEF ReadRecord
  <2>2. CASE Move(c, "cas")
    BY <2>1, <2>2 DEF Move
  <2>3. CASE Tell(c, "no response")
    <3>1. Question!Abandon(c)
      BY <2>1, <2>3, TellsOfTheQuestion DEF Question!Abandon
    <3> QED
      BY <2>1, <3>1 DEF Question!Next
  <2> QED
    BY <1>7, <2>2, <2>3 DEF ReadRecord
<1>8. ASSUME NEW c \in Calls, Expire(c) PROVE [Question!Next]_(Question!vars)
  <2>1. /\ at[c] = "cas" /\ UNCHANGED answer /\ read[c] = "pending"
        /\ answer[c] = "none"
    BY <1>8 DEF Expire, Move, AskedInv, CallInv, OneCall, ExpiresPending, Untold
  <2>2. CASE SameRevision(c) /\ status' = [status EXCEPT ![c] = "expired"]
    <3>1. Question!Withdraw(c)
      BY <2>1, <2>2 DEF SameRevision, Question!Withdraw, Question!Becomes
    <3> QED
      BY <3>1 DEF Question!Next
  <2>3. CASE UNCHANGED status
    BY <2>1, <2>3
  <2> QED
    BY <1>8, <2>2, <2>3 DEF Expire
<1>9. ASSUME NEW c \in Calls, Answer(c) PROVE [Question!Next]_(Question!vars)
  BY <1>9 DEF Answer, Question!Next, Question!Respond, Question!Becomes
<1>10. ASSUME NEW c \in Calls, Drop(c) PROVE [Question!Next]_(Question!vars)
  BY <1>10 DEF Drop
<1>11. ASSUME NEW c \in Calls, Reply(c) PROVE [Question!Next]_(Question!vars)
  <2>1. at[c] = "reply" /\ UNCHANGED status /\ Tell(c, "no response")
    BY <1>11 DEF Reply
  <2>2. Question!Abandon(c)
    BY <2>1, TellsOfTheQuestion DEF Question!Abandon
  <2> QED
    BY <2>1, <2>2 DEF Question!Next
<1>12. CASE UNCHANGED callVars
  BY <1>12 DEF callVars
<1> QED
  BY <1>1, <1>2, <1>3, <1>4, <1>5, <1>6, <1>7, <1>8, <1>9, <1>10, <1>11, <1>12 DEF CallNext, CallStep

\* To the user and the agent a question is asked once, answered or withdrawn but
\* never both, and told of once and truly, for any number of calls, whatever the
\* watch, the timeout and the compare-and-set do (user_tools.rs, handle_call and
\* expire_call implement UserQuestion).
THEOREM QuestionsKept == CallSpec => QuestionKept
<1>1. CallInit => Question!Init
  BY DEF CallInit, Question!Init
<1>2. AskedInv /\ [CallNext]_callVars => [Question!Next]_(Question!vars)
  BY CallStepSimulates
<1> QED
  BY <1>1, <1>2, AskedInitInv, AskedNextInv, PTL DEF CallSpec, QuestionKept, Question!Spec

-----------------------------------------------------------------------------
(***************************************************************************)
(* The scratchpad.                                                         *)
(***************************************************************************)
PadTypeOK ==
  /\ text \in Seq(Callers) /\ revision \in Nat /\ erased \subseteq Callers
  /\ stage \in [Callers -> {"read", "write", "over"}]
  /\ based \in [Callers -> [text : Seq(Callers), revision : Nat]]
  /\ told \in [Callers -> {"none", "ok", "error", "contention"}]

\* A revision stands for the value it was given with.
BasedOnRevision(c) ==
  /\ based[c].revision <= revision
  /\ based[c].revision = revision => based[c].text = text

\* A call that is under way has written nothing.
NothingWritten(c) == stage[c] # "over" => c \notin Range(text) \cup erased /\ told[c] = "none"

\* Only an append goes from a read to a compare-and-set; a set has no read.
Comparing(c) == stage[c] = "write" => c \in Appenders

PadInv ==
  /\ PadTypeOK
  /\ \A c \in Callers : BasedOnRevision(c) /\ NothingWritten(c) /\ Comparing(c)
  /\ AppendDurable

\* The key is absent and nobody has called.
LEMMA PadInitInv == PadInit => PadInv
<1> SUFFICES ASSUME PadInit PROVE PadInv
  OBVIOUS
<1> USE DEF PadInit
<1>1. Range(text) = {}
  BY DEF Range
<1>2. PadTypeOK
  BY DEF PadTypeOK
<1> QED
  BY <1>1, <1>2 DEF PadInv, BasedOnRevision, NothingWritten, Comparing, AppendDurable, Callers

\* What a sequence holds after an element is appended to it.
LEMMA AppendRange ==
  ASSUME NEW S, NEW s \in Seq(S), NEW e \in S
  PROVE  Append(s, e) \in Seq(S) /\ Range(Append(s, e)) = Range(s) \cup {e}
<1>1. /\ Append(s, e) \in Seq(S)
      /\ DOMAIN Append(s, e) = DOMAIN s \cup {Len(s) + 1}
      /\ Append(s, e)[Len(s) + 1] = e
      /\ \A i \in DOMAIN s : Append(s, e)[i] = s[i]
  OBVIOUS
<1> QED
  BY <1>1 DEF Range

\* The value changes only by a compare-and-set at the revision the writer read,
\* or by a set, which raises the revision as well.
LEMMA PadNextInv == PadInv /\ [PadNext]_padVars => PadInv'
<1> SUFFICES ASSUME PadInv, [PadNext]_padVars PROVE PadInv'
  OBVIOUS
<1> USE DEF PadInv, PadTypeOK, BasedOnRevision, NothingWritten, Comparing, AppendDurable, Callers
<1>1. ASSUME NEW c \in Callers, ReadEntry(c) PROVE PadInv'
  <2>1. UNCHANGED <<text, revision, erased>> /\ Range(text)' = Range(text)
    BY <1>1 DEF ReadEntry, Range
  <2>2. CASE Finish(c, "contention") /\ UNCHANGED based
    BY <1>1, <2>1, <2>2 DEF ReadEntry, Finish
  <2>3. CASE /\ based' = [based EXCEPT ![c] = [text |-> text, revision |-> revision]]
             /\ GoOn(c, "write")
    BY <1>1, <2>1, <2>3 DEF ReadEntry, GoOn
  <2> QED
    BY <1>1, <2>2, <2>3 DEF ReadEntry
<1>2. ASSUME NEW c \in Callers, Commit(c) PROVE PadInv'
  <2>1. text' = Append(text, c) /\ revision' = revision + 1 /\ UNCHANGED <<based, erased>>
    BY <1>2 DEF Commit, Unraced, Write
  <2>2. text' \in Seq(Callers) /\ Range(text)' = Range(text) \cup {c}
    <3>1. Append(text, c) \in Seq(Callers) /\ Range(Append(text, c)) = Range(text) \cup {c}
      BY AppendRange
    <3> QED
      BY <2>1, <3>1
  <2>3. PICK what \in {"ok", "error"} : Finish(c, what)
    BY <1>2 DEF Commit
  <2>4. PadTypeOK'
    BY <2>1, <2>2, <2>3 DEF Finish
  <2>5. \A d \in Callers : BasedOnRevision(d)'
    BY <2>1
  <2>6. \A d \in Callers : NothingWritten(d)' /\ Comparing(d)'
    BY <2>1, <2>2, <2>3 DEF Finish
  <2>7. \A i, j \in DOMAIN text' : text'[i] = text'[j] => i = j
    <3>1. c \notin Range(text)
      BY <1>2 DEF Commit
    <3> QED
      BY <2>1, <3>1 DEF Range
  <2>8. AppendDurable'
    BY <1>2, <2>1, <2>2, <2>3, <2>7 DEF Finish, Commit
  <2> QED
    BY <2>4, <2>5, <2>6, <2>8
<1>3. ASSUME NEW c \in Callers, LoseRace(c) PROVE PadInv'
  BY <1>3 DEF LoseRace, GoOn, Range
<1>4. ASSUME NEW c \in Callers, StoreError(c) PROVE PadInv'
  BY <1>4 DEF StoreError, Finish, Range
<1>5. ASSUME NEW c \in Callers, Set(c) PROVE PadInv'
  <2>1. /\ text' = <<c>> /\ revision' = revision + 1 /\ UNCHANGED based
        /\ erased' = erased \cup Range(text)
    BY <1>5 DEF Set, Write
  <2>2. Range(text)' = {c} /\ Range(text) \subseteq Callers
    BY <2>1 DEF Range
  <2> PICK what \in {"ok", "error"} : Finish(c, what)
    BY <1>5 DEF Set
  <2>3. PadTypeOK'
    BY <1>5, <2>1, <2>2 DEF Set, Finish
  <2>4. \A d \in Callers : NothingWritten(d)' /\ Comparing(d)'
    BY <1>5, <2>1, <2>2 DEF Set, Finish
  <2>5. AppendDurable'
    <3>1. \A d \in Callers : d \in Range(text) \cup erased => d \in (Range(text) \cup erased)'
      BY <2>1, <2>2
    <3>2. told' = [told EXCEPT ![c] = what] /\ c \in Range(text)'
      BY <1>5, <2>2 DEF Set, Finish
    <3>3. \A d \in Appenders : told'[d] = "contention" => d \notin (Range(text) \cup erased)'
      BY <2>1, <2>2, <3>2
    <3> QED
      BY <2>1, <3>1, <3>2, <3>3
  <2> QED
    BY <2>1, <2>3, <2>4, <2>5
<1>6. CASE UNCHANGED padVars
  BY <1>6 DEF padVars, Range
<1> QED
  BY <1>1, <1>2, <1>3, <1>4, <1>5, <1>6 DEF PadNext

\* An append that returned Ok is in the value until a set replaces the value,
\* one that gave up left nothing, and none is there twice, for any number of
\* appenders and attempts (workers/mod.rs, NatsScratchpadStore).
THEOREM AppendsDurable == PadSpec => []AppendDurable
<1>1. PadInv => AppendDurable
  BY DEF PadInv
<1> QED
  BY <1>1, PadInitInv, PadNextInv, PTL DEF PadSpec

-----------------------------------------------------------------------------
(***************************************************************************)
(* The note as the agents that share it see it: an append takes effect in  *)
(* the step of its compare-and-set.                                        *)
(***************************************************************************)
\* A call that is under way has returned nothing, and none of it is in the note.
LEMMA UnderWay ==
  ASSUME PadInv, NEW c \in Callers, stage[c] # "over"
  PROVE  c \notin Range(text) \cup erased /\ told[c] = "none" /\ text \in Seq(Callers)
  BY DEF PadInv, NothingWritten, PadTypeOK

\* What an append and a set leave of the calls that took effect.
LEMMA AppendTakesEffect ==
  ASSUME NEW S, NEW t \in Seq(S), NEW c \in S, NEW e
  PROVE  Range(Append(t, c)) \cup e = (Range(t) \cup e) \cup {c}
<1>1. Range(Append(t, c)) = Range(t) \cup {c}
  BY AppendRange
<1> QED
  BY <1>1

\* Each step of a call is a step of the note, or shows nothing of it.
LEMMA PadStepSimulates ==
  ASSUME PadInv, [PadNext]_padVars
  PROVE  [Note!Next]_(Note!vars)
<1> USE DEF Note!vars, Callers
<1>1. ASSUME NEW c \in Callers, Finish(c, "error") \/ Finish(c, "contention"), stage[c] # "over",
             UNCHANGED <<text, erased>>
      PROVE  [Note!Next]_(Note!vars)
  <2>1. c \notin Range(text) \cup erased /\ told[c] = "none"
    BY <1>1, UnderWay
  <2>2. UNCHANGED (Range(text) \cup erased)
    BY <1>1 DEF Range
  <2>3. Note!Return(c, "error") \/ Note!Return(c, "contention")
    BY <1>1, <2>1 DEF Finish, Note!Return
  <2>4. Note!Refuse(c)
    BY <1>1, <2>1, <2>2, <2>3 DEF Note!Refuse
  <2> QED
    BY <2>4 DEF Note!Next
<1>2. ASSUME NEW c \in Callers, GoOn(c, "read") \/ GoOn(c, "write"), UNCHANGED <<text, erased>>
      PROVE  [Note!Next]_(Note!vars)
  BY <1>2 DEF GoOn, Range
<1>3. ASSUME NEW c \in Callers, ReadEntry(c) PROVE [Note!Next]_(Note!vars)
  BY <1>1, <1>2, <1>3 DEF ReadEntry
<1>4. ASSUME NEW c \in Callers, Commit(c) PROVE [Note!Next]_(Note!vars)
  <2>1. /\ c \in Appenders /\ c \notin Range(text) \cup erased /\ told[c] = "none"
        /\ text \in Seq(Callers)
    BY <1>4, UnderWay DEF Commit, PadInv, Comparing
  <2>2. text' = Append(text, c) /\ UNCHANGED erased
    BY <1>4 DEF Commit, Unraced, Write, PadInv, BasedOnRevision
  <2>3. (Range(text) \cup erased)' = (Range(text) \cup erased) \cup {c}
    BY <2>1, <2>2, AppendTakesEffect
  <2>4. Note!Return(c, "ok") \/ Note!Return(c, "error")
    BY <1>4, <2>1 DEF Commit, Finish, Note!Return
  <2>5. Note!DoAppend(c)
    BY <2>1, <2>2, <2>3, <2>4 DEF Note!DoAppend, Note!TakesEffect
  <2> QED
    BY <2>5 DEF Note!Next
<1>5. ASSUME NEW c \in Callers, LoseRace(c) PROVE [Note!Next]_(Note!vars)
  BY <1>2, <1>5 DEF LoseRace
<1>6. ASSUME NEW c \in Callers, StoreError(c) PROVE [Note!Next]_(Note!vars)
  BY <1>1, <1>6 DEF StoreError
<1>7. ASSUME NEW c \in Callers, Set(c) PROVE [Note!Next]_(Note!vars)
  <2>1. /\ c \in Setters /\ c \notin Range(text) \cup erased /\ told[c] = "none"
    BY <1>7, UnderWay DEF Set
  <2>2. /\ text' = <<c>> /\ erased' = erased \cup Range(text)
        /\ Note!Return(c, "ok") \/ Note!Return(c, "error")
    BY <1>7, <2>1 DEF Set, Write, Finish, Note!Return
  <2>3. (Range(text) \cup erased)' = (Range(text) \cup erased) \cup {c}
    BY <2>2 DEF Range
  <2>4. Note!DoSet(c)
    BY <2>1, <2>2, <2>3 DEF Note!DoSet, Note!TakesEffect
  <2> QED
    BY <2>4 DEF Note!Next
<1>8. CASE UNCHANGED padVars
  BY <1>8 DEF padVars, Range
<1> QED
  BY <1>3, <1>4, <1>5, <1>6, <1>7, <1>8 DEF PadNext

\* To the agents that share a key an append is one step: it acts on the value it
\* finds, at most once, and one that was refused left nothing, for any number of
\* appenders, setters and attempts (workers/mod.rs, NatsScratchpadStore
\* implements SharedNote).
THEOREM AppendsAreAtomic == PadSpec => AppendsAtomic
<1>1. PadInit => Note!Init
  BY DEF PadInit, Note!Init, Callers, Range
<1>2. PadInv /\ [PadNext]_padVars => [Note!Next]_(Note!vars)
  BY PadStepSimulates
<1> QED
  BY <1>1, <1>2, PadInitInv, PadNextInv, PTL DEF PadSpec, AppendsAtomic, Note!Spec
=============================================================================
