------------------------------ MODULE ReviewProofs ------------------------------
(***************************************************************************)
(* Proofs about OperatorReview for any entries, contents, middleware and   *)
(* number of requests, overlapping as they like, on top of the buffer's    *)
(* own invariant: what is published is the latest edit, every audit hash   *)
(* resolves, and a manual release lets out vetted content.  The handlers   *)
(* read before they await and write after, so requests that overlap do     *)
(* undo each other's work; the properties say how, and the proofs that     *)
(* there is no other way.                                                  *)
(***************************************************************************)
EXTENDS OperatorReview, ResponseBufferProofs

\* The release stage leaves its own output alone.
Settles == Pipeline => \A c \in Contents : Rewrite[Rewrite[c]] = Rewrite[c]

\* What a request in progress knows: an entry that was in the buffer, and what
\* it read there.  Only a configured middleware is run.
InHand(o) ==
  /\ at[o] # "idle" => target[o] \in handed \ arriving
  /\ at[o] \in {"edit", "vet", "write"} => read[o] \in Contents
  /\ at[o] = "edit" => text[o] \in Contents
  /\ at[o] \in {"vet", "write"} => Pipeline

\* The inductive invariant that needs no assumption.
ReviewInv == BufferInv /\ ReviewTypeOK /\ \A o \in Operators : InHand(o)

\* A release has seen no more edits than there are.
SeenBefore(o) ==
  at[o] \in {"vet", "write", "force"} => seen[o] <= Len(trail[target[o]])

-----------------------------------------------------------------------------
(***************************************************************************)
(* The buffer under review.                                                *)
(***************************************************************************)

\* A review step is a step of the buffer, or the write-back of a rewrite.
LEMMA ReviewStep ==
  ASSUME ReviewInv, [ReviewNext]_allVars
  PROVE  \/ [Next]_vars
         \/ \E e \in Entries, c \in Contents : UpdatePayload(e, c)
<1> USE OperatorReviewAssumption DEF OperatorReviewAssumption
<1>1. ASSUME NEW o \in Operators, Review(o)
      PROVE  \/ [Next]_vars
             \/ \E e \in Entries, c \in Contents : UpdatePayload(e, c)
  <2>1. at[o] # "idle" => target[o] \in Entries
    BY DEF ReviewInv, InHand, BufferInv, TypeOK
  <2>2. ASSUME NEW e \in Entries, NEW c \in Contents, BeginEdit(o, e, c)
        PROVE  UNCHANGED vars
    BY <2>2 DEF BeginEdit
  <2>3. ASSUME RefuseEdit(o) \/ Vet(o) PROVE UNCHANGED vars
    BY <2>3 DEF RefuseEdit, Vet
  <2>4. ASSUME NEW e \in Entries, BeginRelease(o, e) PROVE UNCHANGED vars
    BY <2>4 DEF BeginRelease
  <2>5. ASSUME FinishEdit(o) PROVE Next
    <3>1. at[o] = "edit" /\ text[o] \in Contents
      BY <2>5 DEF FinishEdit, Edited, ReviewInv, InHand
    <3>2. Forms(text[o]) \subseteq Contents
      BY <3>1 DEF Forms
    <3>3. PICK c \in Contents : EditPayload(target[o], c)
      BY <2>5, <3>2 DEF FinishEdit, Edited
    <3> QED
      BY <2>1, <3>1, <3>3 DEF Next, Operate
  <2>6. ASSUME WriteRewrite(o)
        PROVE  \/ UNCHANGED vars
               \/ \E e \in Entries, c \in Contents : UpdatePayload(e, c)
    <3>1. at[o] = "write" /\ Rewrite[read[o]] \in Contents
      BY <2>6 DEF WriteRewrite, ReviewInv, InHand
    <3> QED
      BY <2>1, <2>6, <3>1 DEF WriteRewrite
  <2>7. ASSUME ForceOut(o) PROVE Next \/ UNCHANGED vars
    BY <2>1, <2>7 DEF ForceOut, Next, Operate
  <2> QED
    BY <1>1, <2>2, <2>3, <2>4, <2>5, <2>6, <2>7 DEF Review
<1>2. CASE OneLock \/ Drain \/ Environment
  BY <1>2 DEF OneLock, Next, Operate
<1>3. CASE UNCHANGED allVars
  BY <1>3 DEF allVars
<1> QED
  BY <1>1, <1>2, <1>3 DEF ReviewNext

\* So the buffer keeps its own invariant under review.
LEMMA BufferKept ==
  ASSUME ReviewInv, [ReviewNext]_allVars
  PROVE  BufferInv'
<1>1. CASE [Next]_vars
  BY <1>1, NextTypeOK, NextBufferInv DEF ReviewInv, BufferInv
<1>2. ASSUME NEW e \in Entries, NEW c \in Contents, UpdatePayload(e, c)
      PROVE  BufferInv'
  <2> USE <1>2 DEF ReviewInv, BufferInv, UpdatePayload, queue, outcome, switches
  <2>1. payload' \in [Entries -> Payloads]
    BY DEF TypeOK, Payloads
  <2>2. TypeOK'
    BY <2>1 DEF TypeOK
  <2>3. InOnePlace' /\ BatchIsReleasable'
    BY DEF InOnePlace, BatchIsReleasable, Held, Out
  <2> QED
    BY <2>2, <2>3
<1> QED
  BY <1>1, <1>2, ReviewStep

\* The drain, the worker, the timers and the handlers that take the lock once
\* change no content; an entry goes out as it stands; none that the worker has
\* pushed returns to the queue for the lock, and none comes back to the buffer
\* but from a failed publish.
LEMMA BufferEffect ==
  ASSUME BufferInv, OneLock \/ Drain \/ Environment
  PROVE  /\ \A e \in Entries : payload'[e].content = payload[e].content
         /\ handed \ arriving \subseteq handed' \ arriving'
         /\ \A e \in Out' : \/ e \in Out /\ sentAs'[e] = sentAs[e]
                            \/ e \in Entries /\ sentAs'[e] = payload[e]
         /\ faultsLeft = 0 => pending' \subseteq pending \cup arriving
<1> DEFINE Effect ==
      /\ \A e \in Entries : payload'[e].content = payload[e].content
      /\ handed \ arriving \subseteq handed' \ arriving'
      /\ \A e \in Out' : \/ e \in Out /\ sentAs'[e] = sentAs[e]
                         \/ e \in Entries /\ sentAs'[e] = payload[e]
      /\ faultsLeft = 0 => pending' \subseteq pending \cup arriving
<1> USE DEF BufferInv, TypeOK, queue, outcome, switches, Out
<1>1. ASSUME NEW e \in Entries, AddComment(e) PROVE Effect
  BY <1>1 DEF AddComment, Payloads
<1>2. ASSUME NEW e \in Entries, Stop(e) \/ Unstop(e) \/ Reject(e) PROVE Effect
  BY <1>2 DEF Stop, Unstop, Reject
<1>3. CASE DrainStart \/ DrainSweep \/ DrainGate \/ DrainPop
  BY <1>3 DEF DrainStart, DrainSweep, DrainGate, DrainPop, Ready
<1>4. ASSUME NEW e \in Entries, Publish(e) PROVE Effect
  BY <1>4 DEF Publish, Requeue
<1>5. ASSUME NEW e \in Entries, Complete(e) \/ Enqueue(e) \/ TimePasses(e)
      PROVE  Effect
  BY <1>5 DEF Complete, Enqueue, TimePasses, InOnePlace
<1>6. ASSUME NEW b \in BOOLEAN, SetPaused(b) \/ SetAuto(b) PROVE Effect
  BY <1>6 DEF SetPaused, SetAuto
<1> QED
  BY <1>1, <1>2, <1>3, <1>4, <1>5, <1>6 DEF OneLock, Drain, Environment

-----------------------------------------------------------------------------
(***************************************************************************)
(* The invariant that needs no assumption.                                 *)
(***************************************************************************)

\* The trail grows by edits only; each adds what the request read and wrote.
LEMMA StepReviewTypeOK ==
  ASSUME ReviewInv, [ReviewNext]_allVars
  PROVE  ReviewTypeOK'
<1> USE OperatorReviewAssumption DEF OperatorReviewAssumption
<1>0. TypeOK'
  BY BufferKept DEF BufferInv
<1> DEFINE Typed ==
      /\ at \in [Operators -> {"idle", "edit", "vet", "write", "force"}]
      /\ target \in [Operators -> Entries \cup {NoEntry}]
      /\ read \in [Operators -> Contents \cup {NoText}]
      /\ text \in [Operators -> Contents \cup {NoText}]
      /\ trail \in [Entries -> Seq([was : Contents, now : Contents])]
      /\ vetted \subseteq Entries \X Contents
      /\ seen \in [Operators -> Nat \cup {Away}]
      /\ overtaken \subseteq Entries
<1>1. Typed
  BY DEF ReviewInv, ReviewTypeOK
<1>2. ASSUME NEW o \in Operators, Review(o) PROVE Typed'
  <2>0. /\ InHand(o)
        /\ \A e \in Entries : payload[e].content \in Contents
        /\ handed \subseteq Entries
        /\ \A e \in Entries : Len(trail[e]) \in Nat
    <3>1. \A e \in Entries : Len(trail[e]) \in Nat
      BY <1>1
    <3> QED
      BY <3>1 DEF ReviewInv, BufferInv, TypeOK, Payloads
  <2> USE <2>0 DEF Reply, InHand
  <2>1. ASSUME NEW e \in Entries, NEW c \in Contents, BeginEdit(o, e, c)
        PROVE  Typed'
    BY <1>1, <2>1 DEF BeginEdit
  <2>2. ASSUME RefuseEdit(o) PROVE Typed'
    BY <1>1, <2>2 DEF RefuseEdit
  <2>3. ASSUME FinishEdit(o) PROVE Typed'
    <3>1. at[o] = "edit" /\ Reply(o) /\ UNCHANGED vetted /\ overtaken' \subseteq overtaken
      BY <2>3 DEF FinishEdit, Edited
    <3>2. target[o] \in Entries /\ [was |-> read[o], now |-> text[o]]
                                      \in [was : Contents, now : Contents]
      BY <3>1
    <3>3. trail' = [trail EXCEPT ![target[o]] =
                      Append(@, [was |-> read[o], now |-> text[o]])]
      BY <2>3 DEF FinishEdit, Edited
    <3>4. trail' \in [Entries -> Seq([was : Contents, now : Contents])]
      <4> HIDE DEF Reply, InHand
      <4> DEFINE Edit == [was : Contents, now : Contents]
                 entry == [was |-> read[o], now |-> text[o]]
      <4>1. entry \in Edit /\ trail \in [Entries -> Seq(Edit)]
        BY <1>1, <3>2
      <4>2. trail' = [trail EXCEPT ![target[o]] = Append(@, entry)]
        BY <3>3
      <4> HIDE DEF Edit, entry
      <4>3. trail' \in [Entries -> Seq(Edit)]
        BY <3>2, <4>1, <4>2
      <4> QED
        BY <4>3 DEF Edit
    <3> QED
      BY <1>1, <3>1, <3>4
  <2>4. ASSUME NEW e \in Entries, BeginRelease(o, e) PROVE Typed'
    <3>1. CASE Pipeline /\ e \in pending
      <4>1. seen' = [seen EXCEPT ![o] = Len(trail[e])] /\ Len(trail[e]) \in Nat \cup {Away}
        BY <2>4, <3>1 DEF BeginRelease
      <4>2. seen' \in [Operators -> Nat \cup {Away}]
        BY <1>1, <4>1
      <4> QED
        BY <1>1, <2>4, <3>1, <4>2 DEF BeginRelease
    <3>2. CASE ~(Pipeline /\ e \in pending)
      BY <1>1, <2>4, <3>2 DEF BeginRelease
    <3> QED
      BY <3>1, <3>2
  <2>5. ASSUME Vet(o) PROVE Typed'
    <3>1. vetted' \subseteq Entries \X Contents
      BY <1>1, <2>5 DEF Vet
    <3>2. CASE Reply(o)
      BY <1>1, <2>5, <3>1, <3>2 DEF Vet
    <3>3. CASE UNCHANGED <<target, read, text, seen>> /\ at' = [at EXCEPT ![o] =
                 IF Rewrite[read[o]] = read[o] THEN "force" ELSE "write"]
      BY <1>1, <2>5, <3>1, <3>3 DEF Vet
    <3> QED
      BY <2>5, <3>2, <3>3 DEF Vet
  <2>6. ASSUME WriteRewrite(o) PROVE Typed'
    BY <1>1, <2>6 DEF WriteRewrite
  <2>7. ASSUME ForceOut(o) PROVE Typed'
    BY <1>1, <2>7 DEF ForceOut
  <2> QED
    BY <1>2, <2>1, <2>2, <2>3, <2>4, <2>5, <2>6, <2>7 DEF Review
<1>3. CASE UNCHANGED review
  BY <1>0, <1>1, <1>3 DEF review, requests, ReviewTypeOK
<1> QED
  BY <1>0, <1>2, <1>3 DEF ReviewNext, allVars, ReviewTypeOK

\* A request that ends knows nothing; one in progress keeps what it knows.
LEMMA StepInHand ==
  ASSUME ReviewInv, [ReviewNext]_allVars, NEW p \in Operators
  PROVE  InHand(p)'
<1> USE DEF ReviewInv
<1>0. /\ InHand(p)
      /\ at \in [Operators -> {"idle", "edit", "vet", "write", "force"}]
      /\ target \in [Operators -> Entries \cup {NoEntry}]
      /\ read \in [Operators -> Contents \cup {NoText}]
      /\ text \in [Operators -> Contents \cup {NoText}]
  BY DEF ReviewTypeOK
<1>1. ASSUME NEW o \in Operators, Review(o) PROVE InHand(p)'
  <2>0. handed' = handed /\ arriving' = arriving
    BY <1>1 DEF Review, BeginEdit, RefuseEdit, FinishEdit, Edited, EditPayload,
         BeginRelease, Vet, WriteRewrite, UpdatePayload, ForceOut, ForceRelease,
         vars, queue
  <2>1. ASSUME NEW e \in Entries, NEW c \in Contents, BeginEdit(o, e, c)
        PROVE  InHand(p)'
    <3>1. e \in handed \ arriving /\ payload[e].content \in Contents
      BY <2>1 DEF BeginEdit, BufferInv, InOnePlace, Held, TypeOK, Payloads
    <3> QED
      BY <1>0, <2>0, <2>1, <3>1 DEF BeginEdit, InHand
  <2>2. ASSUME RefuseEdit(o) \/ FinishEdit(o) \/ ForceOut(o) PROVE InHand(p)'
    <3>1. Reply(o)
      BY <2>2 DEF RefuseEdit, FinishEdit, Edited, ForceOut
    <3> QED
      BY <1>0, <2>0, <3>1 DEF Reply, InHand
  <2>3. ASSUME NEW e \in Entries, BeginRelease(o, e) PROVE InHand(p)'
    <3>1. payload[e].content \in Contents
      BY DEF BufferInv, TypeOK, Payloads
    <3> QED
      BY <1>0, <2>0, <2>3, <3>1 DEF BeginRelease, InHand
  <2>4. ASSUME Vet(o) PROVE InHand(p)'
    BY <1>0, <2>0, <2>4 DEF Vet, Reply, InHand
  <2>5. ASSUME WriteRewrite(o) PROVE InHand(p)'
    BY <1>0, <2>0, <2>5 DEF WriteRewrite, InHand
  <2> QED
    BY <1>1, <2>1, <2>2, <2>3, <2>4, <2>5 DEF Review
<1>2. CASE (OneLock \/ Drain \/ Environment) /\ UNCHANGED review
  BY <1>2, BufferEffect DEF review, requests, InHand
<1>3. CASE UNCHANGED allVars
  BY <1>3 DEF allVars, review, requests, vars, queue, InHand
<1> QED
  BY <1>1, <1>2, <1>3 DEF ReviewNext

\* The inductive invariant holds throughout.
LEMMA ReviewInvariant == ReviewSpec => []ReviewInv
<1>1. ReviewInit => ReviewInv
  <2> SUFFICES ASSUME ReviewInit PROVE ReviewInv
    OBVIOUS
  <2>1. BufferInv
    BY InitTypeOK
    DEF ReviewInit, BufferInv, Init, InOnePlace, BatchIsReleasable, Held, Out
  <2>2. trail \in [Entries -> Seq([was : Contents, now : Contents])]
    BY DEF ReviewInit
  <2> QED
    BY <2>1, <2>2 DEF ReviewInit, ReviewInv, ReviewTypeOK, InHand, BufferInv
<1>2. ReviewInv /\ [ReviewNext]_allVars => ReviewInv'
  BY BufferKept, StepReviewTypeOK, StepInHand DEF ReviewInv
<1> QED
  BY <1>1, <1>2, PTL DEF ReviewSpec

\* The state of the buffer, of every request and of the audit trail is well
\* typed, for any number of overlapping requests.
THEOREM ReviewTypeCorrect == ReviewSpec => []ReviewTypeOK
  BY ReviewInvariant, PTL DEF ReviewInv

\* Under review too, over edits and rewritten releases that overlap, no
\* response is lost, doubled or published after a rejection.
THEOREM ReviewConserves == ReviewSpec => []InOnePlace
  BY ReviewInvariant, PTL DEF ReviewInv, BufferInv

\* The write-back of a rewrite is a revision of a held response.
LEMMA RewriteRefines ==
  ASSUME BufferInv, NEW e \in Entries, NEW c \in Contents, UpdatePayload(e, c)
  PROVE  Promise!Revise(e)
<1> USE DEF BufferInv, UpdatePayload, queue, outcome
<1>1. Held' = Held /\ Out' = Out /\ rejected' = rejected /\ e \in Held
  BY DEF Held, Out
<1>2. Phase[e] = "held" /\ Phase' = Phase
  BY <1>1, PhaseOfPlace, SamePlaces
<1>3. payload' = [payload EXCEPT ![e] = payload'[e]] /\ payload'[e] \in Payloads
  BY DEF TypeOK, Payloads
<1> QED
  BY <1>2, <1>3 DEF Promise!Revise

\* With the handlers' reads and writes apart, any number of them overlapping,
\* the buffer still does only what HeldResponse allows.
THEOREM ReviewImplements == ReviewSpec => KeepsPromise
<1>1. ReviewInit => Promise!Init
  BY InitRefines DEF ReviewInit
<1>2. ReviewInv /\ ReviewInv' /\ [ReviewNext]_allVars => [Promise!Next]_(Promise!vars)
  <2> SUFFICES ASSUME ReviewInv, ReviewInv', [ReviewNext]_allVars
               PROVE  [Promise!Next]_(Promise!vars)
    OBVIOUS
  <2>1. CASE [Next]_vars
    BY <2>1, StepRefines DEF ReviewInv
  <2>2. CASE \E e \in Entries, c \in Contents : UpdatePayload(e, c)
    BY <2>2, RewriteRefines DEF ReviewInv, Promise!Next
  <2> QED
    BY <2>1, <2>2, ReviewStep
<1> QED
  BY <1>1, <1>2, ReviewInvariant, PTL DEF ReviewSpec, KeepsPromise, Promise!Spec

-----------------------------------------------------------------------------
(***************************************************************************)
(* What a request changes.                                                 *)
(***************************************************************************)

SameContents == \A e \in Entries : payload'[e].content = payload[e].content

\* Entry e says c, and every other entry what it said.
NowSays(e, c) ==
  \A f \in Entries : payload'[f].content = IF f = e THEN c ELSE payload[f].content

Rewrites(o) ==
  /\ at[o] = "write" /\ target[o] \in pending
  /\ NowSays(target[o], Rewrite[read[o]])
  /\ trail' = trail
  /\ overtaken' = IF seen[o] < Len(trail[target[o]])
                  THEN overtaken \cup {target[o]} ELSE overtaken

Edits(o) ==
  /\ at[o] = "edit" /\ target[o] \in pending
  /\ \E c \in Forms(text[o]) : NowSays(target[o], c)
  /\ trail' = [trail EXCEPT ![target[o]] = Append(@, [was |-> read[o], now |-> text[o]])]
  /\ overtaken' = overtaken \ {target[o]}

\* A request's step publishes nothing and moves no entry; it changes contents
\* by writing a rewrite or an edit back, and nothing else.
LEMMA RequestEffect ==
  ASSUME ReviewInv, NEW o \in Operators, Review(o)
  PROVE  /\ UNCHANGED <<published, sentAs, pending>>
         /\ \/ SameContents /\ UNCHANGED <<trail, overtaken>>
            \/ Rewrites(o)
            \/ Edits(o)
<1> USE OperatorReviewAssumption DEF OperatorReviewAssumption, queue, outcome
<1>0. payload \in [Entries -> Payloads] /\ (at[o] # "idle" => target[o] \in Entries)
  BY DEF ReviewInv, BufferInv, TypeOK, InHand
<1>1. UNCHANGED <<published, sentAs, pending>>
  BY DEF Review, BeginEdit, RefuseEdit, FinishEdit, Edited, EditPayload, BeginRelease,
         Vet, WriteRewrite, UpdatePayload, ForceOut, ForceRelease, vars
<1>2. CASE payload' = payload /\ UNCHANGED <<trail, overtaken>>
  BY <1>1, <1>2 DEF SameContents
<1>3. ASSUME FinishEdit(o) PROVE Edits(o)
  <2>1. PICK c \in Forms(text[o]) : Edited(o, read[o], c)
    BY <1>3 DEF FinishEdit
  <2>2. at[o] = "edit" /\ target[o] \in pending
    BY <2>1 DEF Edited, EditPayload
  <2>3. NowSays(target[o], c)
    BY <1>0, <2>1, <2>2 DEF Edited, EditPayload, NowSays
  <2> QED
    BY <2>1, <2>2, <2>3 DEF Edited, Edits
<1>4. ASSUME WriteRewrite(o), target[o] \in pending PROVE Rewrites(o)
  <2>1. /\ UpdatePayload(target[o], Rewrite[read[o]]) /\ at[o] = "write" /\ trail' = trail
        /\ overtaken' = IF seen[o] < Len(trail[target[o]])
                        THEN overtaken \cup {target[o]} ELSE overtaken
    BY <1>4 DEF WriteRewrite
  <2>2. NowSays(target[o], Rewrite[read[o]])
    BY <1>0, <2>1 DEF UpdatePayload, NowSays, Payloads
  <2> QED
    BY <1>4, <2>1, <2>2 DEF Rewrites
<1>5. CASE \/ \E e \in Entries, c \in Contents : BeginEdit(o, e, c)
           \/ \E e \in Entries : BeginRelease(o, e)
           \/ RefuseEdit(o) \/ Vet(o) \/ ForceOut(o)
           \/ WriteRewrite(o) /\ target[o] \notin pending
  <2>1. payload' = payload /\ UNCHANGED <<trail, overtaken>>
    BY <1>5 DEF BeginEdit, BeginRelease, RefuseEdit, Vet, ForceOut, ForceRelease,
                WriteRewrite, UpdatePayload, vars
  <2> QED
    BY <1>2, <2>1
<1> QED
  BY <1>1, <1>3, <1>4, <1>5 DEF Review

\* Another request does not change what request p knows.
LEMMA OthersStayAway ==
  ASSUME ReviewInv, NEW p \in Operators, NEW o \in Operators \ {p}, Review(o)
  PROVE  /\ at'[p] = at[p] /\ target'[p] = target[p] /\ read'[p] = read[p]
         /\ seen'[p] = seen[p] /\ vetted \subseteq vetted'
<1>1. at'[p] = at[p] /\ target'[p] = target[p] /\ read'[p] = read[p] /\ seen'[p] = seen[p]
  BY DEF Review, BeginEdit, RefuseEdit, FinishEdit, Edited, BeginRelease, Vet,
         WriteRewrite, ForceOut, Reply, ReviewInv, ReviewTypeOK
<1>2. vetted \subseteq vetted'
  BY DEF Review, BeginEdit, RefuseEdit, FinishEdit, Edited, BeginRelease, Vet,
         WriteRewrite, ForceOut
<1> QED
  BY <1>1, <1>2

\* The number of edits of an entry is a number, which an edit of it raises.
LEMMA EditsAreCounted ==
  ASSUME ReviewInv, NEW e \in Entries
  PROVE  /\ Len(trail[e]) \in Nat
         /\ \A o \in Operators :
               Edits(o) => Len(trail'[e]) = IF e = target[o] THEN Len(trail[e]) + 1
                                            ELSE Len(trail[e])
<1> DEFINE Edit == [was : Contents, now : Contents]
<1>1. trail \in [Entries -> Seq(Edit)]
  BY DEF ReviewInv, ReviewTypeOK
<1>2. ASSUME NEW o \in Operators, Edits(o)
      PROVE  Len(trail'[e]) = IF e = target[o] THEN Len(trail[e]) + 1 ELSE Len(trail[e])
  <2> DEFINE entry == [was |-> read[o], now |-> text[o]]
  <2>1. entry \in Edit /\ trail' = [trail EXCEPT ![target[o]] = Append(@, entry)]
    BY <1>2 DEF Edits, ReviewInv, InHand
  <2> HIDE DEF Edit, entry
  <2> QED
    BY <1>1, <2>1
<1> HIDE DEF Edit
<1> QED
  BY <1>1, <1>2

\* Edits are only added, so a release that looked has seen no more than there are.
LEMMA StepSeenBefore ==
  ASSUME ReviewInv, \A o \in Operators : SeenBefore(o), [ReviewNext]_allVars,
         NEW p \in Operators
  PROVE  SeenBefore(p)'
<1>0. /\ at \in [Operators -> {"idle", "edit", "vet", "write", "force"}]
      /\ target \in [Operators -> Entries \cup {NoEntry}]
      /\ seen \in [Operators -> Nat \cup {Away}]
      /\ at[p] # "idle" => target[p] \in Entries
      /\ SeenBefore(p)
  BY DEF ReviewInv, InHand, BufferInv, TypeOK, ReviewTypeOK
<1>1. ASSUME Review(p) PROVE SeenBefore(p)'
  <2>1. ASSUME NEW e \in Entries, NEW c \in Contents, BeginEdit(p, e, c)
        PROVE  SeenBefore(p)'
    BY <1>0, <2>1 DEF BeginEdit, SeenBefore
  <2>2. ASSUME RefuseEdit(p) \/ FinishEdit(p) \/ ForceOut(p) PROVE SeenBefore(p)'
    BY <1>0, <2>2 DEF RefuseEdit, FinishEdit, Edited, ForceOut, Reply, SeenBefore
  <2>3. ASSUME NEW e \in Entries, BeginRelease(p, e) PROVE SeenBefore(p)'
    <3>1. seen'[p] \in {Len(trail[e]), Away} /\ target'[p] = e /\ trail' = trail
      BY <1>0, <2>3 DEF BeginRelease
    <3>2. Len(trail[e]) \in Nat
      BY EditsAreCounted
    <3> QED
      BY <3>1, <3>2 DEF SeenBefore, Away
  <2>4. ASSUME Vet(p) PROVE SeenBefore(p)'
    BY <1>0, <2>4 DEF Vet, Reply, SeenBefore
  <2>5. ASSUME WriteRewrite(p) PROVE SeenBefore(p)'
    <3>1. at[p] = "write" /\ UNCHANGED <<target, trail>> /\ seen'[p] \in {seen[p], Away}
      BY <1>0, <2>5 DEF WriteRewrite
    <3>2. Len(trail[target[p]]) \in Nat
      BY <1>0, <3>1, EditsAreCounted
    <3> QED
      BY <1>0, <3>1, <3>2 DEF SeenBefore, Away
  <2> QED
    BY <1>1, <2>1, <2>2, <2>3, <2>4, <2>5 DEF Review
<1>2. ASSUME NEW o \in Operators \ {p}, Review(o) PROVE SeenBefore(p)'
  <2>1. at'[p] = at[p] /\ target'[p] = target[p] /\ seen'[p] = seen[p]
    BY <1>2, OthersStayAway
  <2>2. CASE trail' = trail
    BY <1>0, <2>1, <2>2 DEF SeenBefore
  <2>3. CASE Edits(o) /\ at[p] # "idle"
    <3>1. Len(trail[target[p]]) \in Nat /\ Len(trail'[target[p]]) >= Len(trail[target[p]])
      BY <1>0, <2>3, EditsAreCounted
    <3>2. seen[p] \in Int
      BY <1>0 DEF Away
    <3> QED
      BY <1>0, <2>1, <3>1, <3>2 DEF SeenBefore
  <2>4. CASE at[p] = "idle"
    BY <2>1, <2>4 DEF SeenBefore
  <2> QED
    BY <1>2, <2>2, <2>3, <2>4, RequestEffect DEF Rewrites
<1>3. CASE UNCHANGED review
  BY <1>0, <1>3 DEF review, requests, SeenBefore
<1> QED
  BY <1>1, <1>2, <1>3 DEF ReviewNext, allVars

LEMMA SeenBeforeInvariant == ReviewSpec => [](\A o \in Operators : SeenBefore(o))
<1>1. ReviewInit => \A o \in Operators : SeenBefore(o)
  BY DEF ReviewInit, SeenBefore
<1>2. /\ ReviewInv /\ (\A o \in Operators : SeenBefore(o)) /\ [ReviewNext]_allVars
      => (\A o \in Operators : SeenBefore(o))'
  BY StepSeenBefore
<1> QED
  BY <1>1, <1>2, ReviewInvariant, PTL DEF ReviewSpec

-----------------------------------------------------------------------------
(***************************************************************************)
(* The latest edit is what is published.                                   *)
(***************************************************************************)

\* An accepted edit becomes the latest of its entry, and of no other.
LEMMA LatestAfterEdit ==
  ASSUME ReviewInv, NEW o \in Operators, Edits(o), NEW e \in Entries
  PROVE  Latest(e)' = IF e = target[o] THEN text[o] ELSE Latest(e)
<1> DEFINE Edit == [was : Contents, now : Contents]
           entry == [was |-> read[o], now |-> text[o]]
<1>1. entry \in Edit /\ entry.now = text[o] /\ trail \in [Entries -> Seq(Edit)]
  BY DEF ReviewInv, InHand, ReviewTypeOK, Edits
<1>2. target[o] \in Entries /\ trail' = [trail EXCEPT ![target[o]] = Append(@, entry)]
  BY DEF Edits, ReviewInv, BufferInv, TypeOK
<1> HIDE DEF Edit, entry
<1>3. CASE e = target[o]
  <2>1. trail[e] \in Seq(Edit) /\ trail'[e] = Append(trail[e], entry)
    BY <1>1, <1>2, <1>3
  <2>2. Len(trail'[e]) = Len(trail[e]) + 1 /\ trail'[e][Len(trail'[e])] = entry
    BY <1>1, <2>1
  <2>3. trail'[e] # <<>>
    BY <1>1, <2>1, <2>2
  <2> QED
    BY <1>1, <1>3, <2>2, <2>3 DEF Latest
<1>4. CASE e # target[o]
  BY <1>1, <1>2, <1>4 DEF Latest
<1> QED
  BY <1>3, <1>4

\* The latest edit of an entry, and the agent's draft, are contents.
LEMMA LatestIsContent ==
  ASSUME ReviewInv, NEW e \in Entries
  PROVE  Latest(e) \in Contents
<1> DEFINE Edit == [was : Contents, now : Contents]
<1>1. trail[e] \in Seq(Edit)
  BY DEF ReviewInv, ReviewTypeOK
<1>2. ASSUME trail[e] # <<>> PROVE trail[e][Len(trail[e])] \in Edit
  <2> HIDE DEF Edit
  <2>1. Len(trail[e]) \in 1..Len(trail[e])
    BY <1>1, <1>2
  <2> QED
    BY <1>1, <2>1
<1> QED
  BY <1>2, ResponseBufferAssumption DEF Latest, ResponseBufferAssumption

\* Every entry says the latest edit, or what the middleware made of it, but for
\* those that a release has overtaken.
ContentIsLatest ==
  \A e \in Entries \ overtaken : payload[e].content \in Forms(Latest(e))

\* So does what a release has read, until an edit is accepted.
ReadIsLatest(o) ==
  at[o] \in {"vet", "write"} /\ seen[o] >= Len(trail[target[o]]) /\ target[o] \notin overtaken
    => read[o] \in Forms(Latest(target[o]))

\* A release that writes back what it read overtakes the edits it has not seen;
\* an edit is the latest text, whatever was overtaken before.
LEMMA StepContentIsLatest ==
  ASSUME \A o \in Operators : ReadIsLatest(o), Settles, ReviewInv, ContentIsLatest,
         \A o \in Operators : SeenBefore(o), [ReviewNext]_allVars
  PROVE  ContentIsLatest'
<1> USE OperatorReviewAssumption DEF OperatorReviewAssumption
<1>1. ASSUME SameContents, UNCHANGED <<trail, overtaken>> PROVE ContentIsLatest'
  BY <1>1 DEF SameContents, ContentIsLatest, Forms, Latest
<1>2. ASSUME NEW o \in Operators, Rewrites(o) PROVE ContentIsLatest'
  <2> DEFINE t == target[o]
  <2>1. Pipeline /\ at[o] = "write" /\ t \in Entries /\ trail' = trail
    BY <1>2 DEF Rewrites, ReviewInv, InHand, BufferInv, TypeOK
  <2>2. ASSUME t \notin overtaken' PROVE Rewrite[read[o]] \in Forms(Latest(t))
    <3>1. ~(seen[o] < Len(trail[t])) /\ t \notin overtaken
      BY <1>2, <2>2 DEF Rewrites
    <3>2. seen[o] \in Int /\ Len(trail[t]) \in Nat
      BY <2>1, EditsAreCounted DEF ReviewInv, ReviewTypeOK, Away
    <3>3. read[o] \in Forms(Latest(t)) /\ Latest(t) \in Contents
      BY <2>1, <3>1, <3>2, LatestIsContent DEF ReadIsLatest
    <3> QED
      BY <2>1, <3>3 DEF Forms, Settles
  <2>3. overtaken \subseteq overtaken'
    BY <1>2 DEF Rewrites
  <2>4. ASSUME NEW e \in Entries \ overtaken' PROVE payload'[e].content \in Forms(Latest(e))
    BY <1>2, <2>2, <2>3, <2>4 DEF Rewrites, NowSays, ContentIsLatest
  <2> QED
    BY <2>1, <2>4 DEF ContentIsLatest, Forms, Latest
<1>3. ASSUME NEW o \in Operators, Edits(o) PROVE ContentIsLatest'
  <2>1. PICK c \in Forms(text[o]) : NowSays(target[o], c)
    BY <1>3 DEF Edits
  <2>2. ASSUME NEW e \in Entries \ overtaken' PROVE payload'[e].content \in Forms(Latest(e)')
    <3>1. Latest(e)' = IF e = target[o] THEN text[o] ELSE Latest(e)
      BY <1>3, LatestAfterEdit
    <3>2. e # target[o] => e \notin overtaken
      BY <1>3, <2>2 DEF Edits
    <3> QED
      BY <2>1, <3>1, <3>2 DEF NowSays, ContentIsLatest
  <2>3. ASSUME NEW e \in Entries PROVE Forms(Latest(e)') = Forms(Latest(e))'
    BY DEF Forms
  <2> QED
    BY <2>2, <2>3 DEF ContentIsLatest
<1>4. CASE (OneLock \/ Drain \/ Environment) /\ UNCHANGED review
  BY <1>1, <1>4, BufferEffect DEF ReviewInv, review, SameContents
<1>5. CASE UNCHANGED allVars
  BY <1>1, <1>5 DEF allVars, vars, review, SameContents
<1> QED
  BY <1>1, <1>2, <1>3, <1>4, <1>5, RequestEffect DEF ReviewNext

\* What a release reads is what the entry says, and until an edit is accepted the
\* latest edit stays what it is.
LEMMA StepReadIsLatest ==
  ASSUME ReviewInv, ContentIsLatest, \A o \in Operators : SeenBefore(o),
         [ReviewNext]_allVars, NEW p \in Operators, ReadIsLatest(p)
  PROVE  ReadIsLatest(p)'
<1>0. /\ at \in [Operators -> {"idle", "edit", "vet", "write", "force"}]
      /\ target \in [Operators -> Entries \cup {NoEntry}]
      /\ read \in [Operators -> Contents \cup {NoText}]
      /\ seen \in [Operators -> Nat \cup {Away}]
      /\ at[p] # "idle" => target[p] \in Entries
      /\ SeenBefore(p)
  BY DEF ReviewInv, InHand, BufferInv, TypeOK, ReviewTypeOK
<1>1. ASSUME Review(p) PROVE ReadIsLatest(p)'
  <2>1. ASSUME NEW e \in Entries, NEW c \in Contents, BeginEdit(p, e, c)
        PROVE  at'[p] = "edit"
    BY <1>0, <2>1 DEF BeginEdit
  <2>2. ASSUME RefuseEdit(p) \/ FinishEdit(p) \/ ForceOut(p) PROVE at'[p] = "idle"
    BY <1>0, <2>2 DEF RefuseEdit, FinishEdit, Edited, ForceOut, Reply
  <2>3. ASSUME NEW e \in Entries, BeginRelease(p, e) PROVE ReadIsLatest(p)'
    <3>1. /\ UNCHANGED <<trail, overtaken>> /\ target'[p] = e
          /\ \/ at'[p] = "vet" /\ read'[p] = payload[e].content
             \/ at'[p] = "force"
      BY <1>0, <2>3 DEF BeginRelease
    <3> QED
      BY <3>1 DEF ReadIsLatest, ContentIsLatest, Forms, Latest
  <2>4. ASSUME Vet(p) PROVE ReadIsLatest(p)'
    <3>1. \/ at'[p] = "idle"
          \/ at[p] = "vet" /\ UNCHANGED <<target, read, seen, trail, overtaken>>
      BY <1>0, <2>4 DEF Vet, Reply
    <3> QED
      BY <3>1 DEF ReadIsLatest, Forms, Latest
  <2>5. ASSUME WriteRewrite(p) PROVE at'[p] = "force"
    BY <1>0, <2>5 DEF WriteRewrite
  <2> QED
    BY <1>1, <2>1, <2>2, <2>3, <2>4, <2>5 DEF Review, ReadIsLatest
<1>2. ASSUME NEW o \in Operators \ {p}, Review(o) PROVE ReadIsLatest(p)'
  <2>1. at'[p] = at[p] /\ target'[p] = target[p] /\ read'[p] = read[p] /\ seen'[p] = seen[p]
    BY <1>2, OthersStayAway
  <2>2. CASE trail' = trail /\ overtaken \subseteq overtaken'
    BY <2>1, <2>2 DEF ReadIsLatest, Forms, Latest
  <2>3. CASE Edits(o) /\ at[p] \in {"vet", "write"}
    <3>1. target[p] \in Entries /\ seen[p] \in Int /\ seen[p] <= Len(trail[target[p]])
      BY <1>0, <2>3 DEF SeenBefore, Away
    <3>2. CASE target[p] = target[o]
      <4>1. Len(trail'[target[p]]) = Len(trail[target[p]]) + 1 /\ Len(trail[target[p]]) \in Nat
        BY <2>3, <3>1, <3>2, EditsAreCounted
      <4>2. ~(seen[p] >= Len(trail'[target[p]]))
        BY <3>1, <4>1
      <4> QED
        BY <2>1, <4>2 DEF ReadIsLatest
    <3>3. CASE target[p] # target[o]
      <4>1. PICK t \in Entries : target[p] = t
        BY <3>1
      <4>2. Latest(t)' = Latest(t)
        BY <2>3, <3>3, <4>1, LatestAfterEdit
      <4>3. Len(trail'[t]) = Len(trail[t]) /\ (t \notin overtaken' => t \notin overtaken)
        BY <2>3, <3>3, <4>1, EditsAreCounted DEF Edits
      <4>4. at[p] \in {"vet", "write"} /\ seen[p] >= Len(trail[t]) /\ t \notin overtaken
              => read[p] \in Forms(Latest(t))
        BY <4>1 DEF ReadIsLatest
      <4>5. at[p] \in {"vet", "write"} /\ seen[p] >= Len(trail'[t]) /\ t \notin overtaken'
              => read[p] \in Forms(Latest(t)')
        BY <4>2, <4>3, <4>4
      <4>6. Forms(Latest(t)') = Forms(Latest(target[p]))'
        BY <2>1, <4>1 DEF Forms, Latest
      <4> QED
        BY <2>1, <4>1, <4>5, <4>6 DEF ReadIsLatest
    <3> QED
      BY <3>2, <3>3
  <2>4. CASE at[p] \notin {"vet", "write"}
    BY <2>1, <2>4 DEF ReadIsLatest
  <2> QED
    BY <1>2, <2>2, <2>3, <2>4, RequestEffect DEF Rewrites
<1>3. CASE UNCHANGED review
  BY <1>3 DEF review, requests, ReadIsLatest, Forms, Latest
<1> QED
  BY <1>1, <1>2, <1>3 DEF ReviewNext, allVars

\* An entry goes out as it stands, and nothing changes its trail afterwards.
LEMMA StepLatestEditPublished ==
  ASSUME ReviewInv, ContentIsLatest, LatestEditPublished, [ReviewNext]_allVars
  PROVE  LatestEditPublished'
<1>1. ASSUME UNCHANGED <<published, sentAs, trail>>, overtaken \subseteq overtaken'
      PROVE  LatestEditPublished'
  BY <1>1 DEF LatestEditPublished, Out, Forms, Latest
<1>2. ASSUME NEW o \in Operators, Review(o) PROVE LatestEditPublished'
  <2>1. UNCHANGED <<published, sentAs, pending>> /\ Out' = Out
    BY <1>2, RequestEffect DEF Out
  <2>2. CASE trail' = trail /\ overtaken \subseteq overtaken'
    BY <1>1, <2>1, <2>2
  <2>3. ASSUME Edits(o), NEW e \in Out \ overtaken'
        PROVE  sentAs'[e].content \in Forms(Latest(e)')
    <3>1. e \in Entries /\ e # target[o] /\ e \notin overtaken
      BY <2>3 DEF Edits, ReviewInv, BufferInv, InOnePlace, Held, Out
    <3>2. Latest(e)' = Latest(e)
      BY <2>3, <3>1, LatestAfterEdit
    <3>3. e \in Out \ overtaken /\ sentAs'[e] = sentAs[e]
      BY <2>1, <2>3, <3>1
    <3> QED
      BY <3>2, <3>3 DEF LatestEditPublished
  <2>4. ASSUME NEW e \in Entries PROVE Forms(Latest(e)') = Forms(Latest(e))'
    BY DEF Forms
  <2>5. ASSUME Edits(o) PROVE LatestEditPublished'
    BY <2>1, <2>3, <2>4, <2>5 DEF LatestEditPublished, Out
  <2>6. overtaken \subseteq overtaken' \/ Edits(o)
    BY <1>2, RequestEffect DEF Rewrites
  <2> QED
    BY <1>2, <2>2, <2>5, <2>6, RequestEffect DEF Rewrites
<1>3. CASE (OneLock \/ Drain \/ Environment) /\ UNCHANGED review
  <2>1. \A e \in Out' : \/ e \in Out /\ sentAs'[e] = sentAs[e]
                        \/ e \in Entries /\ sentAs'[e] = payload[e]
    BY <1>3, BufferEffect DEF ReviewInv
  <2>2. \A e \in Out' \ overtaken : sentAs'[e].content \in Forms(Latest(e))
    BY <2>1 DEF LatestEditPublished, ContentIsLatest
  <2> QED
    BY <1>3, <2>2 DEF LatestEditPublished, Forms, Latest, review
<1>4. CASE UNCHANGED allVars
  BY <1>1, <1>4 DEF allVars, vars, outcome, review
<1> QED
  BY <1>2, <1>3, <1>4 DEF ReviewNext

\* What is published is the latest edit that was accepted, or what the
\* middleware made of it, however requests overlap, but for the entries that a
\* release has overtaken.
THEOREM LatestEditGoesOut ==
  ASSUME Settles
  PROVE  ReviewSpec => []LatestEditPublished
<1> DEFINE Reads == \A o \in Operators : ReadIsLatest(o)
           Inv == Reads /\ ContentIsLatest /\ LatestEditPublished
<1>1. ReviewInit => Inv
  BY DEF ReviewInit, Init, ReadIsLatest, ContentIsLatest, LatestEditPublished, Out,
         Forms, Latest
<1>2. /\ ReviewInv /\ (\A o \in Operators : SeenBefore(o)) /\ Inv /\ [ReviewNext]_allVars
      => Inv'
  BY StepReadIsLatest, StepContentIsLatest, StepLatestEditPublished
<1> QED
  BY <1>1, <1>2, ReviewInvariant, SeenBeforeInvariant, PTL DEF ReviewSpec

\* Only the write-back of a rewriting middleware overtakes an edit: without one
\* the latest edit is published, whatever overlaps.
LEMMA NothingOvertaken ==
  ASSUME ~Pipeline
  PROVE  ReviewSpec => [](overtaken = {})
<1> DEFINE None == overtaken = {}
<1>1. ReviewInit => None
  BY DEF ReviewInit
<1>2. ReviewInv /\ None /\ [ReviewNext]_allVars => None'
  <2> SUFFICES ASSUME ReviewInv, overtaken = {}, [ReviewNext]_allVars
               PROVE  overtaken' = {}
    OBVIOUS
  <2>1. ASSUME NEW o \in Operators, Review(o) PROVE overtaken' = {}
    BY <2>1, RequestEffect DEF Rewrites, Edits, ReviewInv, InHand
  <2> QED
    BY <2>1 DEF ReviewNext, allVars, review
<1> QED
  BY <1>1, <1>2, ReviewInvariant, PTL DEF ReviewSpec

-----------------------------------------------------------------------------
(***************************************************************************)
(* The audit trail.                                                        *)
(***************************************************************************)

\* A content is derived from itself, and what the middleware makes of a derived
\* content is derived too.
LEMMA DerivedCloses ==
  ASSUME NEW c \in Contents
  PROVE  /\ c \in Derived(c)
         /\ \A d \in Derived(c) : Forms(d) \subseteq Derived(c)
<1> USE OperatorReviewAssumption DEF OperatorReviewAssumption
<1>1. c \in Derived(c)
  BY DEF Derived
<1>2. ASSUME NEW d \in Derived(c), NEW f \in Forms(d) PROVE f \in Derived(c)
  <2>1. d \in Contents /\ f \in Contents
    BY <1>2 DEF Derived, Forms
  <2>2. ASSUME NEW closed \in SUBSET Contents,
               c \in closed, \A x \in closed : Forms(x) \subseteq closed
        PROVE  f \in closed
    BY <1>2, <2>2 DEF Derived
  <2> QED
    BY <2>1, <2>2 DEF Derived
<1> QED
  BY <1>1, <1>2

\* The texts that entry e has had: of the draft, of an edit, or derived of one.
Known(e, edits) ==
  { d \in Contents : \/ d \in Derived(Draft)
                     \/ \E j \in 1..Len(edits) : d \in Derived(edits[j].now) }

ContentIsKnown == \A e \in Entries : payload[e].content \in Known(e, trail[e])
ReadIsKnown ==
  \A o \in Operators :
     at[o] \in {"edit", "vet", "write"} => read[o] \in Known(target[o], trail[target[o]])

\* Every edit keeps what was known and makes its own text known.
LEMMA KnownGrows ==
  ASSUME ReviewInv, NEW o \in Operators, Edits(o), NEW e \in Entries
  PROVE  /\ Known(e, trail[e]) \subseteq Known(e, trail'[e])
         /\ e = target[o] => Forms(text[o]) \subseteq Known(e, trail'[e])
<1> DEFINE Edit == [was : Contents, now : Contents]
           entry == [was |-> read[o], now |-> text[o]]
           n == Len(trail[e])
<1>0. text[o] \in Contents /\ Forms(text[o]) \subseteq Contents
  BY OperatorReviewAssumption DEF Edits, ReviewInv, InHand, Forms, OperatorReviewAssumption
<1>1. entry \in Edit /\ entry.now = text[o] /\ trail \in [Entries -> Seq(Edit)]
  BY DEF ReviewInv, InHand, ReviewTypeOK, Edits
<1>2. trail' = [trail EXCEPT ![target[o]] = Append(@, entry)]
  BY DEF Edits
<1>3. Forms(text[o]) \subseteq Derived(text[o])
  BY <1>0, DerivedCloses
<1> HIDE DEF Edit, entry
<1>4. CASE e = target[o]
  <2>1. /\ n \in Nat /\ Len(trail'[e]) = n + 1 /\ trail'[e][n + 1] = entry
        /\ \A i \in 1..n : trail'[e][i] = trail[e][i]
    <3>1. trail[e] \in Seq(Edit) /\ trail'[e] = Append(trail[e], entry)
      BY <1>1, <1>2, <1>4
    <3> QED
      BY <1>1, <3>1
  <2>2. 1..n \subseteq 1..Len(trail'[e]) /\ n + 1 \in 1..Len(trail'[e])
    BY <2>1
  <2>3. Known(e, trail[e]) \subseteq Known(e, trail'[e])
    BY <2>1, <2>2 DEF Known
  <2>4. Forms(text[o]) \subseteq Known(e, trail'[e])
    BY <1>0, <1>1, <1>3, <2>1, <2>2 DEF Known
  <2> QED
    BY <2>3, <2>4
<1>5. CASE e # target[o]
  BY <1>1, <1>2, <1>5
<1> QED
  BY <1>4, <1>5

\* What the middleware makes of a known text is known.
LEMMA KnownCloses ==
  ASSUME ReviewInv, NEW e \in Entries, NEW d \in Known(e, trail[e])
  PROVE  Forms(d) \subseteq Known(e, trail[e])
<1> DEFINE Edit == [was : Contents, now : Contents]
<1>1. trail[e] \in Seq(Edit) /\ Draft \in Contents
  BY ResponseBufferAssumption DEF ReviewInv, ReviewTypeOK, ResponseBufferAssumption
<1>2. \A j \in 1..Len(trail[e]) : trail[e][j].now \in Contents
  <2>1. \A j \in 1..Len(trail[e]) : trail[e][j] \in Edit
    <3> HIDE DEF Edit
    <3> QED
      BY <1>1
  <2> QED
    BY <2>1
<1>3. Forms(d) \subseteq Contents
  BY OperatorReviewAssumption DEF Known, Forms, OperatorReviewAssumption
<1>4. CASE d \in Derived(Draft)
  BY <1>1, <1>3, <1>4, DerivedCloses DEF Known
<1>5. ASSUME NEW j \in 1..Len(trail[e]), d \in Derived(trail[e][j].now)
      PROVE  Forms(d) \subseteq Known(e, trail[e])
  <2>1. Forms(d) \subseteq Derived(trail[e][j].now)
    BY <1>2, <1>5, DerivedCloses
  <2> QED
    BY <1>3, <1>5, <2>1 DEF Known
<1> QED
  BY <1>4, <1>5 DEF Known

\* Entries say known texts only.
LEMMA StepContentIsKnown ==
  ASSUME ReviewInv, ContentIsKnown, ReadIsKnown, [ReviewNext]_allVars
  PROVE  ContentIsKnown'
<1> USE OperatorReviewAssumption DEF OperatorReviewAssumption
<1>1. ASSUME SameContents, trail' = trail PROVE ContentIsKnown'
  BY <1>1 DEF SameContents, ContentIsKnown, Known, Derived, Forms
<1>2. ASSUME NEW o \in Operators, Rewrites(o), NEW e \in Entries
      PROVE  payload'[e].content \in Known(e, trail[e])
  <2>1. Pipeline /\ at[o] = "write" /\ target[o] \in Entries
    BY <1>2 DEF Rewrites, ReviewInv, InHand, BufferInv, TypeOK
  <2>2. Rewrite[read[o]] \in Forms(read[o]) /\ read[o] \in Known(target[o], trail[target[o]])
    BY <2>1 DEF Forms, ReadIsKnown
  <2>3. Rewrite[read[o]] \in Known(target[o], trail[target[o]])
    BY <2>1, <2>2, KnownCloses
  <2> QED
    BY <1>2, <2>1, <2>3 DEF Rewrites, NowSays, ContentIsKnown
<1>3. ASSUME NEW o \in Operators, Edits(o), NEW e \in Entries
      PROVE  payload'[e].content \in Known(e, trail'[e])
  <2>1. PICK c \in Forms(text[o]) : NowSays(target[o], c)
    BY <1>3 DEF Edits
  <2> QED
    BY <1>3, <2>1, KnownGrows DEF NowSays, ContentIsKnown
<1>4. CASE (OneLock \/ Drain \/ Environment) /\ UNCHANGED review
  BY <1>1, <1>4, BufferEffect DEF ReviewInv, review, SameContents
<1>5. CASE UNCHANGED allVars
  BY <1>1, <1>5 DEF allVars, vars, review, SameContents
<1>6. ASSUME NEW o \in Operators, Rewrites(o) PROVE ContentIsKnown'
  BY <1>2, <1>6 DEF ContentIsKnown, Rewrites, Known, Derived, Forms
<1>7. ASSUME NEW o \in Operators, Edits(o) PROVE ContentIsKnown'
  BY <1>3, <1>7 DEF ContentIsKnown, Known, Derived, Forms
<1> QED
  BY <1>1, <1>4, <1>5, <1>6, <1>7, RequestEffect DEF ReviewNext

\* So do requests, of what they read.
LEMMA StepReadIsKnown ==
  ASSUME ReviewInv, ContentIsKnown, ReadIsKnown, [ReviewNext]_allVars
  PROVE  ReadIsKnown'
<1> DEFINE Goal(p) == at'[p] \in {"edit", "vet", "write"}
                        => read'[p] \in Known(target'[p], trail'[target'[p]])
<1> SUFFICES ASSUME NEW p \in Operators PROVE Goal(p)
  BY DEF ReadIsKnown, Known, Derived, Forms
<1>0. /\ at \in [Operators -> {"idle", "edit", "vet", "write", "force"}]
      /\ target \in [Operators -> Entries \cup {NoEntry}]
      /\ read \in [Operators -> Contents \cup {NoText}]
      /\ at[p] # "idle" => target[p] \in Entries
  BY DEF ReviewInv, InHand, BufferInv, TypeOK, ReviewTypeOK
<1>1. ASSUME Review(p) PROVE Goal(p)
  <2>1. ASSUME NEW e \in Entries, NEW c \in Contents, BeginEdit(p, e, c) PROVE Goal(p)
    BY <1>0, <2>1 DEF BeginEdit, ContentIsKnown
  <2>2. ASSUME RefuseEdit(p) \/ FinishEdit(p) \/ ForceOut(p) PROVE at'[p] = "idle"
    BY <1>0, <2>2 DEF RefuseEdit, FinishEdit, Edited, ForceOut, Reply
  <2>3. ASSUME NEW e \in Entries, BeginRelease(p, e) PROVE Goal(p)
    <3>1. /\ trail' = trail /\ target'[p] = e
          /\ \/ at'[p] = "vet" /\ read'[p] = payload[e].content
             \/ at'[p] = "force"
      BY <1>0, <2>3 DEF BeginRelease
    <3> QED
      BY <3>1 DEF ContentIsKnown
  <2>4. ASSUME Vet(p) PROVE Goal(p)
    <3>1. \/ at'[p] = "idle"
          \/ at[p] = "vet" /\ UNCHANGED <<target, read, trail>>
      BY <1>0, <2>4 DEF Vet, Reply
    <3> QED
      BY <3>1 DEF ReadIsKnown
  <2>5. ASSUME WriteRewrite(p) PROVE at'[p] = "force"
    BY <1>0, <2>5 DEF WriteRewrite
  <2> QED
    BY <1>1, <2>1, <2>2, <2>3, <2>4, <2>5 DEF Review
<1>2. ASSUME NEW o \in Operators \ {p}, Review(o) PROVE Goal(p)
  <2>1. at'[p] = at[p] /\ target'[p] = target[p] /\ read'[p] = read[p]
    BY <1>2, OthersStayAway
  <2>2. CASE trail' = trail
    BY <2>1, <2>2 DEF ReadIsKnown
  <2>3. CASE Edits(o) /\ at[p] # "idle"
    BY <1>0, <2>1, <2>3, KnownGrows DEF ReadIsKnown
  <2> QED
    BY <1>2, <2>1, <2>2, <2>3, RequestEffect DEF Rewrites
<1>3. CASE UNCHANGED review
  BY <1>3 DEF review, requests, ReadIsKnown
<1> QED
  BY <1>1, <1>2, <1>3 DEF ReviewNext, allVars

\* The hash that an edit records is of a text known before it.
LEMMA StepHashesResolve ==
  ASSUME ReviewInv, ReadIsKnown, HashesResolve, [ReviewNext]_allVars
  PROVE  HashesResolve'
<1>1. ASSUME trail' = trail PROVE HashesResolve'
  BY <1>1 DEF HashesResolve, Derived, Forms
<1>2. ASSUME NEW o \in Operators, Edits(o) PROVE HashesResolve'
  <2> DEFINE Edit == [was : Contents, now : Contents]
             entry == [was |-> read[o], now |-> text[o]]
             t == target[o]
             n == Len(trail[t])
  <2>1. /\ entry \in Edit /\ entry.was = read[o]
        /\ trail \in [Entries -> Seq(Edit)] /\ t \in Entries
        /\ trail' = [trail EXCEPT ![t] = Append(@, entry)]
    BY <1>2 DEF ReviewInv, InHand, ReviewTypeOK, Edits, BufferInv, TypeOK
  <2>2. read[o] \in Known(t, trail[t])
    BY <1>2, <2>1 DEF Edits, ReadIsKnown
  <2> HIDE DEF Edit, entry
  <2>3. /\ n \in Nat /\ Len(trail'[t]) = n + 1 /\ trail'[t][n + 1] = entry
        /\ \A i \in 1..n : trail'[t][i] = trail[t][i]
    <3>1. trail[t] \in Seq(Edit) /\ trail'[t] = Append(trail[t], entry)
      BY <2>1
    <3> QED
      BY <2>1, <3>1
  <2> HIDE DEF n
  <2>4. ASSUME NEW e \in Entries, NEW i \in 1..Len(trail'[e])
        PROVE  \/ trail'[e][i].was \in Derived(Draft)
               \/ \E j \in 1..(i - 1) : trail'[e][i].was \in Derived(trail'[e][j].now)
    <3>1. CASE e # t
      <4>1. trail'[e] = trail[e]
        BY <2>1, <3>1
      <4> QED
        BY <2>4, <4>1 DEF HashesResolve
    <3>2. CASE e = t /\ i \in 1..n
      <4>1. trail'[e][i] = trail[e][i] /\ \A j \in 1..(i - 1) : trail'[e][j] = trail[e][j]
        <5>1. \A j \in 1..(i - 1) : j \in 1..n
          BY <2>3, <3>2
        <5> QED
          BY <2>3, <3>2, <5>1
      <4>2. \/ trail[e][i].was \in Derived(Draft)
            \/ \E j \in 1..(i - 1) : trail[e][i].was \in Derived(trail[e][j].now)
        BY <3>2 DEF HashesResolve, n
      <4> QED
        BY <4>1, <4>2
    <3>3. CASE e = t /\ i = n + 1
      <4>1. trail'[e][i].was = read[o] /\ i - 1 = n
        BY <2>1, <2>3, <3>3
      <4>2. \A j \in 1..n : trail'[e][j] = trail[e][j]
        BY <2>3, <3>3
      <4>3. \/ read[o] \in Derived(Draft)
            \/ \E j \in 1..n : read[o] \in Derived(trail[e][j].now)
        BY <2>2, <3>3 DEF Known, n
      <4> QED
        BY <4>1, <4>2, <4>3
    <3>4. e = t => i \in 1..n \/ i = n + 1
      BY <2>3, <2>4
    <3> QED
      BY <3>1, <3>2, <3>3, <3>4
  <2> QED
    BY <2>4 DEF HashesResolve, Derived, Forms
<1>3. CASE UNCHANGED review
  BY <1>1, <1>3 DEF review
<1> QED
  BY <1>1, <1>2, <1>3, RequestEffect DEF ReviewNext, allVars, Rewrites

\* Every hash of the audit trail is of a text that the entry had before: the draft,
\* an earlier edit, or what the middleware made of one, for any number of requests
\* that overlap, and any middleware.
THEOREM TrailResolves == ReviewSpec => []HashesResolve
<1> DEFINE Inv == ContentIsKnown /\ ReadIsKnown /\ HashesResolve
<1>1. ReviewInit => Inv
  <2> SUFFICES ASSUME ReviewInit PROVE Inv
    OBVIOUS
  <2>1. Draft \in Contents /\ \A e \in Entries : payload[e].content = Draft
    BY ResponseBufferAssumption DEF ReviewInit, Init, ResponseBufferAssumption
  <2>2. ContentIsKnown
    BY <2>1, DerivedCloses DEF ContentIsKnown, Known
  <2>3. ReadIsKnown /\ HashesResolve
    BY DEF ReviewInit, ReadIsKnown, HashesResolve
  <2> QED
    BY <2>2, <2>3
<1>2. ReviewInv /\ Inv /\ [ReviewNext]_allVars => Inv'
  BY StepContentIsKnown, StepReadIsKnown, StepHashesResolve
<1> QED
  BY <1>1, <1>2, ReviewInvariant, PTL DEF ReviewSpec

-----------------------------------------------------------------------------
(***************************************************************************)
(* Manual releases.                                                        *)
(***************************************************************************)

\* Until an edit is accepted, the entry of a release says what the release has
\* read, or a vetted text that another one wrote; once written or forced out, a
\* vetted text.
Current(o) == at[o] \in {"vet", "write", "force"} /\ seen[o] = Len(trail[target[o]])
VettedOrEdited(o) ==
  /\ Current(o) => \/ at[o] # "force" /\ payload[target[o]].content = read[o]
                   \/ <<target[o], payload[target[o]].content>> \in vetted
                   \/ ~Pipeline
  /\ at[o] = "write" => <<target[o], Rewrite[read[o]]>> \in vetted

\* Others write vetted texts, or edits; the drain and the timers write nothing.
LEMMA StepVettedOrEdited ==
  ASSUME ReviewInv, \A o \in Operators : SeenBefore(o) /\ VettedOrEdited(o),
         [ReviewNext]_allVars, NEW p \in Operators
  PROVE  VettedOrEdited(p)'
<1> USE OperatorReviewAssumption DEF OperatorReviewAssumption
<1>0. /\ at[p] # "idle" => target[p] \in Entries
      /\ at \in [Operators -> {"idle", "edit", "vet", "write", "force"}]
      /\ target \in [Operators -> Entries \cup {NoEntry}]
      /\ read \in [Operators -> Contents \cup {NoText}]
      /\ seen \in [Operators -> Nat \cup {Away}]
      /\ SeenBefore(p) /\ VettedOrEdited(p)
  BY DEF ReviewInv, InHand, BufferInv, TypeOK, ReviewTypeOK
<1>1. ASSUME Review(p) PROVE VettedOrEdited(p)'
  <2>1. ASSUME NEW e \in Entries, NEW c \in Contents, BeginEdit(p, e, c)
        PROVE  VettedOrEdited(p)'
    BY <1>0, <2>1 DEF BeginEdit, VettedOrEdited, Current
  <2>2. ASSUME RefuseEdit(p) \/ FinishEdit(p) \/ ForceOut(p) PROVE VettedOrEdited(p)'
    <3>1. at'[p] = "idle"
      BY <1>0, <2>2 DEF RefuseEdit, FinishEdit, Edited, ForceOut, Reply
    <3> QED
      BY <3>1 DEF VettedOrEdited, Current
  <2>3. ASSUME NEW e \in Entries, BeginRelease(p, e) PROVE VettedOrEdited(p)'
    <3>1. /\ target'[p] = e /\ UNCHANGED <<payload, trail>>
          /\ \/ at'[p] = "vet" /\ read'[p] = payload[e].content
             \/ at'[p] = "force" /\ seen'[p] = Away
      BY <1>0, <2>3 DEF BeginRelease, vars
    <3>2. Len(trail[e]) \in Nat
      BY EditsAreCounted
    <3> QED
      BY <3>1, <3>2 DEF VettedOrEdited, Current, Away
  <2>4. ASSUME Vet(p) PROVE VettedOrEdited(p)'
    <3>1. at[p] = "vet" /\ UNCHANGED <<payload, trail>>
      BY <2>4 DEF Vet, vars
    <3>2. CASE at'[p] = "idle"
      BY <3>2 DEF VettedOrEdited, Current
    <3>3. CASE /\ UNCHANGED <<target, read, seen>>
               /\ vetted' = vetted \cup {<<target[p], Rewrite[read[p]]>>}
               /\ at'[p] = IF Rewrite[read[p]] = read[p] THEN "force" ELSE "write"
      BY <1>0, <3>1, <3>3 DEF VettedOrEdited, Current
    <3> QED
      BY <1>0, <2>4, <3>2, <3>3 DEF Vet, Reply
  <2>5. ASSUME WriteRewrite(p) PROVE VettedOrEdited(p)'
    <3>1. /\ at'[p] = "force" /\ UNCHANGED <<target, read, vetted, trail>>
          /\ at[p] = "write" /\ target[p] \in Entries
      BY <1>0, <2>5 DEF WriteRewrite
    <3>2. <<target[p], Rewrite[read[p]]>> \in vetted
      BY <1>0, <3>1 DEF VettedOrEdited
    <3>3. CASE UpdatePayload(target[p], Rewrite[read[p]])
      <4>1. payload'[target[p]].content = Rewrite[read[p]]
        BY <3>1, <3>3 DEF UpdatePayload, ReviewInv, BufferInv, TypeOK, Payloads
      <4> QED
        BY <3>1, <3>2, <4>1 DEF VettedOrEdited
    <3>4. CASE seen'[p] = Away
      <4>1. Len(trail[target[p]]) \in Nat
        BY <3>1, EditsAreCounted
      <4> QED
        BY <3>1, <3>4, <4>1 DEF VettedOrEdited, Current, Away
    <3> QED
      BY <1>0, <2>5, <3>3, <3>4 DEF WriteRewrite
  <2> QED
    BY <1>1, <2>1, <2>2, <2>3, <2>4, <2>5 DEF Review
<1>2. ASSUME NEW o \in Operators \ {p}, Review(o) PROVE VettedOrEdited(p)'
  <2>1. /\ at'[p] = at[p] /\ target'[p] = target[p] /\ read'[p] = read[p]
        /\ seen'[p] = seen[p] /\ vetted \subseteq vetted'
    BY <1>2, OthersStayAway
  <2>2. CASE at[p] \notin {"vet", "write", "force"}
    BY <2>1, <2>2 DEF VettedOrEdited, Current
  <2>3. CASE at[p] \in {"vet", "write", "force"} /\ target[p] \in Entries
    <3>1. CASE SameContents /\ trail' = trail
      BY <1>0, <2>1, <2>3, <3>1 DEF SameContents, VettedOrEdited, Current
    <3>2. CASE Rewrites(o)
      <4>1. /\ payload'[target[p]].content = IF target[p] = target[o] THEN Rewrite[read[o]]
                                             ELSE payload[target[p]].content
            /\ trail' = trail /\ at[o] = "write"
        BY <2>3, <3>2 DEF Rewrites, NowSays
      <4>2. <<target[o], Rewrite[read[o]]>> \in vetted
        BY <4>1 DEF VettedOrEdited
      <4>3. CASE target[p] = target[o]
        BY <1>0, <2>1, <4>1, <4>2, <4>3 DEF VettedOrEdited
      <4>4. CASE target[p] # target[o]
        BY <1>0, <2>1, <4>1, <4>4 DEF VettedOrEdited, Current
      <4> QED
        BY <4>3, <4>4
    <3>3. CASE Edits(o)
      <4>1. Len(trail[target[p]]) \in Nat
            /\ Len(trail'[target[p]]) = IF target[p] = target[o] THEN Len(trail[target[p]]) + 1
                                        ELSE Len(trail[target[p]])
        BY <2>3, <3>3, EditsAreCounted
      <4>2. CASE target[p] = target[o]
        <5>1. seen[p] <= Len(trail[target[p]]) /\ seen[p] \in Int
          BY <1>0, <2>3 DEF SeenBefore, Away
        <5>2. seen[p] # Len(trail'[target[p]])
          BY <4>1, <4>2, <5>1
        <5> QED
          BY <1>0, <2>1, <5>2 DEF VettedOrEdited, Current
      <4>3. CASE target[p] # target[o]
        <5>1. payload'[target[p]].content = payload[target[p]].content
          BY <2>3, <3>3, <4>3 DEF Edits, NowSays
        <5> QED
          BY <1>0, <2>1, <4>1, <4>3, <5>1 DEF VettedOrEdited, Current
      <4> QED
        BY <4>2, <4>3
    <3> QED
      BY <1>2, <3>1, <3>2, <3>3, RequestEffect
  <2> QED
    BY <1>0, <2>2, <2>3
<1>3. CASE (OneLock \/ Drain \/ Environment) /\ UNCHANGED review
  <2>1. \A e \in Entries : payload'[e].content = payload[e].content
    BY <1>3, BufferEffect DEF ReviewInv
  <2> QED
    BY <1>0, <1>3, <2>1 DEF review, requests, VettedOrEdited, Current
<1>4. CASE UNCHANGED allVars
  BY <1>0, <1>4 DEF allVars, vars, review, requests, VettedOrEdited, Current
<1> QED
  BY <1>1, <1>2, <1>3, <1>4 DEF ReviewNext

\* An operator's release lets out only what passed the release stage, for any
\* number of requests that overlap and any failed publishes, but after an edit
\* that the release has not read, or when the entry was away as it looked.
THEOREM ReleasesAreVetted == ReviewSpec => ManualReleaseVetted
<1> DEFINE Vetted == \A o \in Operators : VettedOrEdited(o)
           Allowed == \A o \in Operators, e \in Entries :
                         Pipeline /\ Releases(o, e) /\ seen[o] = Len(trail[e])
                           => <<e, payload[e].content>> \in vetted
<1>1. ReviewInit => Vetted
  BY DEF ReviewInit, VettedOrEdited, Current
<1>2. /\ ReviewInv /\ (\A o \in Operators : SeenBefore(o)) /\ Vetted /\ [ReviewNext]_allVars
      => Vetted'
  BY StepVettedOrEdited
<1>3. Vetted => Allowed
  BY DEF Releases, VettedOrEdited, Current
<1> QED
  BY <1>1, <1>2, <1>3, ReviewInvariant, SeenBeforeInvariant, PTL
  DEF ReviewSpec, ManualReleaseVetted
=============================================================================
