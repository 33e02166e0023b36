------------------------ MODULE ResponseBufferProofs ------------------------
(***************************************************************************)
(* Proofs about ResponseBuffer for any responses and contents, any number  *)
(* of failed publishes and every setting of auto_stop and auto-approve:    *)
(* type correctness, the two safety invariants, and that the buffer with   *)
(* its drain loop implements HeldResponse.                                 *)
(***************************************************************************)
EXTENDS ResponseBuffer, TLAPS

\* The inductive invariant: types, one place for every response, and what the
\* drain loop holds while it publishes.
BufferInv == TypeOK /\ InOnePlace /\ BatchIsReleasable

-----------------------------------------------------------------------------
\* The initial state is well typed: empty buffer, the agent's own drafts.
LEMMA InitTypeOK == Init => TypeOK
<1> SUFFICES ASSUME Init PROVE TypeOK
  OBVIOUS
<1> USE ResponseBufferAssumption DEF ResponseBufferAssumption, Init
<1>1. payload \in [Entries -> Payloads]
  BY DEF Payloads
<1>2. published \in [Entries -> 0..2] /\ sentAs \in [Entries -> Payloads \cup {Unsent}]
  OBVIOUS
<1>3. faultsLeft \in 0..MaxFaults
  OBVIOUS
<1> QED
  BY <1>1, <1>2, <1>3 DEF TypeOK

\* No operation of the worker, the drain loop or an operator breaks a type.
LEMMA NextTypeOK == TypeOK /\ [Next]_vars => TypeOK'
<1> SUFFICES ASSUME TypeOK, [Next]_vars PROVE TypeOK'
  OBVIOUS
<1> USE ResponseBufferAssumption DEF ResponseBufferAssumption, TypeOK, queue, outcome,
        switches
<1>1. ASSUME NEW e \in Entries, Complete(e) PROVE TypeOK'
  BY <1>1 DEF Complete
<1>2. ASSUME NEW e \in Entries, Enqueue(e) PROVE TypeOK'
  BY <1>2 DEF Enqueue
<1>3. ASSUME NEW e \in Entries, TimePasses(e) PROVE TypeOK'
  BY <1>3 DEF TimePasses
<1>4. CASE DrainStart \/ DrainSweep \/ DrainGate
  BY <1>4 DEF DrainStart, DrainSweep, DrainGate, SweepEffect
<1>5. CASE DrainPop
  BY <1>5 DEF DrainPop, Ready
<1>6. ASSUME NEW e \in Entries, Publish(e) PROVE TypeOK'
  <2>1. published' \in [Entries -> 0..2] /\ sentAs' \in [Entries -> Payloads \cup {Unsent}]
    BY <1>6 DEF Publish, Requeue, OneMore
  <2>2. faultsLeft' \in 0..MaxFaults
    BY <1>6 DEF Publish
  <2> QED
    BY <1>6, <2>1, <2>2 DEF Publish, Requeue
<1>7. ASSUME NEW e \in Entries, NEW c \in Contents, EditPayload(e, c) PROVE TypeOK'
  BY <1>7 DEF EditPayload, Payloads
<1>8. ASSUME NEW e \in Entries, AddComment(e) PROVE TypeOK'
  <2>1. payload' \in [Entries -> Payloads]
    BY <1>8 DEF AddComment, Payloads
  <2> QED
    BY <1>8, <2>1 DEF AddComment
<1>9. ASSUME NEW e \in Entries, ForceRelease(e) \/ Stop(e) \/ Unstop(e) \/ Reject(e)
      PROVE TypeOK'
  BY <1>9 DEF ForceRelease, Stop, Unstop, Reject
<1>10. ASSUME NEW b \in BOOLEAN, SetPaused(b) \/ SetAuto(b) PROVE TypeOK'
  BY <1>10 DEF SetPaused, SetAuto, SweepEffect
<1>11. CASE UNCHANGED vars
  BY <1>11 DEF vars
<1> QED
  BY <1>1, <1>2, <1>3, <1>4, <1>5, <1>6, <1>7, <1>8, <1>9, <1>10, <1>11
  DEF Next, Drain, Environment, Operate

\* The buffer's state is well typed in every behaviour.
THEOREM TypeCorrect == Spec => []TypeOK
  BY InitTypeOK, NextTypeOK, PTL DEF Spec

-----------------------------------------------------------------------------
\* Each step moves a response from one place to the next and leaves it nowhere
\* else; only the publish loop holds a batch.
LEMMA NextBufferInv == BufferInv /\ [Next]_vars => InOnePlace' /\ BatchIsReleasable'
<1> SUFFICES ASSUME BufferInv, [Next]_vars PROVE InOnePlace' /\ BatchIsReleasable'
  OBVIOUS
<1> USE DEF BufferInv, TypeOK, queue, outcome, switches, Held, Out
<1>1. ASSUME NEW e \in Entries, Complete(e) PROVE InOnePlace' /\ BatchIsReleasable'
  BY <1>1 DEF Complete, InOnePlace, BatchIsReleasable
<1>2. ASSUME NEW e \in Entries, Enqueue(e) PROVE InOnePlace' /\ BatchIsReleasable'
  BY <1>2 DEF Enqueue, InOnePlace, BatchIsReleasable
<1>3. ASSUME NEW e \in Entries, TimePasses(e) PROVE InOnePlace' /\ BatchIsReleasable'
  BY <1>3 DEF TimePasses, InOnePlace, BatchIsReleasable
<1>4. CASE DrainStart \/ DrainSweep \/ DrainGate
  BY <1>4 DEF DrainStart, DrainSweep, DrainGate, SweepEffect, InOnePlace, BatchIsReleasable
<1>5. CASE DrainPop
  <2>1. ready = {}
    BY <1>5 DEF DrainPop, BatchIsReleasable
  <2>2. InOnePlace'
    BY <1>5, <2>1 DEF DrainPop, Ready, InOnePlace
  <2>3. BatchIsReleasable'
    BY <1>5 DEF DrainPop, Ready, BatchIsReleasable
  <2> QED
    BY <2>2, <2>3
<1>6. ASSUME NEW e \in Entries, Publish(e) PROVE InOnePlace' /\ BatchIsReleasable'
  <2>1. BatchIsReleasable'
    BY <1>6 DEF Publish, Requeue, BatchIsReleasable
  <2>2. published[e] = 0
    BY <1>6 DEF Publish, InOnePlace
  <2>3. CASE published' = [published EXCEPT ![e] = OneMore(@)] /\ pending' = pending
    <3>1. published'[e] = 1 /\ \A f \in Entries \ {e} : published'[f] = published[f]
      BY <2>2, <2>3 DEF OneMore
    <3>2. Out' = Out \cup {e}
      BY <3>1
    <3>3. UNCHANGED <<handed, arriving, rejected>> /\ ready' = ready \ {e} /\ e \in ready
      BY <1>6, <2>3 DEF Publish, Requeue, InOnePlace
    <3> QED
      BY <2>1, <2>3, <3>1, <3>2, <3>3 DEF InOnePlace
  <2>4. CASE Requeue(e)
    BY <1>6, <2>1, <2>4 DEF Publish, Requeue, InOnePlace
  <2> QED
    BY <1>6, <2>3, <2>4 DEF Publish
<1>7. ASSUME NEW e \in Entries, NEW c \in Contents, EditPayload(e, c) \/ AddComment(e)
      PROVE InOnePlace' /\ BatchIsReleasable'
  BY <1>7 DEF EditPayload, AddComment, InOnePlace, BatchIsReleasable
<1>8. ASSUME NEW e \in Entries, ForceRelease(e) \/ Stop(e) \/ Unstop(e)
      PROVE InOnePlace' /\ BatchIsReleasable'
  BY <1>8 DEF ForceRelease, Stop, Unstop, InOnePlace, BatchIsReleasable
<1>9. ASSUME NEW e \in Entries, Reject(e) PROVE InOnePlace' /\ BatchIsReleasable'
  BY <1>9 DEF Reject, InOnePlace, BatchIsReleasable
<1>10. ASSUME NEW b \in BOOLEAN, SetPaused(b) \/ SetAuto(b)
       PROVE InOnePlace' /\ BatchIsReleasable'
  BY <1>10 DEF SetPaused, SetAuto, SweepEffect, InOnePlace, BatchIsReleasable
<1>11. CASE UNCHANGED vars
  BY <1>11 DEF vars, InOnePlace, BatchIsReleasable
<1> QED
  BY <1>1, <1>2, <1>3, <1>4, <1>5, <1>6, <1>7, <1>8, <1>9, <1>10, <1>11,
     ResponseBufferAssumption
  DEF Next, Drain, Environment, Operate, ResponseBufferAssumption

\* The inductive invariant holds throughout.
LEMMA BufferInvariant == Spec => []BufferInv
<1>1. Init => BufferInv
  BY InitTypeOK DEF BufferInv, Init, InOnePlace, BatchIsReleasable, Held, Out
<1>2. BufferInv /\ [Next]_vars => BufferInv'
  BY NextTypeOK, NextBufferInv DEF BufferInv
<1> QED
  BY <1>1, <1>2, PTL DEF Spec

\* No response is lost, doubled or published after a rejection, whatever the
\* interleaving of pushes, drains, failed publishes and operators.
THEOREM Conservation == Spec => []InOnePlace
  BY BufferInvariant, PTL DEF BufferInv

\* What the drain loop is about to publish is never stopped or early.
THEOREM ReleasableBatches == Spec => []BatchIsReleasable
  BY BufferInvariant, PTL DEF BufferInv
-----------------------------------------------------------------------------
(***************************************************************************)
(* The buffer implements HeldResponse.                                     *)
(***************************************************************************)

\* The phase of a response is decided by its place.
LEMMA PhaseOfPlace ==
  ASSUME InOnePlace, NEW e \in Entries
  PROVE  /\ e \in Held => Phase[e] = "held"
         /\ e \in Out => Phase[e] = "released"
         /\ e \in rejected => Phase[e] = "discarded"
         /\ e \notin handed => Phase[e] = "unseen"
<1>1. CASE e \in Held
  BY <1>1 DEF Phase, InOnePlace
<1>2. CASE e \notin Held /\ e \in Out
  BY <1>2 DEF Phase, InOnePlace
<1>3. CASE e \notin Held /\ e \notin Out /\ e \in rejected
  BY <1>3 DEF Phase, InOnePlace
<1>4. CASE e \notin Held /\ e \notin Out /\ e \notin rejected
  BY <1>4 DEF Phase, InOnePlace
<1> QED
  BY <1>1, <1>2, <1>3, <1>4

\* Steps that move no response between phases leave the abstract phase alone.
LEMMA SamePlaces ==
  ASSUME Held' = Held, Out' = Out, rejected' = rejected
  PROVE  Phase' = Phase
  BY DEF Phase

\* The empty buffer is an initial state of HeldResponse.
LEMMA InitRefines == Init => Promise!Init
<1> SUFFICES ASSUME Init PROVE Promise!Init
  OBVIOUS
<1>1. Held = {} /\ Out = {} /\ rejected = {}
  BY DEF Init, Held, Out
<1>2. Phase = [e \in Entries |-> "unseen"]
  BY <1>1 DEF Phase
<1>3. stopped \in SUBSET Entries /\ payload \in [Entries -> Payloads]
  BY InitTypeOK DEF TypeOK
<1> QED
  BY <1>2, <1>3 DEF Promise!Init, Init

\* Every step of the buffer is a step of HeldResponse or changes nothing of it.
LEMMA StepRefines ==
  BufferInv /\ BufferInv' /\ [Next]_vars => [Promise!Next]_(Promise!vars)
<1> SUFFICES ASSUME BufferInv, BufferInv', [Next]_vars
             PROVE  [Promise!Next]_(Promise!vars)
  OBVIOUS
<1> USE DEF queue, outcome, switches, Promise!vars
<1> DEFINE Moves(e, p) == Phase' = [Phase EXCEPT ![e] = p]
<1>phase. Phase \in [Entries -> {"unseen", "held", "released", "discarded"}]
  BY DEF Phase
<1>1. ASSUME NEW e \in Entries, Complete(e) PROVE Promise!Accept(e)
  <2>1. Phase[e] = "unseen"
    BY <1>1, PhaseOfPlace DEF Complete, BufferInv
  <2>2. Held' = Held \cup {e} /\ Out' = Out /\ rejected' = rejected
    BY <1>1 DEF Complete, Held, Out
  <2>3. Moves(e, "held")
    BY <2>2 DEF Phase
  <2> QED
    BY <1>1, <2>1, <2>3 DEF Promise!Accept, Complete
<1>2. ASSUME NEW e \in Entries, Enqueue(e) \/ TimePasses(e) PROVE UNCHANGED Promise!vars
  <2>1. Held' = Held /\ Out' = Out /\ rejected' = rejected
    BY <1>2 DEF Enqueue, TimePasses, Held, Out
  <2> QED
    BY <1>2, <2>1, SamePlaces DEF Enqueue, TimePasses
<1>3. CASE DrainStart \/ DrainSweep \/ DrainGate
  <2>1. Held' = Held /\ Out' = Out /\ rejected' = rejected
    BY <1>3 DEF DrainStart, DrainSweep, DrainGate, Held, Out
  <2> QED
    BY <1>3, <2>1, SamePlaces DEF DrainStart, DrainSweep, DrainGate
<1>4. CASE DrainPop
  <2>1. Held' = Held /\ Out' = Out /\ rejected' = rejected
    BY <1>4 DEF DrainPop, Ready, Held, Out, BufferInv, BatchIsReleasable
  <2> QED
    BY <1>4, <2>1, SamePlaces DEF DrainPop
<1>5. ASSUME NEW e \in Entries, Publish(e)
      PROVE  Promise!Release(e) \/ UNCHANGED Promise!vars
  <2>0. e \in Held /\ e \notin stopped /\ e \in ready
    BY <1>5 DEF Publish, Held, BufferInv, BatchIsReleasable
  <2>1. Phase[e] = "held"
    BY <2>0, PhaseOfPlace DEF BufferInv
  <2>2. CASE Requeue(e)
    <3>1. Held' = Held /\ Out' = Out /\ rejected' = rejected /\ sentAs' = sentAs
      BY <1>5, <2>0, <2>2 DEF Publish, Requeue, Held, Out
    <3> QED
      BY <1>5, <3>1, SamePlaces DEF Publish
  <2>3. CASE /\ published' = [published EXCEPT ![e] = OneMore(@)]
             /\ sentAs' = [sentAs EXCEPT ![e] = payload[e]]
             /\ UNCHANGED <<pending, due, cooling, rejected, faultsLeft>>
    <3>1. Held' = Held \ {e}
      BY <1>5, <2>3 DEF Publish, Held, BufferInv, InOnePlace
    <3>2. published'[e] > 0 /\ \A f \in Entries \ {e} : published'[f] = published[f]
      BY <2>3 DEF OneMore, BufferInv, TypeOK
    <3>3. Out' = Out \cup {e} /\ rejected' = rejected
      BY <2>3, <3>2 DEF Out
    <3>4. Moves(e, "released")
      BY <3>1, <3>3 DEF Phase
    <3> QED
      BY <1>5, <2>0, <2>1, <2>3, <3>4 DEF Promise!Release, Publish
  <2> QED
    BY <1>5, <2>2, <2>3 DEF Publish
<1>6. ASSUME NEW e \in Entries, NEW c \in Contents, EditPayload(e, c) \/ AddComment(e)
      PROVE  Promise!Revise(e)
  <2>1. Held' = Held /\ Out' = Out /\ rejected' = rejected
    BY <1>6 DEF EditPayload, AddComment, Held, Out
  <2>2. e \in Held
    BY <1>6 DEF EditPayload, AddComment, Held
  <2>3. Phase[e] = "held" /\ Phase' = Phase
    BY <2>1, <2>2, PhaseOfPlace, SamePlaces DEF BufferInv
  <2>4. payload' = [payload EXCEPT ![e] = payload'[e]]
    BY <1>6 DEF EditPayload, AddComment, BufferInv, TypeOK
  <2>5. payload'[e] \in Payloads
    BY DEF BufferInv, TypeOK
  <2>6. UNCHANGED <<stopped, sentAs>>
    BY <1>6 DEF EditPayload, AddComment
  <2> QED
    BY <2>3, <2>4, <2>5, <2>6 DEF Promise!Revise
<1>7. ASSUME NEW e \in Entries, ForceRelease(e) \/ Stop(e) \/ Unstop(e)
      PROVE  Promise!SetStopped(e)
  <2>1. Held' = Held /\ Out' = Out /\ rejected' = rejected /\ e \in Held
    BY <1>7 DEF ForceRelease, Stop, Unstop, Held, Out
  <2>2. Phase[e] = "held" /\ Phase' = Phase
    BY <2>1, PhaseOfPlace, SamePlaces DEF BufferInv
  <2> QED
    BY <1>7, <2>2 DEF ForceRelease, Stop, Unstop, Promise!SetStopped
<1>8. ASSUME NEW e \in Entries, Reject(e) PROVE Promise!Discard(e)
  <2>1. e \in Held /\ e \notin Out
    BY <1>8 DEF Reject, Held, BufferInv, InOnePlace
  <2>2. Phase[e] = "held"
    BY <2>1, PhaseOfPlace DEF BufferInv
  <2>3. Held' = Held \ {e} /\ Out' = Out /\ rejected' = rejected \cup {e}
    BY <1>8 DEF Reject, Held, Out, BufferInv, InOnePlace
  <2>4. Moves(e, "discarded")
    BY <2>1, <2>3 DEF Phase
  <2> QED
    BY <1>8, <2>2, <2>4 DEF Reject, Promise!Discard
<1>9. ASSUME NEW b \in BOOLEAN, SetPaused(b) \/ SetAuto(b) PROVE UNCHANGED Promise!vars
  <2>1. Held' = Held /\ Out' = Out /\ rejected' = rejected
    BY <1>9 DEF SetPaused, SetAuto, Held, Out
  <2> QED
    BY <1>9, <2>1, SamePlaces DEF SetPaused, SetAuto
<1>10. CASE UNCHANGED vars
  <2>1. Held' = Held /\ Out' = Out /\ rejected' = rejected
    BY <1>10 DEF vars, Held, Out
  <2> QED
    BY <1>10, <2>1, SamePlaces DEF vars
<1> QED
  BY <1>1, <1>2, <1>3, <1>4, <1>5, <1>6, <1>7, <1>8, <1>9, <1>10,
     ResponseBufferAssumption
  DEF Next, Drain, Environment, Operate, Promise!Next, ResponseBufferAssumption

\* Every behaviour of the buffer is one HeldResponse allows: a response goes out
\* once, as it stands, and not while an operator has it stopped.
THEOREM Implements == Spec => KeepsPromise
<1>1. Init => Promise!Init
  BY InitRefines
<1>2. BufferInv /\ BufferInv' /\ [Next]_vars => [Promise!Next]_(Promise!vars)
  BY StepRefines
<1> QED
  BY <1>1, <1>2, BufferInvariant, PTL DEF Spec, KeepsPromise, Promise!Spec
=============================================================================
