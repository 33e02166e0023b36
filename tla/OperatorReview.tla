--------------------------- MODULE OperatorReview ---------------------------
(***************************************************************************)
(* Operators reviewing held responses through the dashboard's HTTP         *)
(* handlers (status/multi_server/hitl_handlers.rs), on top of the response *)
(* buffer and its drain loop.  The edit and release handlers read an entry *)
(* under the lock, run the before_release middleware, which may take its   *)
(* time, and lock the buffer again to write: each is a small process here, *)
(* and the drain, the timers and other operators act in between.  The      *)
(* other handlers take the lock once.                                      *)
(***************************************************************************)
EXTENDS ResponseBuffer, Sequences

CONSTANTS
  Operators,  \* bound: requests in flight at one time
  Pipeline,   \* a before_release middleware is configured
  Refused,    \* contents the middleware blocks at the release stage
  Rewrite,    \* what it turns each content into at the release stage
  NoEntry, NoText

ASSUME OperatorReviewAssumption ==
  /\ Pipeline \in BOOLEAN
  /\ Refused \subseteq Contents
  /\ Rewrite \in [Contents -> Contents]
  /\ NoEntry \notin Entries /\ NoText \notin Contents

VARIABLES
  at,       \* the position of each operator's request
  target,   \* the entry it is about
  read,     \* the content get_detail returned to it
  text,     \* the content an edit carries
  trail,    \* the edits accepted on each entry: the content each says it
            \* replaced (original_content_hash) and the one it put there
  vetted,   \* history: <<entry, content>> that left the release-stage middleware
  seen,     \* history: the edits of its entry when a release read it, or Away
  overtaken \* history: entries a release wrote over with a text that it read
            \* before their latest edit

requests == <<at, target, read, text, seen>>
review == <<requests, trail, vetted, overtaken>>
allVars == <<vars, review>>

ReviewInit ==
  /\ Init
  /\ at = [o \in Operators |-> "idle"]
  /\ target = [o \in Operators |-> NoEntry]
  /\ read = [o \in Operators |-> NoText]
  /\ text = [o \in Operators |-> NoText]
  /\ trail = [e \in Entries |-> <<>>]
  /\ vetted = {} /\ overtaken = {}
  /\ seen = [o \in Operators |-> 0]

\* The entry was out of the buffer when the release read it, or wrote to it.
Away == -1

Reply(o) ==
  /\ at' = [at EXCEPT ![o] = "idle"]
  /\ target' = [target EXCEPT ![o] = NoEntry]
  /\ read' = [read EXCEPT ![o] = NoText]
  /\ text' = [text EXCEPT ![o] = NoText]
  /\ seen' = [seen EXCEPT ![o] = 0]

-----------------------------------------------------------------------------
\* agent_buffer_edit with new content: get_detail, for the audit hash.
BeginEdit(o, e, c) ==
  /\ at[o] = "idle" /\ e \in pending
  /\ at' = [at EXCEPT ![o] = "edit"]
  /\ target' = [target EXCEPT ![o] = e]
  /\ read' = [read EXCEPT ![o] = payload[e].content]
  /\ text' = [text EXCEPT ![o] = c]
  /\ UNCHANGED <<vars, trail, vetted, seen, overtaken>>

\* The edit-stage middleware blocks (422), or the entry has been popped or
\* rejected (404).
RefuseEdit(o) ==
  /\ at[o] = "edit"
  /\ Pipeline \/ target[o] \notin pending
  /\ Reply(o)
  /\ UNCHANGED <<vars, trail, vetted, overtaken>>

\* A content as an operator wrote it, or as the middleware rewrote it.
Forms(c) == {c} \cup (IF Pipeline THEN {Rewrite[c]} ELSE {})

\* The buffer takes content c, and the annotation says it replaced `was`.
Edited(o, was, c) ==
  /\ at[o] = "edit"
  /\ EditPayload(target[o], c)
  /\ trail' = [trail EXCEPT ![target[o]] = Append(@, [was |-> was, now |-> text[o]])]
  /\ overtaken' = overtaken \ {target[o]}
  /\ Reply(o)
  /\ UNCHANGED vetted

\* Mutated forms of FinishEdit: the audit hash taken of the new content, and
\* the old content written back.
WrongFinishEdit(o) == Edited(o, text[o], text[o])
LostFinishEdit(o)  == Edited(o, read[o], read[o])

\* update_payload_with_annotation (200).  The edit-stage middleware may have
\* rewritten the operator's text.
FinishEdit(o) ==
  /\ at[o] = "edit"
  /\ \E c \in Forms(text[o]) : Edited(o, read[o], c)

\* agent_buffer_release: get_detail.  When it finds nothing, or there is no
\* middleware, the handler goes straight on to force_release.  The operator
\* has the id from a listing, so the entry was in the buffer once.
BeginRelease(o, e) ==
  /\ at[o] = "idle" /\ e \in handed \ arriving
  /\ target' = [target EXCEPT ![o] = e]
  /\ IF Pipeline /\ e \in pending
     THEN /\ at' = [at EXCEPT ![o] = "vet"]
          /\ read' = [read EXCEPT ![o] = payload[e].content]
          /\ seen' = [seen EXCEPT ![o] = Len(trail[e])]
     ELSE /\ at' = [at EXCEPT ![o] = "force"]
          /\ seen' = [seen EXCEPT ![o] = Away]
          /\ UNCHANGED read
  /\ UNCHANGED <<vars, text, trail, vetted, overtaken>>

WrongVet(o) ==  \* a Blocked verdict is treated as a warning
  /\ at[o] = "vet"
  /\ vetted' = IF read[o] \in Refused THEN vetted
               ELSE vetted \cup {<<target[o], Rewrite[read[o]]>>}
  /\ at' = [at EXCEPT ![o] = IF Rewrite[read[o]] = read[o] THEN "force" ELSE "write"]
  /\ UNCHANGED <<vars, target, read, text, seen, trail, overtaken>>

\* The release-stage middleware blocks (422), or passes what it was shown,
\* transformed perhaps.
Vet(o) ==
  /\ at[o] = "vet"
  /\ IF read[o] \in Refused
     THEN Reply(o) /\ UNCHANGED vetted
     ELSE /\ vetted' = vetted \cup {<<target[o], Rewrite[read[o]]>>}
          /\ at' = [at EXCEPT ![o] = IF Rewrite[read[o]] = read[o]
                                     THEN "force" ELSE "write"]
          /\ UNCHANGED <<target, read, text, seen>>
  /\ UNCHANGED <<vars, trail, overtaken>>

\* update_payload with the transformed content; its answer is not looked at.
WriteRewrite(o) ==
  /\ at[o] = "write"
  /\ \/ /\ UpdatePayload(target[o], Rewrite[read[o]])
        /\ overtaken' = IF seen[o] < Len(trail[target[o]])
                        THEN overtaken \cup {target[o]} ELSE overtaken
        /\ UNCHANGED seen
     \/ /\ target[o] \notin pending
        /\ seen' = [seen EXCEPT ![o] = Away]
        /\ UNCHANGED <<vars, overtaken>>
  /\ at' = [at EXCEPT ![o] = "force"]
  /\ UNCHANGED <<target, read, text, trail, vetted>>

\* force_release, or 404.
ForceOut(o) ==
  /\ at[o] = "force"
  /\ \/ ForceRelease(target[o])
     \/ target[o] \notin pending /\ UNCHANGED vars
  /\ Reply(o)
  /\ UNCHANGED <<trail, vetted, overtaken>>

Review(o) ==
  \/ \E e \in Entries, c \in Contents : BeginEdit(o, e, c)
  \/ RefuseEdit(o) \/ FinishEdit(o)
  \/ \E e \in Entries : BeginRelease(o, e)
  \/ Vet(o) \/ WriteRewrite(o) \/ ForceOut(o)

\* Handlers that take the lock once: comment, stop, unstop, reject.
OneLock == \E e \in Entries : AddComment(e) \/ Stop(e) \/ Unstop(e) \/ Reject(e)

ReviewNext ==
  \/ \E o \in Operators : Review(o)
  \/ (OneLock \/ Drain \/ Environment) /\ UNCHANGED review

ReviewSpec == ReviewInit /\ [][ReviewNext]_allVars

-----------------------------------------------------------------------------
ReviewTypeOK ==
  /\ TypeOK
  /\ at \in [Operators -> {"idle", "edit", "vet", "write", "force"}]
  /\ target \in [Operators -> Entries \cup {NoEntry}]
  /\ read \in [Operators -> Contents \cup {NoText}]
  /\ text \in [Operators -> Contents \cup {NoText}]
  /\ trail \in [Entries -> Seq([was : Contents, now : Contents])]
  /\ vetted \subseteq Entries \X Contents
  /\ seen \in [Operators -> Nat \cup {Away}]
  /\ overtaken \subseteq Entries

Latest(e) == IF trail[e] = <<>> THEN Draft ELSE trail[e][Len(trail[e])].now

\* What goes out is the latest edit that was answered with "edited" (the
\* operator is its "owner", agents/mod.rs:270), or what the release-stage
\* middleware made of that edit; never an earlier text, but for one that a
\* release had read before the edit and wrote back after it.
LatestEditPublished ==
  \A e \in Out \ overtaken : sentAs[e].content \in Forms(Latest(e))

\* c, and what the middleware may make of it, run once or more often.
Derived(c) ==
  { d \in Contents :
      \A closed \in SUBSET Contents :
        c \in closed /\ (\A x \in closed : Forms(x) \subseteq closed) => d \in closed }

\* The hash of each Edit annotation (original_content_hash, agents/mod.rs:290)
\* can be resolved: it is that of the draft or of an edit before it, or of what
\* the middleware made of one, however reads, edits, releases and failed
\* publishes overlap.
HashesResolve ==
  \A e \in Entries : \A i \in 1..Len(trail[e]) :
     \/ trail[e][i].was \in Derived(Draft)
     \/ \E j \in 1..(i - 1) : trail[e][i].was \in Derived(trail[e][j].now)

\* An operator's release lets out content that the release-stage middleware, the
\* "full validation gate" (docs/explanation/middleware.md:23), has passed, unless
\* an edit was accepted since the release read the entry, or the entry was away
\* when the release read it or wrote to it.
Releases(o, e) == at[o] = "force" /\ at'[o] = "idle" /\ target[o] = e /\ e \in pending
ManualReleaseVetted ==
  [][\A o \in Operators, e \in Entries :
       Pipeline /\ Releases(o, e) /\ seen[o] = Len(trail[e])
         => <<e, payload[e].content>> \in vetted]_allVars
=============================================================================
