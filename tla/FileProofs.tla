----------------------------- MODULE FileProofs -----------------------------
(***************************************************************************)
(* Proofs about what concurrent clients of the feed and of stored files    *)
(* may rely on, for any number of them: every index entry of a feed is a   *)
(* link to a record of its owner and stays so, and a reader who pages      *)
(* misses nothing (FeedIndex); a paged read returns the bytes it asked for *)
(* from the object it asked for, and an acknowledged annotation stays      *)
(* (BlobReader).                                                           *)
(***************************************************************************)
EXTENDS FeedIndex, BlobReader, FiniteSetTheorems, SequenceTheorems, TLAPS

\* The order the library's theorem on natural numbers is about.
LEMMA LessThan == OpToRel(<, Nat) = {ss \in Nat \X Nat : ss[1] < ss[2]}
  BY Zenon DEF OpToRel

\* A set of naturals has a least element, which Min is.
LEMMA LeastElement ==
  ASSUME NEW S \in SUBSET Nat, S # {}
  PROVE  Min(S) \in S /\ \A y \in S : Min(S) <= y
<1> DEFINE Less == {ss \in Nat \X Nat : ss[1] < ss[2]}
<1>1. IsWellFoundedOn(Less, Nat)
  BY LessThan, NatLessThanWellFounded
<1>2. PICK x \in S : \A y \in S : x <= y
  <2> HIDE DEF Less
  <2>1. PICK x \in S : \A y \in S : <<y, x>> \notin Less
    BY <1>1, WFMin
  <2>2. ASSUME NEW y \in S, y < x PROVE FALSE
    <3>1. <<y, x>> \in Nat \X Nat /\ <<y, x>>[1] < <<y, x>>[2]
      BY <2>2
    <3>2. <<y, x>> \in Less
      BY <3>1, Zenon DEF Less
    <3> QED
      BY <2>1, <3>2
  <2>3. \A y \in S : x <= y
    BY <2>2
  <2> QED
    BY <2>3
<1> QED
  BY <1>2 DEF Min

-----------------------------------------------------------------------------
(***************************************************************************)
(* The feed.                                                               *)
(***************************************************************************)
Record  == [post: Posts, draft: BOOLEAN]
Entry   == [id: Nat, from: Senders, revision: Nat]
Stages  == {"append", "slug", "claim", "verdict", "mail", "mailSender", "done"}
Results == {"none", "posted", "taken", "error"}

FeedTypeOK ==
  /\ log \in Seq(Record)
  /\ slug # Nothing => slug \in Entry /\ slug.revision > 0
  /\ mids \in [Senders \cup {Nothing} -> Nat]
  /\ pc \in [Posts -> Stages] /\ id \in [Posts -> Nat] /\ seen \in [Posts -> Nat]
  /\ outcome \in [Posts -> Results]

\* A post under way has its record in the log, and claims only what is its own.
Mine(p) ==
  /\ pc[p] \in {"slug", "claim", "verdict", "mail", "mailSender"} =>
       id[p] \in DOMAIN log /\ log[id[p]].post = p
  /\ pc[p] \in {"slug", "claim", "verdict"} => p \in Slugged /\ ~log[id[p]].draft
  /\ pc[p] \in {"mail", "mailSender"} => p \in Mailed

\* The revision a claim read stands for an entry nobody else holds.
Unheld(p) ==
  /\ pc[p] = "claim" => seen[p] <= Revision /\ (seen[p] = Revision => ~Held(slug, p))
  /\ pc[p] = "verdict" => slug # Nothing

Holds(p) == slug # Nothing /\ slug.from = From[p]

\* What a post is told, or is about to be told.
Told(p) ==
  p \in Slugged \ Draftable =>
    /\ pc[p] \in {"mail", "mailSender"} \/ outcome[p] = "posted" => Holds(p)
    /\ outcome[p] = "taken" => Held(slug, p)

OnePost(p) == Mine(p) /\ Unheld(p) /\ Told(p)

FeedInv == FeedTypeOK /\ Resolves /\ \A p \in Posts : OnePost(p)

\* The channel is empty and nobody has posted.
LEMMA FeedInitInv == FeedInit => FeedInv
<1> SUFFICES ASSUME FeedInit PROVE FeedInv
  OBVIOUS
<1>1. FeedTypeOK
  <2>1. log \in Seq(Record)
    BY DEF FeedInit
  <2>3. mids \in [Senders \cup {Nothing} -> Nat]
    BY DEF FeedInit
  <2>4. slug = Nothing
    BY DEF FeedInit
  <2>2. pc \in [Posts -> Stages] /\ id \in [Posts -> Nat] /\ seen \in [Posts -> Nat]
        /\ outcome \in [Posts -> Results]
    BY DEF FeedInit, Stages, Results
  <2> QED
    BY <2>1, <2>2, <2>3, <2>4 DEF FeedTypeOK
<1>2. Resolves
  BY DEF FeedInit, Resolves
<1>3. \A p \in Posts : OnePost(p)
  BY DEF FeedInit, OnePost, Mine, Unheld, Told
<1> QED
  BY <1>1, <1>2, <1>3 DEF FeedInv

\* What every step keeps of the log and the slug: records stay, the holder of
\* the slug stays, and a revision stands for one entry.
Kept ==
  /\ \A i \in DOMAIN log : i \in DOMAIN log' /\ log'[i] = log[i]
  /\ slug # Nothing => slug' # Nothing /\ slug'.from = slug.from
  /\ Revision <= Revision' /\ (Revision' = Revision => slug' = slug)

\* So the posts that do not move keep what they know.
LEMMA OthersKeep ==
  ASSUME FeedInv, Kept, FeedTypeOK', NEW p \in Posts, OnePost(p)', Resolves',
         \A d \in Posts \ {p} : /\ pc'[d] = pc[d] /\ id'[d] = id[d]
                                /\ seen'[d] = seen[d] /\ outcome'[d] = outcome[d]
  PROVE  FeedInv'
<1>1. ASSUME NEW d \in Posts \ {p} PROVE OnePost(d)'
  <2>1. OnePost(d) /\ FeedTypeOK
    BY DEF FeedInv
  <2>2. pc'[d] = pc[d] /\ id'[d] = id[d] /\ seen'[d] = seen[d] /\ outcome'[d] = outcome[d]
    OBVIOUS
  <2>3. Mine(d)'
    BY <2>1, <2>2 DEF OnePost, Mine, Kept
  <2>4. Revision \in Nat /\ Revision' \in Nat /\ seen[d] \in Nat
    BY <2>1 DEF FeedTypeOK, Revision, Entry
  <2>5. Unheld(d)'
    BY <2>1, <2>2, <2>4 DEF OnePost, Unheld, Kept, Held
  <2>6. Told(d)'
    BY <2>1, <2>2 DEF OnePost, Told, Kept, Holds, Held
  <2> QED
    BY <2>3, <2>5, <2>6 DEF OnePost
<1> QED
  BY <1>1 DEF FeedInv

\* The records and entries that are there, when a step leaves the feed alone.
LEMMA FeedAlone ==
  ASSUME FeedInv, UNCHANGED feed
  PROVE  Kept /\ Resolves'
<1>1. UNCHANGED <<log, slug, mids>> /\ Revision \in Nat
  BY DEF feed, FeedInv, FeedTypeOK, Revision, Entry
<1>2. UNCHANGED <<Revision, Served>>
  BY <1>1 DEF Revision, Served
<1> QED
  BY <1>1, <1>2 DEF Kept, FeedInv, Resolves

\* What the invariant says of the post that moves.
LEMMA OnePostFacts ==
  ASSUME FeedInv, NEW p \in Posts
  PROVE  /\ log \in Seq(Record) /\ Len(log) \in Nat /\ DOMAIN log = 1..Len(log)
         /\ id[p] \in Nat /\ Mine(p) /\ Unheld(p) /\ Told(p)
         /\ From[p] \in Senders /\ Revision \in Nat
         /\ slug # Nothing <=> Revision > 0
  BY DEF FeedInv, FeedTypeOK, OnePost, Senders, Revision, Entry

\* A step moves one post.
MovesPost(p) ==
  /\ \E e \in Stages : pc' = [pc EXCEPT ![p] = e]
  /\ \E e \in Nat : id' = [id EXCEPT ![p] = e]
  /\ \E e \in Nat : seen' = [seen EXCEPT ![p] = e]
  /\ \E e \in Results : outcome' = [outcome EXCEPT ![p] = e]

FeedTyped ==
  /\ log \in Seq(Record)
  /\ slug # Nothing => slug \in Entry /\ slug.revision > 0
  /\ mids \in [Senders \cup {Nothing} -> Nat]

LEMMA PostStep ==
  ASSUME FeedInv, Kept, FeedTyped', Resolves', NEW p \in Posts, OnePost(p)', MovesPost(p)
  PROVE  FeedInv'
<1>2. /\ pc \in [Posts -> Stages] /\ id \in [Posts -> Nat] /\ seen \in [Posts -> Nat]
      /\ outcome \in [Posts -> Results]
  BY DEF FeedInv, FeedTypeOK
<1>3. pc' \in [Posts -> Stages] /\ \A d \in Posts \ {p} : pc'[d] = pc[d]
  BY <1>2 DEF MovesPost
<1>4. id' \in [Posts -> Nat] /\ \A d \in Posts \ {p} : id'[d] = id[d]
  BY <1>2 DEF MovesPost
<1>5. seen' \in [Posts -> Nat] /\ \A d \in Posts \ {p} : seen'[d] = seen[d]
  BY <1>2 DEF MovesPost
<1>6. outcome' \in [Posts -> Results] /\ \A d \in Posts \ {p} : outcome'[d] = outcome[d]
  BY <1>2 DEF MovesPost
<1>7. FeedTypeOK'
  BY <1>3, <1>4, <1>5, <1>6 DEF FeedTypeOK, FeedTyped
<1> QED
  BY <1>3, <1>4, <1>5, <1>6, <1>7, OthersKeep

\* One that leaves the feed alone.
LEMMA FeedAloneStep ==
  ASSUME FeedInv, UNCHANGED feed, NEW p \in Posts, OnePost(p)', MovesPost(p)
  PROVE  FeedInv'
<1>1. FeedTyped'
  BY DEF FeedInv, FeedTypeOK, feed, FeedTyped
<1> QED
  BY <1>1, FeedAlone, PostStep

\* How Goto and Return move a post.
LEMMA Gone ==
  ASSUME FeedInv, NEW p \in Posts, NEW place \in Stages, Goto(p, place),
         \E e \in Nat : seen' = [seen EXCEPT ![p] = e]
  PROVE  /\ MovesPost(p) /\ pc'[p] = place
         /\ id'[p] = id[p] /\ outcome'[p] = outcome[p]
<1>1. pc \in [Posts -> Stages] /\ id \in [Posts -> Nat] /\ outcome \in [Posts -> Results]
  BY DEF FeedInv, FeedTypeOK
<1>2. pc' = [pc EXCEPT ![p] = place] /\ pc'[p] = place
  BY <1>1 DEF Goto
<1>3. id' = [id EXCEPT ![p] = id[p]] /\ id[p] \in Nat
  BY <1>1 DEF Goto
<1>4. outcome' = [outcome EXCEPT ![p] = outcome[p]] /\ outcome[p] \in Results
  BY <1>1 DEF Goto
<1> QED
  BY <1>2, <1>3, <1>4 DEF Goto, MovesPost

LEMMA Returned ==
  ASSUME FeedInv, NEW p \in Posts, NEW result \in Results, Return(p, result),
         \E e \in Nat : seen' = [seen EXCEPT ![p] = e]
  PROVE  MovesPost(p) /\ pc'[p] = "done" /\ outcome'[p] = result
<1>1. pc \in [Posts -> Stages] /\ id \in [Posts -> Nat] /\ outcome \in [Posts -> Results]
  BY DEF FeedInv, FeedTypeOK
<1>2. pc'[p] = "done" /\ "done" \in Stages
  BY <1>1 DEF Return, Stages
<1>3. outcome'[p] = result
  BY <1>1 DEF Return
<1> QED
  BY <1>2, <1>3 DEF Return, MovesPost

\* A revision that a step leaves where it is.
LEMMA SeenStays ==
  ASSUME FeedInv, NEW p \in Posts, UNCHANGED seen
  PROVE  (\E e \in Nat : seen' = [seen EXCEPT ![p] = e]) /\ seen'[p] = seen[p]
<1>1. seen \in [Posts -> Nat]
  BY DEF FeedInv, FeedTypeOK
<1>2. seen' = [seen EXCEPT ![p] = seen[p]] /\ seen[p] \in Nat
  BY <1>1
<1> QED
  BY <1>2

LEMMA SeenSet ==
  ASSUME FeedInv, NEW p \in Posts, NEW n \in Nat, seen' = [seen EXCEPT ![p] = n]
  PROVE  (\E e \in Nat : seen' = [seen EXCEPT ![p] = e]) /\ seen'[p] = n
  BY DEF FeedInv, FeedTypeOK

\* A new record takes the next id; what was there stays.
LEMMA AppendKeeps ==
  ASSUME FeedInv, NEW p \in Posts, AppendRecord(p)
  PROVE  FeedInv'
<1>1. PICK draft \in BOOLEAN :
        /\ draft => p \in Draftable
        /\ log' = Append(log, [post |-> p, draft |-> draft])
        /\ \/ /\ Indexed(p, draft) \/ p \in Mailed
              /\ pc' = [pc EXCEPT ![p] = IF Indexed(p, draft) THEN "slug" ELSE "mail"]
              /\ id' = [id EXCEPT ![p] = Len(log) + 1]
              /\ UNCHANGED outcome
           \/ ~Indexed(p, draft) /\ Return(p, "posted")
  BY DEF AppendRecord
<1>2. UNCHANGED <<slug, mids, seen>> /\ pc[p] = "append"
  BY DEF AppendRecord, reader
<1>3. /\ log \in Seq(Record) /\ Len(log) \in Nat /\ DOMAIN log = 1..Len(log)
      /\ Told(p)
  BY OnePostFacts
<1>4. [post |-> p, draft |-> draft] \in Record
  BY DEF Record
<1>5. /\ log' \in Seq(Record) /\ DOMAIN log' = 1..(Len(log) + 1)
      /\ \A i \in 1..Len(log) : log'[i] = log[i]
      /\ log'[Len(log) + 1] = [post |-> p, draft |-> draft]
  BY <1>1, <1>3, <1>4
<1>6. Kept /\ UNCHANGED Revision
  BY <1>2, <1>3, <1>5, OnePostFacts DEF Kept, Revision
<1>7. FeedTyped'
  BY <1>2, <1>5 DEF FeedTyped, FeedInv, FeedTypeOK
<1>8. Served \subseteq Served'
  BY <1>3, <1>5 DEF Served
<1>9. Resolves'
  <2>1. Resolves
    BY DEF FeedInv
  <2>2. slug' # Nothing => slug'.id \in Served' /\ From[log'[slug'.id].post] = slug'.from
    BY <1>2, <1>3, <1>5, <1>8, <2>1 DEF Resolves, Served
  <2>3. \A key \in DOMAIN mids' : mids'[key] # 0 =>
          mids'[key] \in DOMAIN log' /\ log'[mids'[key]].post \in Mailed
    BY <1>2, <1>3, <1>5, <2>1 DEF Resolves
  <2> QED
    BY <2>2, <2>3 DEF Resolves
<1>10. /\ \E e \in Nat : seen' = [seen EXCEPT ![p] = e]
       /\ seen'[p] = seen[p]
  BY <1>2, SeenStays
<1>11. /\ pc \in [Posts -> Stages] /\ id \in [Posts -> Nat] /\ outcome \in [Posts -> Results]
  BY DEF FeedInv, FeedTypeOK
<1>12. CASE /\ Indexed(p, draft) \/ p \in Mailed
            /\ pc' = [pc EXCEPT ![p] = IF Indexed(p, draft) THEN "slug" ELSE "mail"]
            /\ id' = [id EXCEPT ![p] = Len(log) + 1]
            /\ UNCHANGED outcome
  <2>1. /\ pc'[p] = IF Indexed(p, draft) THEN "slug" ELSE "mail"
        /\ id'[p] = Len(log) + 1 /\ outcome'[p] = outcome[p]
    BY <1>11, <1>12
  <2>2. MovesPost(p)
    <3>1. outcome' = [outcome EXCEPT ![p] = outcome[p]] /\ outcome[p] \in Results
      BY <1>11, <1>12
    <3>2. \E e \in Stages : pc' = [pc EXCEPT ![p] = e]
      BY <1>12 DEF Stages
    <3>3. Len(log) + 1 \in Nat
      BY <1>3
    <3>4. \E e \in Nat : id' = [id EXCEPT ![p] = e]
      BY <1>12, <3>3, Zenon
    <3> QED
      BY <3>1, <3>2, <3>4, <1>10 DEF MovesPost
  <2>3. Mine(p)'
    BY <2>1, <1>12, <1>3, <1>5 DEF Mine, Indexed
  <2>4. Unheld(p)'
    BY <2>1 DEF Unheld
  <2>5. Told(p)'
    BY <2>1, <1>1, <1>2, <1>3 DEF Told, Holds, Held, Indexed
  <2> QED
    BY <1>6, <1>7, <1>9, <2>2, <2>3, <2>4, <2>5, PostStep DEF OnePost
<1>13. CASE ~Indexed(p, draft) /\ Return(p, "posted")
  <2>1. MovesPost(p) /\ pc'[p] = "done" /\ outcome'[p] = "posted"
    BY <1>13, <1>10, Returned DEF Results
  <2>2. Mine(p)' /\ Unheld(p)'
    BY <2>1 DEF Mine, Unheld
  <2>3. Told(p)'
    BY <2>1, <1>1, <1>13 DEF Told, Indexed
  <2> QED
    BY <1>6, <1>7, <1>9, <2>1, <2>2, <2>3, PostStep DEF OnePost
<1> QED
  BY <1>1, <1>12, <1>13

\* The entry is read at a revision, or another operator's is in the way.
LEMMA ReadSlugKeeps ==
  ASSUME FeedInv, NEW p \in Posts, ReadSlug(p)
  PROVE  FeedInv'
<1>1. UNCHANGED feed /\ UNCHANGED <<log, slug, mids>> /\ pc[p] = "slug"
  BY DEF ReadSlug, feed
<1>2. Mine(p) /\ Told(p) /\ Revision \in Nat /\ UNCHANGED Revision
  BY <1>1, OnePostFacts DEF Revision
<1>3. CASE Held(slug, p) /\ Return(p, "taken") /\ UNCHANGED seen
  <2>1. MovesPost(p) /\ pc'[p] = "done" /\ outcome'[p] = "taken"
    BY <1>3, SeenStays, Returned DEF Results
  <2>2. OnePost(p)'
    BY <2>1, <1>1, <1>3 DEF OnePost, Mine, Unheld, Told, Held
  <2> QED
    BY <1>1, <2>1, <2>2, FeedAloneStep
<1>4. CASE ~Held(slug, p) /\ Goto(p, "claim") /\ seen' = [seen EXCEPT ![p] = Revision]
  <2>1. (\E e \in Nat : seen' = [seen EXCEPT ![p] = e]) /\ seen'[p] = Revision
    BY <1>4, <1>2, SeenSet
  <2>2. MovesPost(p) /\ pc'[p] = "claim" /\ id'[p] = id[p] /\ outcome'[p] = outcome[p]
    BY <1>4, <2>1, Gone DEF Stages
  <2>3. Mine(p)'
    BY <2>2, <1>1, <1>2 DEF Mine
  <2>4. Unheld(p)'
    BY <2>1, <2>2, <1>1, <1>2, <1>4 DEF Unheld, Held
  <2>5. Told(p)'
    BY <2>2, <1>1, <1>2 DEF Told, Holds, Held
  <2> QED
    BY <1>1, <2>2, <2>3, <2>4, <2>5, FeedAloneStep DEF OnePost
<1> QED
  BY <1>3, <1>4 DEF ReadSlug

\* What follows the slug, when the entry is the post's own operator's.
LEMMA AfterSlugKeeps ==
  ASSUME FeedInv, NEW p \in Posts, pc[p] \in {"claim", "verdict"}, AfterSlug(p),
         \E e \in Nat : seen' = [seen EXCEPT ![p] = e],
         Kept, Holds(p)', ~Held(slug, p) \/ slug' = slug
  PROVE  MovesPost(p) /\ OnePost(p)'
<1>1. Mine(p) /\ Told(p)
  BY OnePostFacts
<1>2. CASE p \in Mailed /\ Goto(p, "mail")
  <2>1. MovesPost(p) /\ pc'[p] = "mail" /\ id'[p] = id[p] /\ outcome'[p] = outcome[p]
    BY <1>2, Gone DEF Stages
  <2>2. Mine(p)'
    BY <2>1, <1>1, <1>2 DEF Mine, Kept
  <2>3. Unheld(p)'
    BY <2>1 DEF Unheld
  <2>4. Told(p)'
    BY <2>1, <1>1 DEF Told, Held
  <2> QED
    BY <2>1, <2>2, <2>3, <2>4 DEF OnePost
<1>3. CASE p \notin Mailed /\ Return(p, "posted")
  <2>1. MovesPost(p) /\ pc'[p] = "done" /\ outcome'[p] = "posted"
    BY <1>3, Returned DEF Results
  <2> QED
    BY <2>1 DEF OnePost, Mine, Unheld, Told
<1> QED
  BY <1>2, <1>3 DEF AfterSlug

\* A claim that still finds the revision it read takes the entry.
LEMMA ClaimKeeps ==
  ASSUME FeedInv, NEW p \in Posts, Claim(p)
  PROVE  FeedInv'
<1>1. UNCHANGED <<log, mids>> /\ pc[p] = "claim" /\ seen' = [seen EXCEPT ![p] = 0]
  BY DEF Claim
<1>2. /\ log \in Seq(Record) /\ Mine(p) /\ Unheld(p) /\ Told(p) /\ Revision \in Nat
      /\ id[p] \in Nat /\ From[p] \in Senders /\ (slug # Nothing <=> Revision > 0)
      /\ slug = Nothing \/ slug \in Entry
  BY OnePostFacts DEF FeedInv, FeedTypeOK
<1>3. (\E e \in Nat : seen' = [seen EXCEPT ![p] = e]) /\ seen'[p] = 0
  BY <1>1, SeenSet
<1>4. Served' = Served
  BY <1>1 DEF Served
<1>5. CASE /\ Unmoved(p)
           /\ slug' = [id |-> id[p], from |-> From[p], revision |-> Revision + 1]
           /\ AfterSlug(p)
  <2>1. slug' \in Entry /\ slug'.revision = Revision + 1
    BY <1>2, <1>5 DEF Entry
  <2>2. slug' # Nothing /\ slug'.from = From[p] /\ slug'.id = id[p]
    BY <1>5, <2>1, FeedAssumption DEF Entry
  <2>3. Revision' = Revision + 1
    BY <2>1, <2>2 DEF Revision
  <2>4. ~Held(slug, p)
    BY <1>1, <1>2, <1>5 DEF Unmoved, Unheld
  <2>5. Kept
    BY <1>1, <1>2, <2>2, <2>3, <2>4 DEF Kept, Held
  <2>6. FeedTyped'
    BY <1>1, <1>2, <2>1, <2>3 DEF FeedTyped, FeedInv, FeedTypeOK
  <2>7. Resolves'
    <3>1. id[p] \in Served /\ log[id[p]].post = p
      BY <1>1, <1>2 DEF Mine, Served
    <3>2. slug'.id \in Served' /\ From[log'[slug'.id].post] = slug'.from
      BY <1>1, <1>4, <2>2, <3>1
    <3> QED
      BY <1>1, <3>2 DEF Resolves, FeedInv
  <2>8. MovesPost(p) /\ OnePost(p)'
    BY <1>1, <1>3, <1>5, <2>2, <2>4, <2>5, AfterSlugKeeps DEF Holds
  <2> QED
    BY <2>5, <2>6, <2>7, <2>8, PostStep
<1>6. CASE ~Unmoved(p) /\ UNCHANGED slug /\ Goto(p, "verdict")
  <2>1. MovesPost(p) /\ pc'[p] = "verdict" /\ id'[p] = id[p] /\ outcome'[p] = outcome[p]
    BY <1>6, <1>3, Gone DEF Stages
  <2>2. UNCHANGED feed
    BY <1>1, <1>6 DEF feed
  <2>3. slug # Nothing
    BY <1>1, <1>2, <1>6, OnePostFacts DEF Unmoved, Unheld, FeedInv, FeedTypeOK
  <2>4. Mine(p)'
    BY <2>1, <1>1, <1>2 DEF Mine
  <2>5. Unheld(p)'
    BY <2>1, <2>3, <1>6 DEF Unheld
  <2>6. Told(p)'
    BY <2>1, <1>1, <1>2, <1>6 DEF Told, Holds, Held
  <2> QED
    BY <2>1, <2>2, <2>4, <2>5, <2>6, FeedAloneStep DEF OnePost
<1> QED
  BY <1>5, <1>6 DEF Claim

\* When the claim lost, the entry says who won.
LEMMA VerdictKeeps ==
  ASSUME FeedInv, NEW p \in Posts, Verdict(p)
  PROVE  FeedInv'
<1>1. UNCHANGED feed /\ UNCHANGED <<log, slug, mids, seen>> /\ pc[p] = "verdict"
  BY DEF Verdict, feed
<1>2. Unheld(p) /\ Kept
  BY <1>1, OnePostFacts, FeedAlone
<1>3. CASE Held(slug, p) /\ Return(p, "taken")
  <2>1. MovesPost(p) /\ pc'[p] = "done" /\ outcome'[p] = "taken"
    BY <1>1, <1>3, SeenStays, Returned DEF Results
  <2>2. OnePost(p)'
    BY <2>1, <1>1, <1>3 DEF OnePost, Mine, Unheld, Told, Held
  <2> QED
    BY <1>1, <2>1, <2>2, FeedAloneStep
<1>4. CASE ~Held(slug, p) /\ AfterSlug(p)
  <2>1. Holds(p)'
    BY <1>1, <1>2, <1>4 DEF Unheld, Holds, Held
  <2>2. MovesPost(p) /\ OnePost(p)'
    BY <1>1, <1>2, <1>4, <2>1, SeenStays, AfterSlugKeeps
  <2> QED
    BY <1>1, <2>2, FeedAloneStep
<1> QED
  BY <1>3, <1>4 DEF Verdict

\* A message id is entered for a record that has it.
LEMMA Created ==
  ASSUME FeedInv, NEW p \in Posts, pc[p] \in {"mail", "mailSender"},
         NEW key \in Senders \cup {Nothing}, Create(key, id[p]), UNCHANGED <<log, slug>>
  PROVE  Kept /\ FeedTyped' /\ Resolves'
<1>1. /\ mids \in [Senders \cup {Nothing} -> Nat] /\ id[p] \in Nat /\ Mine(p)
      /\ Revision \in Nat /\ Resolves
  BY OnePostFacts DEF FeedInv, FeedTypeOK
<1>2. id[p] \in DOMAIN log /\ log[id[p]].post \in Mailed
  BY <1>1 DEF Mine
<1>3. /\ mids' \in [Senders \cup {Nothing} -> Nat]
      /\ \A k \in Senders \cup {Nothing} : mids'[k] \in {mids[k], id[p]}
  BY <1>1 DEF Create
<1>4. UNCHANGED <<Revision, Served>>
  BY DEF Revision, Served
<1>5. Resolves'
  BY <1>1, <1>2, <1>3, <1>4 DEF Resolves
<1> QED
  BY <1>1, <1>3, <1>4, <1>5 DEF Kept, FeedTyped, FeedInv, FeedTypeOK

LEMMA MailKeeps ==
  ASSUME FeedInv, NEW p \in Posts, MailChannel(p) \/ MailSender(p)
  PROVE  FeedInv'
<1>1. /\ Mine(p) /\ Told(p) /\ From[p] \in Senders
      /\ UNCHANGED <<log, slug, seen>> /\ pc[p] \in {"mail", "mailSender"}
  BY OnePostFacts DEF MailChannel, MailSender
<1>2. Kept /\ FeedTyped' /\ Resolves'
  BY <1>1, Created DEF MailChannel, MailSender
<1>3. CASE MailChannel(p)
  <2>1. MovesPost(p) /\ pc'[p] = "mailSender" /\ id'[p] = id[p] /\ outcome'[p] = outcome[p]
    BY <1>1, <1>3, SeenStays, Gone DEF MailChannel, Stages
  <2>2. Mine(p)'
    BY <2>1, <1>1 DEF Mine
  <2>3. Told(p)'
    BY <2>1, <1>1 DEF Told, Holds, Held
  <2> QED
    BY <1>2, <2>1, <2>2, <2>3, PostStep DEF OnePost, Unheld
<1>4. CASE MailSender(p)
  <2>1. MovesPost(p) /\ pc'[p] = "done" /\ outcome'[p] = "posted"
    BY <1>1, <1>4, SeenStays, Returned DEF MailSender, Results
  <2>2. Told(p)'
    BY <2>1, <1>1 DEF Told, Holds
  <2> QED
    BY <1>2, <2>1, <2>2, PostStep DEF OnePost, Mine, Unheld
<1> QED
  BY <1>3, <1>4

\* A failed call ends the post, and its poster may make it again.
LEMMA FailsKeeps ==
  ASSUME FeedInv, NEW p \in Posts, StoreFails(p) \/ Repost(p)
  PROVE  FeedInv'
<1>1. UNCHANGED feed /\ UNCHANGED <<log, slug, mids>> /\ Told(p)
  BY OnePostFacts DEF StoreFails, Repost, feed
<1>2. CASE StoreFails(p)
  <2>1. MovesPost(p) /\ pc'[p] = "done" /\ outcome'[p] = "error"
    BY <1>2, SeenSet, Returned DEF StoreFails, Results
  <2> QED
    BY <1>1, <2>1, FeedAloneStep DEF OnePost, Mine, Unheld, Told
<1>3. CASE Repost(p)
  <2>1. MovesPost(p) /\ pc'[p] = "append" /\ outcome'[p] = outcome[p] /\ outcome[p] = "error"
    BY <1>3, SeenStays, Gone DEF Repost, Stages
  <2> QED
    BY <1>1, <2>1, FeedAloneStep DEF OnePost, Mine, Unheld, Told
<1> QED
  BY <1>2, <1>3

LEMMA FeedNextInv == FeedInv /\ [FeedNext]_feedVars => FeedInv'
<1> SUFFICES ASSUME FeedInv, [FeedNext]_feedVars PROVE FeedInv'
  OBVIOUS
<1>1. ASSUME NEW p \in Posts,
             \/ AppendRecord(p) \/ ReadSlug(p) \/ Claim(p) \/ Verdict(p)
             \/ MailChannel(p) \/ MailSender(p) \/ StoreFails(p) \/ Repost(p)
      PROVE  FeedInv'
  BY <1>1, AppendKeeps, ReadSlugKeeps, ClaimKeeps, VerdictKeeps, MailKeeps, FailsKeeps
<1>2. CASE ReadPage \/ UNCHANGED feedVars
  <2>1. UNCHANGED <<log, slug, mids, pc, id, seen, outcome>> /\ UNCHANGED feed
    BY <1>2 DEF ReadPage, feedVars, feed, posting
  <2>2. Kept /\ Resolves'
    BY <2>1, FeedAlone
  <2>3. FeedTypeOK'
    BY <2>1 DEF FeedInv, FeedTypeOK
  <2>4. ASSUME NEW p \in Posts PROVE OnePost(p)'
    <3>1. OnePost(p) /\ UNCHANGED Revision
      BY <2>1 DEF FeedInv, Revision
    <3> QED
      BY <2>1, <3>1 DEF OnePost, Mine, Unheld, Told, Holds, Held
  <2> QED
    BY <2>2, <2>3, <2>4 DEF FeedInv
<1> QED
  BY <1>1, <1>2 DEF FeedNext

\* Two operators that race one slug cannot both win, and no index entry is a link
\* to nothing or to a draft: for any number of posts of any number of operators,
\* however their steps interleave, fail and are made again.
THEOREM IndexesHold == FeedSpec => []IndexesTrue
<1>1. FeedInv => IndexesTrue
  BY FeedAssumption DEF FeedInv, OnePost, Told, Holds, Held, IndexesTrue, Verdicts
<1> QED
  BY <1>1, FeedInitInv, FeedNextInv, PTL DEF FeedSpec

-----------------------------------------------------------------------------
(***************************************************************************)
(* What is published stays.                                                *)
(***************************************************************************)
\* A record keeps its id, a slug its operator, a message id its first record.
RecordsStay == \A i \in DOMAIN log : i \in DOMAIN log' /\ log'[i] = log[i]
OwnerStays  == slug # Nothing => slug' # Nothing /\ slug'.from = slug.from
LinksStay   == \A key \in DOMAIN mids : mids[key] # 0 => mids'[key] = mids[key]

\* A claim replaces no entry of another operator: what it compares is the revision
\* of an entry it found to be its own, or of none.
LEMMA ClaimStays ==
  ASSUME FeedInv, NEW p \in Posts, Claim(p)
  PROVE  OwnerStays
<1>1. Unheld(p) /\ id[p] \in Nat /\ From[p] \in Senders /\ Revision \in Nat
  BY OnePostFacts
<1>2. CASE /\ Unmoved(p)
           /\ slug' = [id |-> id[p], from |-> From[p], revision |-> Revision + 1]
  <2>1. slug' \in Entry /\ slug'.from = From[p]
    BY <1>1, <1>2 DEF Entry
  <2>2. slug' # Nothing
    BY <2>1, FeedAssumption DEF Entry
  <2>3. pc[p] = "claim" /\ seen[p] = Revision
    BY <1>2 DEF Claim, Unmoved
  <2> QED
    BY <1>1, <2>1, <2>2, <2>3 DEF Unheld, Held, OwnerStays
<1>3. CASE UNCHANGED slug
  BY <1>3 DEF OwnerStays
<1> QED
  BY <1>2, <1>3 DEF Claim

\* The index entries a permalink goes through are for good: whatever the posts of
\* other operators do, fail at or repeat, no step drops or alters a record, hands
\* a slug to another operator, or moves a message id to another record.
THEOREM PermalinksStay ==
  FeedSpec => [][RecordsStay /\ OwnerStays /\ LinksStay]_feedVars
<1>1. ASSUME FeedInv, FeedNext PROVE RecordsStay /\ OwnerStays /\ LinksStay
  <2>1. log \in Seq(Record) /\ mids \in [Senders \cup {Nothing} -> Nat]
    BY <1>1 DEF FeedInv, FeedTypeOK
  <2>2. UNCHANGED log => RecordsStay
    BY DEF RecordsStay
  <2>3. UNCHANGED slug => OwnerStays
    BY DEF OwnerStays
  <2>4. UNCHANGED mids => LinksStay
    BY DEF LinksStay
  <2>5. ASSUME NEW p \in Posts, AppendRecord(p) PROVE RecordsStay /\ UNCHANGED <<slug, mids>>
    <3>1. PICK r : log' = Append(log, r)
      BY <2>5 DEF AppendRecord
    <3> QED
      BY <2>1, <2>5, <3>1 DEF AppendRecord, RecordsStay
  <2>6. ASSUME NEW p \in Posts, Claim(p) PROVE OwnerStays /\ UNCHANGED <<log, mids>>
    BY <1>1, <2>6, ClaimStays DEF Claim
  <2>7. ASSUME NEW p \in Posts, MailChannel(p) \/ MailSender(p)
        PROVE  LinksStay /\ UNCHANGED <<log, slug>>
    <3>1. PICK key, i : Create(key, i)
      BY <2>7 DEF MailChannel, MailSender
    <3> QED
      BY <2>1, <2>7, <3>1 DEF MailChannel, MailSender, Create, LinksStay
  <2>8. ASSUME \/ ReadPage
               \/ \E p \in Posts : ReadSlug(p) \/ Verdict(p) \/ StoreFails(p) \/ Repost(p)
        PROVE  UNCHANGED <<log, slug, mids>>
    BY <2>8 DEF ReadPage, ReadSlug, Verdict, StoreFails, Repost, feed
  <2> QED
    BY <1>1, <2>2, <2>3, <2>4, <2>5, <2>6, <2>7, <2>8 DEF FeedNext
<1> QED
  BY <1>1, FeedInitInv, FeedNextInv, PTL DEF FeedSpec

-----------------------------------------------------------------------------
(***************************************************************************)
(* The reader of the feed.                                                 *)
(***************************************************************************)
\* What the reader was not shown is there, and below the last id it saw.
PageInv ==
  /\ reading \subseteq Served
  /\ page # Nothing => page \in Nat /\ \A i \in reading : i < page

\* Records are served for good; a step of a post leaves the reader alone.
LEMMA ServedGrows ==
  ASSUME FeedInv, [FeedNext]_feedVars
  PROVE  Served \subseteq Served' /\ (ReadPage \/ UNCHANGED reader)
<1>1. log \in Seq(Record)
  BY DEF FeedInv, FeedTypeOK
<1>2. UNCHANGED log \/ \E p \in Posts : AppendRecord(p)
  BY DEF FeedNext, AppendRecord, ReadSlug, Claim, Verdict, MailChannel, MailSender,
         StoreFails, Repost, ReadPage, feed, feedVars
<1>3. ASSUME NEW p \in Posts, AppendRecord(p) PROVE Served \subseteq Served'
  <2>1. PICK draft \in BOOLEAN : log' = Append(log, [post |-> p, draft |-> draft])
    BY <1>3 DEF AppendRecord
  <2>2. \A i \in DOMAIN log : i \in DOMAIN log' /\ log'[i] = log[i]
    BY <1>1, <2>1
  <2> QED
    BY <2>2 DEF Served
<1>4. UNCHANGED log => Served \subseteq Served'
  BY DEF Served
<1>5. ReadPage \/ UNCHANGED reader
  BY DEF FeedNext, AppendRecord, ReadSlug, Claim, Verdict, MailChannel, MailSender,
         StoreFails, Repost, feedVars
<1> QED
  BY <1>2, <1>3, <1>4, <1>5

\* A page is the newest of what is below: what it leaves is older than all of it.
LEMMA PageIsNewest ==
  ASSUME FeedInv, NEW below \in SUBSET Served, NEW i \in below,
         NEW m \in below, m < i, PageSize \in Nat,
         Cardinality({ j \in below : j > m }) < PageSize
  PROVE  Cardinality({ j \in below : j > i }) < PageSize
<1>1. Len(log) \in Nat /\ DOMAIN log = 1..Len(log)
  BY DEF FeedInv, FeedTypeOK
<1>2. IsFiniteSet(1..Len(log))
  BY <1>1, FS_Interval
<1> DEFINE Newer(k) == { j \in below : j > k }
<1>3. Newer(m) \subseteq 1..Len(log) /\ Newer(i) \subseteq Newer(m)
  BY <1>1 DEF Served
<1>4. IsFiniteSet(Newer(m))
  BY <1>2, <1>3, FS_Subset
<1>5. IsFiniteSet(Newer(i)) /\ Cardinality(Newer(i)) <= Cardinality(Newer(m))
  BY <1>3, <1>4, FS_Subset
<1>6. Cardinality(Newer(i)) \in Nat /\ Cardinality(Newer(m)) \in Nat
  BY <1>4, <1>5, FS_CardinalityType
<1> QED
  BY <1>5, <1>6

LEMMA PageNextInv ==
  ASSUME FeedInv, PageInv, [FeedNext]_feedVars
  PROVE  PageInv'
<1>1. Served \subseteq Served' /\ (ReadPage \/ UNCHANGED <<reading, page>>)
  BY ServedGrows DEF reader
<1>2. CASE UNCHANGED <<reading, page>>
  BY <1>1, <1>2 DEF PageInv
<1>3. CASE ReadPage
  <2> DEFINE below == { i \in Served : page = Nothing \/ i < page }
             ids == NewestBelow(page)
             left == IF page = Nothing THEN Served ELSE reading
  <2>1. ids # {} /\ page' = Min(ids) /\ reading' = left \ ids
    BY <1>3 DEF ReadPage, Turn
  <2>2. ids = { i \in below : Cardinality({ j \in below : j > i }) < PageSize }
    BY DEF NewestBelow
  <2>3. Served \subseteq Nat
    BY DEF Served, FeedInv, FeedTypeOK
  <2>4. ids \in SUBSET Nat
    BY <2>2, <2>3
  <2>5. Min(ids) \in ids /\ Min(ids) \in Nat
    BY <2>1, <2>4, LeastElement
  <2>6. left \subseteq below
    BY DEF PageInv
  <2>7. ASSUME NEW i \in left \ ids PROVE i < Min(ids)
    <3>1. i \in below /\ Min(ids) \in below /\ i # Min(ids)
      BY <2>2, <2>5, <2>6
    <3>2. Cardinality({ j \in below : j > Min(ids) }) < PageSize
      BY <2>2, <2>5
    <3>3. ~(Cardinality({ j \in below : j > i }) < PageSize)
      BY <2>2, <2>7, <3>1
    <3>4. ASSUME Min(ids) < i PROVE FALSE
      <4>1. below \in SUBSET Served /\ PageSize \in Nat
        BY FeedAssumption
      <4> HIDE DEF below, ids
      <4> QED
        BY <3>1, <3>2, <3>3, <3>4, <4>1, PageIsNewest
    <3>5. i \in Nat /\ Min(ids) \in Nat
      BY <2>3, <2>5, <3>1
    <3> QED
      BY <3>1, <3>4, <3>5
  <2>8. reading' \subseteq Served'
    BY <1>1, <2>1, <2>6
  <2> QED
    BY <2>1, <2>5, <2>7, <2>8 DEF PageInv
<1> QED
  BY <1>1, <1>2, <1>3

\* A reader who pages by the last id it saw misses no record that was there when
\* it began: for every page size, whatever is posted meanwhile.
THEOREM PagesComplete == FeedSpec => []PagingComplete
<1>1. FeedInit => FeedInv /\ PageInv
  BY FeedInitInv DEF FeedInit, PageInv
<1>2. FeedInv /\ PageInv /\ [FeedNext]_feedVars => FeedInv' /\ PageInv'
  BY FeedNextInv, PageNextInv
<1>3. PageInv => PagingComplete
  BY DEF PageInv, PagingComplete
<1> QED
  BY <1>1, <1>2, <1>3, PTL DEF FeedSpec

-----------------------------------------------------------------------------
(***************************************************************************)
(* Paged reads of stored files.                                            *)
(***************************************************************************)
\* Cursors whose stream stands where they say, in the object they say.
Cursors == { [key |-> o, at |-> k, stream |-> [of |-> o, pos |-> k]] :
             o \in Objects, k \in 0..Length }

Views == [at: {"idle", "open", "read", "park", "done"}, of: Objects \cup {"none"},
          offset: Nat, len: Nat, stream: [of: Objects \cup {"none"}, pos: Nat]]

End(v) == Shorter(v.offset + v.len, Length)
Bytes(v) == [k \in 1..(End(v) - v.offset) |-> v.offset + k]

\* A reader's stream stands at its offset when it reads, and it has its bytes after.
OneView(v, w) ==
  /\ v.at # "idle" => v.of \in Objects
  /\ v.at = "read" => v.offset <= Length /\ v.stream = [of |-> v.of, pos |-> v.offset]
  /\ v.at \in {"park", "done"} =>
       /\ v.offset <= Length /\ v.stream = [of |-> v.of, pos |-> End(v)]
       /\ w = Bytes(v)

ViewInv ==
  /\ viewer \in [Readers -> Views] /\ window = [r \in Readers |-> window[r]]
  /\ \A r \in Readers : OneView(viewer[r], window[r])

ReadInv == pool \in Seq(Cursors) /\ ViewInv

\* A step that moves one reader.
LEMMA ViewStep ==
  ASSUME ViewInv, NEW r \in Readers, NEW v \in Views, NEW w,
         viewer' = [viewer EXCEPT ![r] = v], window' = [window EXCEPT ![r] = w],
         OneView(v, w)
  PROVE  ViewInv'
<1>1. viewer' \in [Readers -> Views] /\ viewer'[r] = v
      /\ \A q \in Readers \ {r} : viewer'[q] = viewer[q]
  BY DEF ViewInv
<1>2. window' = [q \in Readers |-> window'[q]] /\ window'[r] = w
      /\ \A q \in Readers \ {r} : window'[q] = window[q]
  BY DEF ViewInv
<1>3. \A q \in Readers : OneView(viewer'[q], window'[q])
  BY <1>1, <1>2, Zenon DEF ViewInv
<1> QED
  BY <1>1, <1>2, <1>3 DEF ViewInv

\* A window that stays is updated to itself.
LEMMA WindowStays ==
  ASSUME ViewInv, NEW r \in Readers, UNCHANGED window
  PROVE  window' = [window EXCEPT ![r] = window[r]]
  BY DEF ViewInv

\* A cursor that is taken leaves the others in the pool.
LEMMA RemoveAtType ==
  ASSUME NEW S, NEW s \in Seq(S), NEW i \in 1..Len(s)
  PROVE  RemoveAt(s, i) \in Seq(S)
<1>1. Len(s) \in Nat /\ \A k \in 1..Len(s) : s[k] \in S
  BY LenProperties, ElementOfSeq
<1>2. SubSeq(s, 1, i - 1) \in Seq(S)
  BY <1>1, SubSeqProperties
<1>3. SubSeq(s, i + 1, Len(s)) \in Seq(S)
  BY <1>1, SubSeqProperties
<1> QED
  BY <1>2, <1>3, ConcatProperties DEF RemoveAt

\* A reader asks for a window: a cursor that stopped there, or a stream to open.
LEMMA TakeKeeps ==
  ASSUME ReadInv, NEW r \in Readers, NEW o \in Objects,
         NEW offset \in 0..(Length + 1), NEW len \in 1..Window, Take(r, o, offset, len)
  PROVE  ReadInv'
<1> DEFINE hits == { i \in DOMAIN pool : Matches(pool[i], o, offset) }
           asked(place, s) == [at |-> place, of |-> o, offset |-> offset,
                               len |-> len, stream |-> s]
<1>1. /\ pool \in Seq(Cursors) /\ ViewInv /\ Length \in Nat /\ Window \in Nat
      /\ offset \in Nat /\ len \in Nat
  BY BlobAssumption DEF ReadInv
<1>2. window' = [window EXCEPT ![r] = << >>]
  BY DEF Take
<1>3. CASE viewer' = [viewer EXCEPT ![r] = asked("open", NoStream)] /\ UNCHANGED pool
  <2>1. asked("open", NoStream) \in Views /\ OneView(asked("open", NoStream), << >>)
    BY <1>1 DEF Views, NoStream, OneView
  <2> HIDE DEF asked
  <2>2. ViewInv'
    BY <1>1, <1>2, <1>3, <2>1, ViewStep
  <2> QED
    BY <1>1, <1>3, <2>2 DEF ReadInv
<1>4. CASE /\ hits # {}
           /\ viewer' = [viewer EXCEPT ![r] = asked("read", pool[Min(hits)].stream)]
           /\ pool' = RemoveAt(pool, Min(hits))
  <2>1. DOMAIN pool = 1..Len(pool) /\ Len(pool) \in Nat
    BY <1>1, LenProperties
  <2>2. Min(hits) \in hits
    <3>1. hits \in SUBSET Nat
      BY <2>1
    <3> HIDE DEF hits
    <3> QED
      BY <1>4, <3>1, LeastElement
  <2>3. Min(hits) \in 1..Len(pool) /\ Matches(pool[Min(hits)], o, offset)
    BY <2>1, <2>2
  <2>4. pool[Min(hits)] \in Cursors
    BY <1>1, <2>3, ElementOfSeq
  <2> HIDE DEF hits
  <2>5. pool[Min(hits)].stream = [of |-> o, pos |-> offset] /\ offset <= Length
    BY <2>3, <2>4 DEF Cursors, Matches
  <2>6. /\ asked("read", pool[Min(hits)].stream) \in Views
        /\ OneView(asked("read", pool[Min(hits)].stream), << >>)
    BY <1>1, <2>5 DEF Views, OneView
  <2>7. ViewInv'
    <3> HIDE DEF asked
    <3> QED
      BY <1>1, <1>2, <1>4, <2>6, ViewStep
  <2> QED
    BY <1>1, <1>4, <2>3, <2>7, RemoveAtType DEF ReadInv
<1> QED
  BY <1>3, <1>4 DEF Take

\* A fresh stream is skipped to the offset.
LEMMA OpenKeeps ==
  ASSUME ReadInv, NEW r \in Readers, Open(r)
  PROVE  ReadInv'
<1> DEFINE v == viewer[r]
           w == [v EXCEPT !.at = "read", !.stream = [of |-> v.of, pos |-> v.offset]]
<1>1. ViewInv /\ v \in Views /\ OneView(v, window[r]) /\ Length \in Nat
  BY BlobAssumption DEF ReadInv, ViewInv
<1>2. v.at = "open" /\ v.offset <= Length /\ UNCHANGED <<pool, window>>
  BY DEF Open
<1>3. viewer' = [viewer EXCEPT ![r] = w]
  BY <1>1 DEF Open, ViewInv
<1>4. w \in Views /\ OneView(w, window[r])
  BY <1>1, <1>2 DEF Views, OneView
<1>5. ViewInv'
  <2> HIDE DEF w
  <2> QED
    BY <1>1, <1>2, <1>3, <1>4, WindowStays, ViewStep
<1> QED
  BY <1>2, <1>5 DEF ReadInv

\* The window is read where the stream stands.
LEMMA ReadKeeps ==
  ASSUME ReadInv, NEW r \in Readers, Read(r)
  PROVE  ReadInv'
<1> DEFINE v == viewer[r]
           w == [v EXCEPT !.at = "park", !.stream.pos = End(v)]
<1>1. ViewInv /\ v \in Views /\ OneView(v, window[r]) /\ Length \in Nat
  BY BlobAssumption DEF ReadInv, ViewInv
<1>2. v.at = "read" /\ UNCHANGED pool
  BY DEF Read
<1>3. /\ v.stream = [of |-> v.of, pos |-> v.offset] /\ v.of \in Objects
      /\ v.offset \in Nat /\ v.len \in Nat /\ v.offset <= Length
  BY <1>1, <1>2 DEF OneView, Views
<1>4. Shorter(v.stream.pos + v.len, Length) = End(v) /\ End(v) \in Nat
  BY <1>1, <1>3 DEF End, Shorter
<1>5. window' = [window EXCEPT ![r] = Bytes(v)]
  <2>1. v.stream.pos = v.offset
    BY <1>3
  <2>2. window' = [window EXCEPT ![r] =
          [k \in 1..(Shorter(v.stream.pos + v.len, Length) - v.stream.pos) |-> v.stream.pos + k]]
    BY Zenon DEF Read
  <2> QED
    BY <1>4, <2>1, <2>2, Zenon DEF Bytes
<1>6. viewer' = [viewer EXCEPT ![r] = w]
  BY <1>1, <1>4 DEF Read, ViewInv
<1>7. w \in Views /\ w.offset = v.offset /\ w.len = v.len /\ w.of = v.of /\ w.at = "park"
      /\ w.stream = [of |-> w.of, pos |-> End(v)]
  <2>1. w = [at |-> "park", of |-> v.of, offset |-> v.offset, len |-> v.len,
             stream |-> [of |-> v.of, pos |-> End(v)]]
    <3>1. [v.stream EXCEPT !.pos = End(v)] = [of |-> v.of, pos |-> End(v)]
      BY <1>3
    <3>2. w = [v EXCEPT !.at = "park", !.stream = [v.stream EXCEPT !.pos = End(v)]]
      BY <1>1 DEF Views
    <3>3. v = [at |-> v.at, of |-> v.of, offset |-> v.offset, len |-> v.len,
               stream |-> v.stream]
      BY <1>1 DEF Views
    <3> HIDE DEF w, v
    <3> QED
      BY <3>1, <3>2, <3>3
  <2> HIDE DEF w
  <2> QED
    BY <1>3, <1>4, <2>1 DEF Views
<1>8. End(w) = End(v) /\ Bytes(w) = Bytes(v)
  <2> HIDE DEF w
  <2> QED
    BY <1>7 DEF End, Bytes
<1>9. OneView(w, Bytes(v))
  BY <1>3, <1>7, <1>8 DEF OneView
<1>10. ViewInv'
  <2> HIDE DEF w
  <2> QED
    BY <1>1, <1>5, <1>6, <1>7, <1>9, ViewStep
<1> QED
  BY <1>2, <1>10 DEF ReadInv

\* The cursor that is parked stands where the reader believes it does.
LEMMA ParkKeeps ==
  ASSUME ReadInv, NEW r \in Readers, Park(r)
  PROVE  ReadInv'
<1> DEFINE v == viewer[r]
           w == [v EXCEPT !.at = "done"]
           after == v.offset + Len(window[r])
           cursor == [key |-> v.of, at |-> after, stream |-> v.stream]
<1>1. ViewInv /\ v \in Views /\ OneView(v, window[r]) /\ Length \in Nat /\ pool \in Seq(Cursors)
  BY BlobAssumption DEF ReadInv, ViewInv
<1>2. v.at = "park" /\ UNCHANGED window
  BY DEF Park
<1>3. /\ v.of \in Objects /\ v.offset \in Nat /\ v.len \in Nat /\ v.offset <= Length
      /\ v.stream = [of |-> v.of, pos |-> End(v)] /\ window[r] = Bytes(v)
  BY <1>1, <1>2 DEF OneView, Views
<1>4. End(v) \in v.offset..Length
  BY <1>1, <1>3 DEF End, Shorter
<1>5. Len(window[r]) = End(v) - v.offset
  <2>1. End(v) - v.offset \in Nat
    BY <1>3, <1>4
  <2> QED
    BY <1>3, <2>1 DEF Bytes
<1>6. after = End(v)
  BY <1>3, <1>4, <1>5
<1>7. cursor \in Cursors
  BY <1>3, <1>4, <1>6 DEF Cursors
<1>8. pool' \in Seq(Cursors)
  <2> HIDE DEF cursor
  <2>1. Append(pool, cursor) \in Seq(Cursors) /\ Append(pool, cursor) # << >>
    BY <1>1, <1>7
  <2>2. Tail(Append(pool, cursor)) \in Seq(Cursors)
    BY <2>1, HeadTailProperties
  <2>3. pool' \in {pool, Append(pool, cursor), Tail(Append(pool, cursor))}
    BY DEF Park, cursor
  <2> QED
    BY <1>1, <2>1, <2>2, <2>3
<1>9. viewer' = [viewer EXCEPT ![r] = w]
  BY <1>1 DEF Park, ViewInv
<1>10. w \in Views /\ OneView(w, window[r])
  BY <1>1, <1>2 DEF Views, OneView, End, Bytes
<1>11. ViewInv'
  <2> HIDE DEF w
  <2> QED
    BY <1>1, <1>2, <1>9, <1>10, WindowStays, ViewStep
<1> QED
  BY <1>8, <1>11 DEF ReadInv

LEMMA LeaveKeeps ==
  ASSUME ReadInv, NEW r \in Readers, Leave(r)
  PROVE  ReadInv'
<1>1. Idle \in Views /\ OneView(Idle, << >>)
  BY DEF Idle, NoStream, Views, OneView
<1>2. /\ viewer' = [viewer EXCEPT ![r] = Idle]
      /\ window' = [window EXCEPT ![r] = << >>] /\ UNCHANGED pool
  BY DEF Leave
<1> QED
  BY <1>1, <1>2, ViewStep DEF ReadInv

\* A reader gets the bytes it asked for, of the object it asked for: for any
\* number of readers, sizes of a window and of the pool, whoever's stream it
\* continues, whatever was evicted, lost or deleted meanwhile.
THEOREM WindowsHold == BlobSpec => []WindowsRight
<1>1. BlobInit => ReadInv
  <2> SUFFICES ASSUME BlobInit PROVE ReadInv
    OBVIOUS
  <2>1. Idle \in Views /\ OneView(Idle, << >>)
    BY DEF Idle, NoStream, Views, OneView
  <2>2. pool \in Seq(Cursors)
    BY DEF BlobInit
  <2> QED
    BY <2>1, <2>2 DEF BlobInit, ReadInv, ViewInv
<1>2. ReadInv /\ [ReadNext \/ NotesNext]_blobVars => ReadInv'
  <2> SUFFICES ASSUME ReadInv, [ReadNext \/ NotesNext]_blobVars PROVE ReadInv'
    OBVIOUS
  <2>1. ASSUME UNCHANGED readVars PROVE ReadInv'
    BY <2>1 DEF readVars, ReadInv, ViewInv
  <2>2. CASE NotesNext \/ UNCHANGED blobVars \/ \E o \in Objects : Delete(o)
    BY <2>1, <2>2 DEF NotesNext, Lock, ReadNotes, WriteNotes, NotesFail, DeleteNotes,
                      Delete, blobVars, readVars
  <2> QED
    BY <2>2, TakeKeeps, OpenKeeps, ReadKeeps, ParkKeeps, LeaveKeeps DEF ReadNext
<1>3. ReadInv => WindowsRight
  <2> SUFFICES ASSUME ReadInv, NEW r \in Readers, viewer[r].at \in {"park", "done"}
               PROVE  viewer[r].stream.of = viewer[r].of /\ window[r] = Bytes(viewer[r])
    BY Zenon DEF WindowsRight, Bytes, End
  <2>1. OneView(viewer[r], window[r])
    BY DEF ReadInv, ViewInv
  <2>2. /\ viewer[r].stream = [of |-> viewer[r].of, pos |-> End(viewer[r])]
        /\ window[r] = Bytes(viewer[r])
    BY <2>1 DEF OneView
  <2> QED
    BY <2>2
<1> QED
  BY <1>1, <1>2, <1>3, PTL DEF BlobSpec

-----------------------------------------------------------------------------
(***************************************************************************)
(* Annotations of a stored file.                                           *)
(***************************************************************************)
\* The writer that holds the lock is alone, and what it read is what is stored.
NoteInv ==
  /\ writer \in [Notes -> {"idle", "lock", "write", "done"}]
  /\ copy \in [Notes -> SUBSET Notes]
  /\ \A n \in Notes : writer[n] \in {"lock", "write"} =>
       /\ lock # "free"
       /\ \A m \in Notes \ {n} : writer[m] \notin {"lock", "write"}
  /\ \A n \in Notes : writer[n] = "write" => sidecar \subseteq copy[n]
  /\ kept \subseteq sidecar /\ sidecar \subseteq Notes

LEMMA NoteNextInv ==
  ASSUME ~NotesFaults, NoteInv, [ReadNext \/ NotesNext]_blobVars
  PROVE  NoteInv'
<1>1. ASSUME UNCHANGED noteVars PROVE NoteInv'
  BY <1>1 DEF noteVars, NoteInv
<1>2. CASE ReadNext \/ UNCHANGED blobVars
  <2>1. ASSUME NEW r \in Readers, Open(r) \/ Read(r) \/ Park(r) \/ Leave(r)
        PROVE  UNCHANGED noteVars
    BY <2>1 DEF Open, Read, Park, Leave
  <2>2. ASSUME NEW r \in Readers, NEW o \in Objects, NEW offset \in 0..(Length + 1),
               NEW len \in 1..Window, Take(r, o, offset, len)
        PROVE  UNCHANGED noteVars
    BY <2>2 DEF Take
  <2>3. ASSUME NEW o \in Objects, Delete(o) PROVE UNCHANGED noteVars
    BY <2>3 DEF Delete
  <2>4. UNCHANGED blobVars => UNCHANGED noteVars
    BY DEF blobVars, noteVars
  <2> QED
    BY <1>1, <1>2, <2>1, <2>2, <2>3, <2>4 DEF ReadNext
<1>3. ASSUME NEW n \in Notes, Lock(n) PROVE NoteInv'
  BY <1>3 DEF Lock, Free, NoteInv
<1>4. ASSUME NEW n \in Notes, ReadNotes(n) PROVE NoteInv'
  <2>1. copy' = [copy EXCEPT ![n] = sidecar]
    BY <1>4 DEF ReadNotes
  <2> QED
    BY <1>4, <2>1 DEF ReadNotes, NoteInv
<1>5. ASSUME NEW n \in Notes, WriteNotes(n) PROVE NoteInv'
  BY <1>5 DEF WriteNotes, NoteInv
<1>6. ASSUME NEW n \in Notes, NotesFail(n) PROVE NoteInv'
  BY <1>6 DEF NotesFail, NoteInv
<1>7. CASE DeleteNotes
  BY <1>7 DEF DeleteNotes, NoteInv
<1> QED
  BY <1>2, <1>3, <1>4, <1>5, <1>6, <1>7 DEF NotesNext

\* An acknowledged annotation is there until the object is deleted, for any
\* number of callers, as long as the stored annotations can be read: a sidecar
\* that cannot be opened reads as none, and the next write loses the others.
THEOREM NotesStay ==
  ASSUME ~NotesFaults
  PROVE  BlobSpec => []NotesKept
<1>1. BlobInit => NoteInv
  BY DEF BlobInit, NoteInv
<1>2. NoteInv /\ [ReadNext \/ NotesNext]_blobVars => NoteInv'
  BY NoteNextInv
<1>3. NoteInv => NotesKept
  BY DEF NoteInv, NotesKept
<1> QED
  BY <1>1, <1>2, <1>3, PTL DEF BlobSpec

=============================================================================
