------------------------------ MODULE FeedIndex ------------------------------
(***************************************************************************)
(* One feed channel (noolog-feed/src/lib.rs over the primitives of         *)
(* store.rs): concurrent posts that append a record, claim the slug by     *)
(* compare-and-set and the message id create-only, and a reader that pages *)
(* from the newest record down while posts arrive.  All posts here carry   *)
(* the same slug and message id, if any; a post that failed is made again  *)
(* while the log is shorter than MaxLog.                                   *)
(*                                                                         *)
(* A definition named Wrong... is a mutated form of the one after it.      *)
(***************************************************************************)
EXTENDS Integers, Sequences, FiniteSets, FiniteSetsExt

CONSTANTS
  Posts,      \* calls of post
  From,       \* who makes each
  Slugged, Mailed, Draftable,  \* posts with a slug, with a message id, posts
              \* that may be drafts
  PageSize,   \* the reader's limit
  MaxLog,     \* bound: no post is repeated once the log is this long
  Nothing

Senders == { From[p] : p \in Posts }
ASSUME FeedAssumption ==
  /\ Slugged \subseteq Posts /\ Mailed \subseteq Posts /\ Draftable \subseteq Posts
  /\ PageSize \in Nat \ {0} /\ MaxLog \in Nat
  /\ Nothing \notin Nat /\ Nothing \notin [id: Nat, from: Senders, revision: Nat]

VARIABLES
  log,      \* the channel's records, in id order: [post, draft]
  slug,     \* the slug index entry: [id, from, revision], or Nothing
  mids,     \* message-id index: by sender, and under Nothing for the channel
  pc,       \* where each call of post is
  id,       \* the id its record was given, while the call runs
  seen,     \* the revision of the slug entry it read, until it is used
  outcome,  \* "none", "posted", "taken" or "error"
  reading, page  \* the reader: the ids that were there when it began and it
                 \* was not shown yet, the last id it saw (or Nothing)

posting == <<pc, id, seen, outcome>>
reader  == <<reading, page>>
feed    == <<log, slug, mids>>
feedVars == <<feed, posting, reader>>

Served == { i \in DOMAIN log : ~log[i].draft }

FeedInit ==
  /\ log = << >> /\ slug = Nothing
  /\ mids = [s \in Senders \cup {Nothing} |-> 0]
  /\ pc = [p \in Posts |-> "append"]
  /\ id = [p \in Posts |-> 0]
  /\ seen = [p \in Posts |-> 0]
  /\ outcome = [p \in Posts |-> "none"]
  /\ reading = {} /\ page = Nothing

Goto(p, place) == pc' = [pc EXCEPT ![p] = place] /\ UNCHANGED <<id, outcome>>
Return(p, result) == /\ pc' = [pc EXCEPT ![p] = "done"]
                     /\ outcome' = [outcome EXCEPT ![p] = result]
                     /\ id' = [id EXCEPT ![p] = 0]

\* After the slug, or without one: the message id, or the end.
AfterSlug(p) == IF p \in Mailed THEN Goto(p, "mail") ELSE Return(p, "posted")

Indexed(p, draft) == p \in Slugged /\ ~draft

AppendRecord(p) ==
  /\ pc[p] = "append"
  /\ \E draft \in IF p \in Draftable THEN BOOLEAN ELSE {FALSE} :
       /\ log' = Append(log, [post |-> p, draft |-> draft])
       /\ IF Indexed(p, draft) \/ p \in Mailed
          THEN /\ pc' = [pc EXCEPT ![p] =
                           IF Indexed(p, draft) THEN "slug" ELSE "mail"]
               /\ id' = [id EXCEPT ![p] = Len(log) + 1]
               /\ UNCHANGED outcome
          ELSE Return(p, "posted")
  /\ UNCHANGED <<slug, mids, seen, reader>>

(***************************************************************************)
(* claim_slug: read the entry; refuse when another operator holds it;      *)
(* create or replace it at the revision that was read; when that loses,    *)
(* the index says who won.                                                 *)
(***************************************************************************)
Held(entry, p) == entry # Nothing /\ entry.from # From[p]

Revision == IF slug = Nothing THEN 0 ELSE slug.revision

ReadSlug(p) ==
  /\ pc[p] = "slug"
  /\ IF Held(slug, p)
     THEN Return(p, "taken") /\ UNCHANGED seen
     ELSE Goto(p, "claim") /\ seen' = [seen EXCEPT ![p] = Revision]
  /\ UNCHANGED <<feed, reader>>

Unmoved(p) == Revision = seen[p]

Claim(p) ==
  /\ pc[p] = "claim"
  /\ IF Unmoved(p)
     THEN /\ slug' = [id |-> id[p], from |-> From[p],
                      revision |-> Revision + 1]
          /\ AfterSlug(p)
     ELSE UNCHANGED slug /\ Goto(p, "verdict")
  /\ seen' = [seen EXCEPT ![p] = 0]
  /\ UNCHANGED <<log, mids, reader>>

WrongVerdict(p) ==          \* a lost compare-and-set passes for a win
  /\ pc[p] = "verdict"
  /\ AfterSlug(p)
  /\ UNCHANGED <<feed, seen, reader>>

Verdict(p) ==
  /\ pc[p] = "verdict"
  /\ IF Held(slug, p) THEN Return(p, "taken") ELSE AfterSlug(p)
  /\ UNCHANGED <<feed, seen, reader>>

\* claim_message_id: two create-only entries, the channel's and the sender's.
Create(key, i) == mids' = IF mids[key] = 0 THEN [mids EXCEPT ![key] = i] ELSE mids

MailChannel(p) ==
  /\ pc[p] = "mail" /\ Create(Nothing, id[p]) /\ Goto(p, "mailSender")
  /\ UNCHANGED <<log, slug, seen, reader>>

MailSender(p) ==
  /\ pc[p] = "mailSender" /\ Create(From[p], id[p]) /\ Return(p, "posted")
  /\ UNCHANGED <<log, slug, seen, reader>>

\* Any call of the store may fail and end the post, its record appended or not.
StoreFails(p) ==
  /\ pc[p] # "done" /\ Return(p, "error")
  /\ seen' = [seen EXCEPT ![p] = 0]
  /\ UNCHANGED <<feed, reader>>

\* The poster is told of an error and posts again: another record.
Repost(p) ==
  /\ outcome[p] = "error" /\ pc[p] = "done" /\ Len(log) < MaxLog
  /\ Goto(p, "append")
  /\ UNCHANGED <<feed, seen, reader>>

(***************************************************************************)
(* page: the newest records below `before`, drafts left out.  They come    *)
(* newest first, so the last id the reader saw is the lowest.              *)
(***************************************************************************)
NewestBelow(before) ==
  LET below == { i \in Served : before = Nothing \/ i < before }
  IN  { i \in below : Cardinality({ j \in below : j > i }) < PageSize }

WrongTurn(ids) == page' = IF page = Nothing THEN Min(ids) ELSE Min(ids) - 1
Turn(ids) == page' = Min(ids)     \* paging is by the last id it saw

ReadPage ==
  LET ids == NewestBelow(page)
  IN /\ ids # {} /\ Turn(ids)
     /\ reading' = (IF page = Nothing THEN Served ELSE reading) \ ids
     /\ UNCHANGED <<feed, posting>>

FeedNext ==
  \/ \E p \in Posts :
       \/ AppendRecord(p) \/ ReadSlug(p) \/ Claim(p) \/ Verdict(p)
       \/ MailChannel(p) \/ MailSender(p) \/ StoreFails(p) \/ Repost(p)
  \/ ReadPage

FeedSpec == FeedInit /\ [][FeedNext]_feedVars

-----------------------------------------------------------------------------
\* Every index entry is a permalink to something: it names a record that is in
\* the log, that carries the key, and for a slug one that is served and of whoever
\* is on the entry.
Resolves ==
  /\ slug # Nothing => /\ slug.id \in Served
                       /\ From[log[slug.id].post] = slug.from
  /\ \A key \in DOMAIN mids : mids[key] # 0 =>
       mids[key] \in DOMAIN log /\ log[mids[key]].post \in Mailed

\* What the posters were told: who posted under the slug (never as a draft) holds
\* it, who was told that it is taken does not.
Verdicts ==
  \A p \in Slugged \ Draftable :
    /\ outcome[p] = "posted" => slug # Nothing /\ slug.from = From[p]
    /\ outcome[p] = "taken"  => slug # Nothing /\ slug.from # From[p]

\* Two operators that race one slug cannot both win, and no index entry is a link
\* to nothing or to a draft, however the steps of the posts interleave or fail.
IndexesTrue == Resolves /\ Verdicts

\* A reader who pages by the last id it saw misses nothing: every record that
\* was there when it began and is not older than that id was shown to it,
\* whatever is posted meanwhile.
PagingComplete == page # Nothing => \A i \in reading : i < page

=============================================================================
