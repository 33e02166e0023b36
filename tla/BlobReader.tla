----------------------------- MODULE BlobReader -----------------------------
(***************************************************************************)
(* NatsBlob (noolog-files, blob.rs): paged reads that continue an open     *)
(* stream from a bounded pool shared by all readers, annotations changed   *)
(* by read-modify-write under one lock, and deletion.  A byte is its       *)
(* position in the object.                                                 *)
(*                                                                         *)
(* A definition named Wrong... is a mutated form of the one after it.      *)
(***************************************************************************)
EXTENDS Integers, FiniteSets, SequencesExt

CONSTANTS
  Readers, Objects,
  Length,       \* of every object
  Window,       \* the longest window a reader asks for
  MaxCursors,   \* MAX_OPEN_CURSORS
  Notes,        \* annotations, each written by one caller
  NotesFaults   \* whether reading the stored annotations may fail

ASSUME BlobAssumption ==
  Length \in Nat /\ Window \in Nat /\ MaxCursors \in Nat /\ NotesFaults \in BOOLEAN

NoStream == [of |-> "none", pos |-> 0]

VARIABLES
  stored,    \* objects in the bucket
  pool,      \* cursors, oldest first: [key, at, stream]
  viewer,    \* each reader: [at, of, offset, len, stream]
  window,    \* the positions the last read returned
  sidecar,   \* the stored annotations
  lock,      \* holder of `annotating`, or "free"
  writer,    \* each annotation's caller: "idle", "lock", "write", "done"
  copy,      \* what it read
  kept       \* ghost: annotations acknowledged since the last deletion

blobVars == <<stored, pool, viewer, window, sidecar, lock, writer, copy, kept>>
readVars == <<pool, viewer, window>>
noteVars == <<sidecar, lock, writer, copy, kept>>

Idle == [at |-> "idle", of |-> "none", offset |-> 0, len |-> 0, stream |-> NoStream]

BlobInit ==
  /\ stored = Objects /\ pool = << >>
  /\ viewer = [r \in Readers |-> Idle] /\ window = [r \in Readers |-> << >>]
  /\ sidecar = {} /\ lock = "free" /\ kept = {}
  /\ writer = [n \in Notes |-> "idle"] /\ copy = [n \in Notes |-> {}]

-----------------------------------------------------------------------------
WrongMatches(c, o, offset) == c.key = o          \* a cursor of the object
Matches(c, o, offset) == c.key = o /\ c.at = offset

\* CursorPool::take: the first cursor that stopped exactly there leaves the pool.
Take(r, o, offset, len) ==
  /\ viewer[r].at = "idle"
  /\ LET hits == { i \in DOMAIN pool : Matches(pool[i], o, offset) }
         asked(place, s) == [at |-> place, of |-> o, offset |-> offset,
                             len |-> len, stream |-> s]
     IN IF hits = {}
        THEN viewer' = [viewer EXCEPT ![r] = asked("open", NoStream)] /\ UNCHANGED pool
        ELSE /\ viewer' = [viewer EXCEPT ![r] = asked("read", pool[Min(hits)].stream)]
             /\ pool' = RemoveAt(pool, Min(hits))
  /\ window' = [window EXCEPT ![r] = << >>]
  /\ UNCHANGED <<stored, noteVars>>

\* No cursor: a fresh stream, skipped to the offset; past the end is an error.
Open(r) ==
  /\ viewer[r].at = "open"
  /\ viewer[r].of \in stored /\ viewer[r].offset <= Length
  /\ viewer' = [viewer EXCEPT ![r].at = "read",
       ![r].stream = [of |-> viewer[r].of, pos |-> viewer[r].offset]]
  /\ UNCHANGED <<stored, pool, window, noteVars>>

Shorter(a, b) == IF a < b THEN a ELSE b

\* The window is read off the stream, wherever that stands.
Read(r) ==
  /\ viewer[r].at = "read"
  /\ LET s == viewer[r].stream
         end == Shorter(s.pos + viewer[r].len, Length)
     IN /\ window' = [window EXCEPT ![r] = [k \in 1..(end - s.pos) |-> s.pos + k]]
        /\ viewer' = [viewer EXCEPT ![r].at = "park", ![r].stream.pos = end]
  /\ UNCHANGED <<stored, pool, noteVars>>

\* CursorPool::put under the position the reader believes in: the oldest goes
\* when the pool is full.
Park(r) ==
  /\ viewer[r].at = "park"
  /\ LET after == viewer[r].offset + Len(window[r])
         more == Append(pool, [key |-> viewer[r].of, at |-> after,
                               stream |-> viewer[r].stream])
     IN pool' = IF after >= Length THEN pool
                ELSE IF Len(more) > MaxCursors THEN Tail(more) ELSE more
  /\ viewer' = [viewer EXCEPT ![r].at = "done"]
  /\ UNCHANGED <<stored, window, noteVars>>

\* The broker fails the read, the object is gone or the offset is past its end:
\* the stream is lost.  Or the reader, done, may ask again.
Leave(r) ==
  /\ viewer[r].at \in {"open", "read", "done"}
  /\ viewer' = [viewer EXCEPT ![r] = Idle] /\ window' = [window EXCEPT ![r] = << >>]
  /\ UNCHANGED <<stored, pool, noteVars>>

-----------------------------------------------------------------------------
WrongFree == TRUE                \* no lock around the read-modify-write
Free == lock = "free"

Lock(n) ==
  /\ writer[n] = "idle" /\ Free
  /\ lock' = "held" /\ writer' = [writer EXCEPT ![n] = "lock"]
  /\ UNCHANGED <<stored, readVars, sidecar, copy, kept>>

\* A sidecar that cannot be opened reads as no annotations.
ReadNotes(n) ==
  /\ writer[n] = "lock" /\ writer' = [writer EXCEPT ![n] = "write"]
  /\ \E seen \in {sidecar} \cup (IF NotesFaults THEN {{}} ELSE {}) :
       copy' = [copy EXCEPT ![n] = seen]
  /\ UNCHANGED <<stored, readVars, sidecar, lock, kept>>

WriteNotes(n) ==
  /\ writer[n] = "write" /\ writer' = [writer EXCEPT ![n] = "done"]
  /\ sidecar' = copy[n] \cup {n} /\ kept' = kept \cup {n} /\ lock' = "free"
  /\ UNCHANGED <<stored, readVars, copy>>

\* The write, or an await before it, fails: an error, nothing changed.
NotesFail(n) ==
  /\ writer[n] \in {"lock", "write"} /\ writer' = [writer EXCEPT ![n] = "done"]
  /\ lock' = "free"
  /\ UNCHANGED <<stored, readVars, sidecar, copy, kept>>

\* delete: the sidecar, whose failure is ignored, then the object.  It does not
\* take the annotations' lock.
DeleteNotes ==
  /\ sidecar' = {} /\ kept' = {} /\ sidecar # {}
  /\ UNCHANGED <<stored, readVars, lock, writer, copy>>

Delete(o) ==
  /\ o \in stored /\ stored' = stored \ {o}
  /\ UNCHANGED <<readVars, noteVars>>

ReadNext ==
  \/ \E r \in Readers :
       \/ \E o \in Objects, offset \in 0..(Length + 1), len \in 1..Window : Take(r, o, offset, len)
       \/ Open(r) \/ Read(r) \/ Park(r) \/ Leave(r)
  \/ \E o \in Objects : Delete(o)

NotesNext ==
  \/ \E n \in Notes : Lock(n) \/ ReadNotes(n) \/ WriteNotes(n) \/ NotesFail(n)
  \/ DeleteNotes

BlobSpec == BlobInit /\ [][ReadNext \/ NotesNext]_blobVars

-----------------------------------------------------------------------------
\* What a reader gets are the bytes it asked for, of the object it asked for,
\* whoever's stream it continues and whatever was evicted meanwhile.
WindowsRight ==
  \A r \in Readers : viewer[r].at \in {"park", "done"} =>
    LET end == Shorter(viewer[r].offset + viewer[r].len, Length)
    IN /\ viewer[r].stream.of = viewer[r].of
       /\ window[r] = [k \in 1..(end - viewer[r].offset) |-> viewer[r].offset + k]

\* An acknowledged annotation is there until the object is deleted, however many
\* callers annotate it.
NotesKept == kept \subseteq sidecar
=============================================================================
