-------------------------- MODULE DocumentService --------------------------
(***************************************************************************)
(* One call of create_document (services/document_service.py): the text is *)
(* cut into overlapping windows of words, every window is embedded by the  *)
(* provider, and the document is committed with all its chunks or not at   *)
(* all.  A text is its number of words; words are numbered from zero, and  *)
(* a chunk is the first and the last word it holds.                        *)
(***************************************************************************)
EXTENDS Integers, Sequences

CONSTANTS
  MaxWords,   \* bound: words of a text
  MaxSize,    \* bound: words of a window
  MaxOverlap  \* bound: words two windows share

ASSUME BoundsAssumption ==
  MaxWords \in Nat /\ MaxSize \in Nat \ {0} /\ MaxOverlap \in Nat

VARIABLES
  words, size, overlap,  \* the arguments of chunk_text
  start,                 \* its loop variable
  chunks,                \* the windows it has cut so far
  document_chunks,       \* committed rows; their index is chunk_index + 1
  pc

arguments == <<words, size, overlap>>
vars == <<arguments, start, chunks, document_chunks, pc>>

Chunk == [first : Nat, last : Nat]

\* FAULT: an overlap as large as the window stops the loop from advancing.
step_unguarded == size - overlap

\* step = max(1, size - overlap)
step == IF size - overlap > 1 THEN size - overlap ELSE 1

\* words[start : start + size]
window ==
  [first |-> start, last |-> IF start + size < words THEN start + size - 1 ELSE words - 1]

\* Whether the loop ends after the window at start: the break, or the end
\* of the range.
\* FAULT: without the break, windows inside the last one follow it.
Last_range_only == start + step >= words

\* FAULT: the loop leaves the last window to the one before it.
Last_early == start + step + size >= words

Last == start + size >= words \/ start + step >= words

-----------------------------------------------------------------------------
Init ==
  /\ words \in 0..MaxWords /\ size \in 1..MaxSize /\ overlap \in 0..MaxOverlap
  /\ start = 0
  /\ chunks = <<>>
  /\ document_chunks = <<>>
  /\ pc = IF words = 0 THEN "embedded" ELSE "chunking"

\* One iteration of the loop.
chunk_text ==
  /\ pc = "chunking"
  /\ chunks' = Append(chunks, window)
  /\ start' = start + step
  /\ pc' = IF Last THEN "chunked" ELSE "chunking"
  /\ UNCHANGED <<arguments, document_chunks>>

\* The provider returns one vector for each chunk.  A text without words
\* has no chunks and needs no call.
embed ==
  /\ pc = "chunked"
  /\ pc' = "embedded"
  /\ UNCHANGED <<arguments, start, chunks, document_chunks>>

\* The provider raises, or zip(strict=True) finds that vectors are missing:
\* the session is closed and what it flushed is rolled back.
embed_fails ==
  /\ pc = "chunked"
  /\ pc' = "failed"
  /\ UNCHANGED <<arguments, start, chunks, document_chunks>>

\* FAULT: a text without words is not committed.
commit_nonempty ==
  /\ pc = "embedded" /\ chunks # <<>>
  /\ document_chunks' = chunks
  /\ pc' = "committed"
  /\ UNCHANGED <<arguments, start, chunks>>

commit ==
  /\ pc = "embedded"
  /\ document_chunks' = chunks
  /\ pc' = "committed"
  /\ UNCHANGED <<arguments, start, chunks>>

Next == chunk_text \/ embed \/ embed_fails \/ commit

Spec == Init /\ [][Next]_vars

\* The provider call returns or raises, so the handler goes on.
FairSpec == Spec /\ WF_vars(Next)

-----------------------------------------------------------------------------
TypeOK ==
  /\ words \in 0..MaxWords /\ size \in 1..MaxSize /\ overlap \in 0..MaxOverlap
  /\ start \in Nat
  /\ chunks \in Seq(Chunk)
  /\ document_chunks \in Seq(Chunk)
  /\ pc \in {"chunking", "chunked", "embedded", "failed", "committed"}

\* Every word of a committed document can be retrieved: the windows leave
\* out none, however size, overlap and the length of the text relate.
EveryWordRetrievable ==
  pc = "committed" =>
    \A i \in 0..(words - 1) :
      \E k \in DOMAIN document_chunks :
        i \in document_chunks[k].first..document_chunks[k].last

\* Windows advance: each brings words that the one before it does not have,
\* and shares with it exactly the overlap that was asked for, unless that
\* is as large as the window and one word has to be enough.
WindowsAdvance ==
  \A k \in 1..(Len(chunks) - 1) :
    /\ chunks[k].last < chunks[k + 1].last
    /\ chunks[k].last - chunks[k + 1].first + 1 = IF overlap < size THEN overlap ELSE size - 1

\* The loop ends, and with it the request.
Terminates == <>(pc \in {"committed", "failed"})

=============================================================================
