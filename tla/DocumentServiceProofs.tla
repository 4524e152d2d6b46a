----------------------- MODULE DocumentServiceProofs -----------------------
(***************************************************************************)
(* Proofs about DocumentService for texts, windows and overlaps of every   *)
(* length.                                                                 *)
(***************************************************************************)
EXTENDS DocumentService, TLAPS

\* The loop variable is inside the text while the loop runs, the windows cut
\* so far hold every word before start + size - step, and start has just
\* moved on from the last window.
Covered(i) == \E k \in DOMAIN chunks : i \in chunks[k].first..chunks[k].last

LoopInv ==
  /\ TypeOK
  /\ pc = "chunking" =>
       /\ start < words
       /\ \A i \in 0..(start - 1) : Covered(i)
  /\ pc \in {"chunked", "embedded", "committed"} => \A i \in 0..(words - 1) : Covered(i)
  /\ pc = "committed" => document_chunks = chunks

LEMMA StepBounds ==
  ASSUME TypeOK
  PROVE  step \in 1..size
BY BoundsAssumption DEF TypeOK, step

LEMMA WindowType ==
  ASSUME TypeOK, start < words
  PROVE  /\ window \in Chunk
         /\ window.first = start
         /\ window.last = IF start + size < words THEN start + size - 1 ELSE words - 1
BY BoundsAssumption DEF TypeOK, window, Chunk

LEMMA LoopInit == Init => LoopInv
BY BoundsAssumption DEF Init, LoopInv, TypeOK, Chunk

\* One iteration covers the words from start to the end of its window, and
\* the next start is not beyond that.
LEMMA LoopStep == LoopInv /\ [Next]_vars => LoopInv'
<1> SUFFICES ASSUME LoopInv, [Next]_vars PROVE LoopInv'
  OBVIOUS
<1> USE DEF LoopInv
<1>1. CASE chunk_text
  <2>1. /\ start < words /\ start \in Nat /\ words \in Nat /\ size \in Nat \ {0}
        /\ chunks \in Seq(Chunk) /\ step \in 1..size
    BY <1>1, StepBounds, BoundsAssumption DEF chunk_text, TypeOK
  <2>2. /\ window \in Chunk /\ window.first = start
        /\ window.last = IF start + size < words THEN start + size - 1 ELSE words - 1
    BY <2>1, WindowType
  <2>3. /\ chunks' \in Seq(Chunk)
        /\ DOMAIN chunks' = 1..(Len(chunks) + 1) /\ DOMAIN chunks = 1..Len(chunks)
        /\ Len(chunks) \in Nat
        /\ \A k \in 1..Len(chunks) : chunks'[k] = chunks[k]
        /\ chunks'[Len(chunks) + 1] = window
    BY <1>1, <2>1, <2>2 DEF chunk_text
  <2>4. TypeOK'
    BY <1>1, <2>1, <2>3 DEF chunk_text, TypeOK, arguments
  <2>5. \A i : Covered(i) => Covered(i)'
    BY <2>3 DEF Covered
  <2>6. \A i \in start..window.last : Covered(i)'
    BY <2>2, <2>3 DEF Covered
  <2>7. \A i \in 0..window.last : Covered(i)'
    <3> SUFFICES ASSUME NEW i \in 0..window.last PROVE Covered(i)'
      OBVIOUS
    <3>1. CASE i < start
      BY <1>1, <2>1, <2>2, <2>5, <3>1 DEF chunk_text
    <3>2. CASE i >= start
      BY <2>1, <2>2, <2>6, <3>2
    <3> QED
      BY <2>1, <2>2, <3>1, <3>2 DEF Chunk
  <2>8. CASE Last
    <3>1. window.last = words - 1
      BY <2>1, <2>2, <2>8 DEF Last
    <3>2. pc' = "chunked" /\ words' = words
      BY <1>1, <2>8 DEF chunk_text, arguments
    <3> QED
      BY <2>4, <2>7, <3>1, <3>2
  <2>9. CASE ~Last
    <3>1. /\ start' < words' /\ start' - 1 \in 0..window.last
          /\ start' = start + step
      BY <1>1, <2>1, <2>2, <2>9 DEF chunk_text, Last, arguments
    <3>2. pc' = "chunking" /\ words' = words
      BY <1>1, <2>9 DEF chunk_text, arguments
    <3>3. \A i \in 0..(start' - 1) : Covered(i)'
      BY <2>1, <2>2, <2>7, <3>1
    <3> QED
      BY <2>4, <3>1, <3>2, <3>3
  <2> QED
    BY <2>8, <2>9
<1>2. CASE embed \/ embed_fails \/ commit
  BY <1>2 DEF embed, embed_fails, commit, TypeOK, Covered, arguments
<1>3. CASE UNCHANGED vars
  BY <1>3 DEF vars, arguments, TypeOK, Covered
<1> QED
  BY <1>1, <1>2, <1>3 DEF Next

\* chunk_text and create_document lose no word, whatever the length of the
\* text, the size of the windows and their overlap.
THEOREM EveryWordKept == Spec => []EveryWordRetrievable
<1>1. Spec => []LoopInv
  BY LoopInit, LoopStep, PTL DEF Spec
<1>2. LoopInv => EveryWordRetrievable
  BY DEF LoopInv, EveryWordRetrievable, Covered
<1> QED
  BY <1>1, <1>2, PTL

\* While the loop runs, the last window is a whole one that begins one step
\* before start and leaves words for the next.
LastWindow ==
  pc = "chunking" /\ chunks # <<>> =>
    /\ chunks[Len(chunks)].first = start - step
    /\ chunks[Len(chunks)].last = start - step + size - 1
    /\ start - step + size < words

WindowInv == LoopInv /\ WindowsAdvance /\ LastWindow

LEMMA WindowStep == WindowInv /\ [Next]_vars => WindowInv'
<1> SUFFICES ASSUME WindowInv, [Next]_vars PROVE WindowsAdvance' /\ LastWindow'
  BY LoopStep DEF WindowInv
<1> USE DEF WindowInv, LoopInv
<1>1. CASE chunk_text
  <2>1. /\ start < words /\ start \in Nat /\ words \in Nat /\ size \in Nat \ {0}
        /\ overlap \in Nat /\ chunks \in Seq(Chunk) /\ step \in 1..size
        /\ size - step = IF overlap < size THEN overlap ELSE size - 1
    BY <1>1, StepBounds, BoundsAssumption DEF chunk_text, TypeOK, step
  <2>2. /\ window.first = start
        /\ window.last = IF start + size < words THEN start + size - 1 ELSE words - 1
        /\ window \in Chunk
    BY <2>1, WindowType
  <2>3. /\ Len(chunks') = Len(chunks) + 1 /\ Len(chunks) \in Nat
        /\ \A k \in 1..Len(chunks) : chunks'[k] = chunks[k]
        /\ chunks'[Len(chunks) + 1] = window
        /\ chunks = <<>> <=> Len(chunks) = 0
    BY <1>1, <2>1, <2>2 DEF chunk_text
  <2>4. UNCHANGED <<words, size, overlap, step>>
    BY <1>1 DEF chunk_text, arguments, step
  <2>5. WindowsAdvance'
    <3> SUFFICES ASSUME NEW k \in 1..Len(chunks)
                 PROVE  /\ chunks'[k].last < chunks'[k + 1].last
                        /\ chunks'[k].last - chunks'[k + 1].first + 1 = size - step
      BY <2>1, <2>3, <2>4 DEF WindowsAdvance
    <3>1. CASE k = Len(chunks)
      <4>1. /\ chunks'[k].last = start - step + size - 1
            /\ start - step + size < words
            /\ chunks'[k + 1] = window
        BY <1>1, <2>3, <3>1 DEF LastWindow, chunk_text
      <4> QED
        BY <2>1, <2>2, <4>1
    <3>2. CASE k # Len(chunks)
      <4>1. k \in 1..(Len(chunks) - 1) /\ chunks'[k] = chunks[k] /\ chunks'[k + 1] = chunks[k + 1]
        BY <2>3, <3>2
      <4>2. /\ chunks[k].last < chunks[k + 1].last
            /\ chunks[k].last - chunks[k + 1].first + 1
                 = IF overlap < size THEN overlap ELSE size - 1
        BY <4>1 DEF WindowsAdvance
      <4> QED
        BY <2>1, <4>1, <4>2
    <3> QED
      BY <3>1, <3>2
  <2>6. LastWindow'
    <3> SUFFICES ASSUME ~Last PROVE LastWindow'
      BY <1>1 DEF LastWindow, chunk_text
    <3>1. start' = start + step /\ start + size < words
      BY <1>1, <2>1 DEF chunk_text, Last
    <3>2. chunks'[Len(chunks')] = window
      BY <2>3
    <3>3. /\ window.first = start' - step' /\ window.last = start' - step' + size' - 1
          /\ start' - step' + size' < words'
      BY <2>1, <2>2, <2>4, <3>1
    <3> QED
      BY <3>2, <3>3 DEF LastWindow
  <2> QED
    BY <2>5, <2>6
<1>2. CASE embed \/ embed_fails \/ commit
  BY <1>2 DEF embed, embed_fails, commit, arguments, WindowsAdvance, LastWindow
<1>3. CASE UNCHANGED vars
  BY <1>3 DEF vars, arguments, WindowsAdvance, LastWindow, step
<1> QED
  BY <1>1, <1>2, <1>3 DEF Next

\* Every window brings new words, and shares exactly the overlap with the
\* window before it.
THEOREM WindowsCorrect == Spec => []WindowsAdvance
<1>1. Init => WindowInv
  BY LoopInit DEF Init, WindowInv, WindowsAdvance, LastWindow
<1>2. Spec => []WindowInv
  BY <1>1, WindowStep, PTL DEF Spec
<1> QED
  BY <1>2, PTL DEF WindowInv

\* Every state of a call has its type; the windows above all are intervals of
\* natural numbers, wherever the text ends.
THEOREM TypeCorrect == Spec => []TypeOK
<1>1. Spec => []LoopInv
  BY LoopInit, LoopStep, PTL DEF Spec
<1> QED
  BY <1>1, PTL DEF LoopInv

-----------------------------------------------------------------------------
(* The loop ends *)

\* How many steps a call may still take: one window for each word that the
\* loop variable has not passed, the call of the provider and the commit.
StepsLeft ==
  CASE pc = "chunking" -> words - start + 2
    [] pc = "chunked"  -> 2
    [] pc = "embedded" -> 1
    [] OTHER           -> 0

Advances == StepsLeft \in 0..(MaxWords + 2) /\ StepsLeft > StepsLeft'

LEMMA StepsLeftBounded == LoopInv => StepsLeft \in 0..(MaxWords + 2)
BY BoundsAssumption DEF LoopInv, TypeOK, StepsLeft

\* Every step brings the end of a call nearer, also when the overlap is as
\* large as the window: a call takes at most MaxWords + 2 steps.  That it
\* goes on to take them is the fairness Terminates assumes.
THEOREM CallsProgress == Spec => [][Advances]_vars
<1>1. LoopInv /\ [Next]_vars => [Advances]_vars
  <2> SUFFICES ASSUME LoopInv, Next PROVE Advances
    OBVIOUS
  <2> USE DEF Advances
  <2>1. CASE chunk_text
    <3>1. /\ pc = "chunking" /\ start < words /\ start \in Nat /\ words \in Nat
          /\ step \in 1..size /\ size \in Nat
          /\ start' = start + step /\ words' = words
          /\ pc' = IF Last THEN "chunked" ELSE "chunking"
      BY <2>1, StepBounds, BoundsAssumption DEF chunk_text, LoopInv, TypeOK, arguments
    <3>2. StepsLeft = words - start + 2
      BY <3>1 DEF StepsLeft
    <3>3. StepsLeft' = IF Last THEN 2 ELSE words - (start + step) + 2
      BY <3>1 DEF StepsLeft
    <3>4. StepsLeft > StepsLeft'
      BY <3>1, <3>2, <3>3
    <3> QED
      BY <3>4, StepsLeftBounded
  <2>2. CASE embed \/ embed_fails \/ commit
    BY <2>2, StepsLeftBounded DEF embed, embed_fails, commit, StepsLeft
  <2> QED
    BY <2>1, <2>2 DEF Next
<1>2. Spec => []LoopInv
  BY LoopInit, LoopStep, PTL DEF Spec
<1> QED
  BY <1>1, <1>2, PTL DEF Spec

=============================================================================
