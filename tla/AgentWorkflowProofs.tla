------------------------ MODULE AgentWorkflowProofs ------------------------
(***************************************************************************)
(* Proofs about AgentWorkflow for knowledge bases, limits and thresholds   *)
(* of every size.                                                          *)
(***************************************************************************)
EXTENDS AgentWorkflow, FiniteSetTheorems, WellFoundedInduction, TLAPS

\* The knowledge base is finite, and a score is a number.
ChunksInv == IsFiniteSet(chunks) /\ \A c \in chunks : c.score \in Int

LEMMA ChunksInit == Init => ChunksInv
BY FS_EmptySet DEF Init, ChunksInv

LEMMA ChunksStep == ChunksInv /\ [Next]_vars => ChunksInv'
<1> SUFFICES ASSUME ChunksInv, [Next]_vars PROVE ChunksInv'
  OBVIOUS
<1>1. ASSUME NEW organization \in Organizations, NEW words \in SUBSET Words,
             NEW score \in Scores, create_document(organization, words, score)
      PROVE  ChunksInv'
  <2> DEFINE c == [id |-> Cardinality(chunks) + 1, organization |-> organization,
                   words |-> words, score |-> score]
  <2>1. chunks' = chunks \cup {c} /\ c.score \in Int
    BY <1>1, ConstantsAssumption DEF create_document
  <2>2. IsFiniteSet(chunks')
    BY <2>1, FS_AddElement DEF ChunksInv
  <2> QED
    BY <2>1, <2>2 DEF ChunksInv
<1>2. CASE UNCHANGED chunks
  BY <1>2 DEF ChunksInv
<1> QED
  BY <1>1, <1>2 DEF Next, vars, classifier, retriever, draft_reply, critic, decision

\* A candidate that a search leaves out is not nearer than any of the TopK
\* that it takes.
LEMMA NearestComplete ==
  ASSUME NEW passages, IsFiniteSet(passages), NEW S \in Nearest(passages),
         NEW c \in passages \ S
  PROVE  Cardinality(S) = TopK /\ \A d \in S : d.score >= c.score
<1>1. S \subseteq passages /\ S # passages
  BY DEF Nearest
<1>2. Cardinality(S) # Cardinality(passages)
  BY <1>1, FS_Subset
<1> QED
  BY <1>2 DEF Nearest

\* A search finds every passage of the organization that it compares and that
\* reaches the threshold, unless TopK at least as similar ones were found:
\* limiting before filtering loses nothing.
LEMMA SearchComplete ==
  ASSUME NEW compared, IsFiniteSet(compared), \A c \in compared : c.score \in Int,
         NEW organization, NEW hits \in search(compared, organization)
  PROVE  /\ \A c \in hits : c \in compared /\ c.organization = organization
                             /\ c.score >= SimilarityThreshold
         /\ \A c \in compared \ hits :
              c.organization = organization /\ c.score >= SimilarityThreshold =>
                Cardinality(hits) = TopK /\ \A d \in hits : d.score >= c.score
<1> DEFINE candidates == {c \in compared : c.organization = organization}
<1>1. PICK S \in Nearest(candidates) : hits = {c \in S : c.score >= SimilarityThreshold}
  BY DEF search
<1>2. S \subseteq candidates
  BY DEF Nearest
<1>3. IsFiniteSet(candidates)
  BY FS_Subset
<1>4. ASSUME NEW c \in candidates \ hits, c.score >= SimilarityThreshold
      PROVE  Cardinality(hits) = TopK /\ \A d \in hits : d.score >= c.score
  <2>1. c \in candidates \ S
    BY <1>1, <1>4
  <2> HIDE DEF candidates
  <2>2. Cardinality(S) = TopK /\ \A d \in S : d.score >= c.score
    BY <1>3, <2>1, NearestComplete
  <2> USE DEF candidates
  <2>3. \A d \in S : d.score \in Int
    BY <1>2
  <2>4. c.score \in Int /\ SimilarityThreshold \in Int
    BY ConstantsAssumption
  <2>5. hits = S
    BY <1>1, <1>4, <2>2, <2>3, <2>4
  <2> QED
    BY <2>2, <2>5
<1> QED
  BY <1>1, <1>2, <1>4

-----------------------------------------------------------------------------
(* Only grounded drafts are put up for approval *)

\* A nonempty set of percentages has a greatest element: the distances from
\* 100 are natural numbers, which have a least one.
LEMMA GreatestScore ==
  ASSUME NEW T \in SUBSET (-100..100), T # {}
  PROVE  \E m \in T : \A x \in T : x <= m
<1> DEFINE D == {100 - x : x \in T}
           R == {p \in Nat \X Nat : p[1] < p[2]}
<1>1. IsWellFoundedOn(R, Nat)
  BY NatLessThanWellFounded DEF OpToRel
<1>2. D \subseteq Nat
  <2> SUFFICES ASSUME NEW x \in T PROVE 100 - x \in Nat
    OBVIOUS
  <2> QED
    OBVIOUS
<1>3. D # {}
  <2>1. PICK x \in T : TRUE
    OBVIOUS
  <2> QED
    BY <2>1
<1> HIDE DEF R, D
<1>4. PICK d \in D : \A y \in D : <<y, d>> \notin R
  BY <1>1, <1>2, <1>3, WFMin
<1>5. PICK m \in T : d = 100 - m
  BY DEF D
<1>6. ASSUME NEW x \in T PROVE x <= m
  <2>1. 100 - x \in D /\ 100 - x \in Nat /\ d \in Nat
    BY <1>2 DEF D
  <2>2. <<100 - x, d>> \notin R
    BY <1>4, <2>1
  <2> QED
    BY <1>5, <2>1, <2>2 DEF R
<1> QED
  BY <1>6

\* The greatest score of some passages is one of their scores, and bounds them.
LEMMA TopScoreBound ==
  ASSUME NEW passages, \A c \in passages : c.score \in -100..100, passages # {}
  PROVE  TopScore(passages) \in -100..100 /\ \A c \in passages : c.score <= TopScore(passages)
<1> DEFINE T == {c.score : c \in passages}
<1>1. T \in SUBSET (-100..100)
  OBVIOUS
<1>2. T # {}
  <2>1. PICK c \in passages : TRUE
    OBVIOUS
  <2> QED
    BY <2>1
<1> HIDE DEF T
<1>3. PICK m \in T : \A x \in T : x <= m
  BY <1>1, <1>2, GreatestScore
<1>4. \A c \in passages : c.score \in T
  BY DEF T
<1>5. m \in T /\ \A c \in passages : c.score <= m
  BY <1>3, <1>4
<1>6. TopScore(passages) \in T /\ \A c \in passages : c.score <= TopScore(passages)
  BY <1>5 DEF TopScore, T
<1> QED
  BY <1>1, <1>6

LEMMA WordsFinite ==
  ASSUME NEW passages, \A c \in passages : c.words \subseteq Words, NEW words
  PROVE  /\ IsFiniteSet(WordsOf(passages))
         /\ Cardinality(WordsOf(passages)) \in Nat
         /\ WordsOf(passages) # {} => Cardinality(WordsOf(passages)) > 0
         /\ Cardinality(WordsOf(passages) \cap words) \in Nat
         /\ WordsOf(passages) \cap words = {} => Cardinality(WordsOf(passages) \cap words) = 0
<1>1. WordsOf(passages) \subseteq Words
  BY DEF WordsOf
<1>2. IsFiniteSet(WordsOf(passages)) /\ IsFiniteSet(WordsOf(passages) \cap words)
  BY <1>1, ConstantsAssumption, FS_Subset
<1> QED
  BY <1>2, FS_CardinalityType, FS_EmptySet

\* What a sufficient confidence means for the words of the draft.
LEMMA SufficientGrounded ==
  ASSUME NEW passages, NEW words,
         \A c \in passages : c.words \subseteq Words /\ c.score \in -100..100,
         Sufficient(Confidence(passages, words))
  PROVE  LET context == WordsOf(passages)
         IN /\ passages # {} /\ context \cap words # {}
            /\ 100 * Cardinality(context \cap words)
                 >= (2 * ConfidenceThreshold - 100) * Cardinality(context)
<1> DEFINE n == Cardinality(WordsOf(passages))
           k == Cardinality(WordsOf(passages) \cap words)
           top == TopScore(passages)
           t == ConfidenceThreshold
<1>t. t \in 51..100
  BY ConstantsAssumption
<1>1. passages # {}
  BY <1>t DEF Confidence, Sufficient, Zero
<1>2. top \in -100..100
  BY <1>1, TopScoreBound
<1>3. /\ n \in Nat /\ k \in Nat
      /\ WordsOf(passages) # {} => n > 0
      /\ WordsOf(passages) \cap words = {} => k = 0
  BY WordsFinite
<1>4. WordsOf(passages) # {}
  <2> SUFFICES ASSUME WordsOf(passages) = {} PROVE FALSE
    OBVIOUS
  <2>1. 100 * top >= t * 200
    BY <1>1 DEF Confidence, Sufficient
  <2> QED
    BY <1>t, <1>2, <2>1
<1>5. 100 * (top * n + 100 * k) >= t * (200 * n)
  BY <1>1, <1>4 DEF Confidence, Sufficient
<1> HIDE DEF n, k, top, t
<1>6. top * n <= 100 * n
  BY <1>2, <1>3
<1>7. 100 * k >= (2 * t - 100) * n
  <2>1. /\ top * n \in Int /\ t * n \in Int
        /\ t * (200 * n) = 200 * (t * n) /\ (2 * t - 100) * n = 2 * (t * n) - 100 * n
    BY <1>t, <1>2, <1>3
  <2> QED
    BY <1>3, <1>5, <1>6, <2>1
<1>8. k # 0
  <2>1. n \in Nat \ {0} /\ 2 * t - 100 \in Nat \ {0}
    BY <1>t, <1>3, <1>4
  <2>2. (2 * t - 100) * n \in Nat \ {0}
    <3> DEFINE a == 2 * t - 100
    <3>1. a \in Nat \ {0}
      BY <2>1
    <3> HIDE DEF a
    <3>2. a * n \in Nat \ {0}
      BY <2>1, <3>1
    <3> QED
      BY <3>2 DEF a
  <2> QED
    BY <1>3, <1>7, <2>2
<1> QED
  BY <1>1, <1>3, <1>7, <1>8 DEF n, k, t

\* What the draft is based on, whatever it left out, and before it is based
\* on anything.
Missed(compared, hits) ==
  \A c \in compared \ hits :
    c.organization = Own /\ c.score >= SimilarityThreshold =>
      Cardinality(hits) = TopK /\ \A d \in hits : d.score >= c.score

\* The state that the nodes pass on.
GroundInv ==
  /\ \A c \in chunks \cup scanned : c.words \subseteq Words /\ c.score \in -100..100
  /\ IsFiniteSet(chunks) /\ IsFiniteSet(scanned)
  /\ \A c \in retrieved : c \in scanned /\ c.organization = Own /\ c.score >= SimilarityThreshold
  /\ Missed(scanned, retrieved)
  /\ node = "decision" => confidence = Confidence(retrieved, draft)
  /\ outcome # "none" => node = "END"
  /\ outcome = "waiting_approval" => Sufficient(Confidence(retrieved, draft))
  /\ outcome = "escalated" => ~Sufficient(Confidence(retrieved, draft))

LEMMA GroundInit == Init => GroundInv
BY FS_EmptySet DEF Init, GroundInv, Missed

LEMMA GroundStep == GroundInv /\ [Next]_vars => GroundInv'
<1> SUFFICES ASSUME GroundInv, [Next]_vars PROVE GroundInv'
  OBVIOUS
<1> USE DEF GroundInv
<1>1. ASSUME NEW organization \in Organizations, NEW words \in SUBSET Words,
             NEW score \in Scores, create_document(organization, words, score)
      PROVE  GroundInv'
  <2> DEFINE c == [id |-> Cardinality(chunks) + 1, organization |-> organization,
                   words |-> words, score |-> score]
  <2>1. chunks' = chunks \cup {c} /\ c.words \subseteq Words /\ c.score \in -100..100
    BY <1>1, ConstantsAssumption DEF create_document
  <2>2. IsFiniteSet(chunks')
    BY <2>1, FS_AddElement
  <2> QED
    BY <1>1, <2>1, <2>2 DEF create_document
<1>2. CASE classifier
  BY <1>2 DEF classifier
<1>3. CASE retriever
  <2>1. scanned' \subseteq chunks /\ retrieved' \in search(scanned', Own)
    BY <1>3 DEF retriever
  <2>2. IsFiniteSet(scanned')
    BY <2>1, FS_Subset
  <2>3. /\ \A c \in retrieved' : c \in scanned' /\ c.organization = Own
                                  /\ c.score >= SimilarityThreshold
        /\ Missed(scanned', retrieved')
    <3>1. \A c \in scanned' : c.score \in Int
      BY <2>1
    <3> QED
      BY <2>1, <2>2, <3>1, SearchComplete DEF Missed
  <2> QED
    BY <1>3, <2>1, <2>2, <2>3 DEF retriever
<1>4. ASSUME NEW words \in SUBSET Words, draft_reply(words)
      PROVE  GroundInv'
  BY <1>4 DEF draft_reply
<1>5. CASE critic
  BY <1>5 DEF critic
<1>6. CASE decision
  BY <1>6 DEF decision
<1>7. CASE UNCHANGED vars
  BY <1>7 DEF vars
<1> QED
  BY <1>1, <1>2, <1>3, <1>4, <1>5, <1>6, <1>7 DEF Next

\* A draft put up for approval uses words of passages of its organization,
\* and no fewer than a perfect similarity would leave to them.
THEOREM GroundedCorrect == Spec => []GroundedApproval
<1>1. Spec => []GroundInv
  BY GroundInit, GroundStep, PTL DEF Spec
<1>2. GroundInv => GroundedApproval
  BY SufficientGrounded DEF GroundInv, GroundedApproval
<1> QED
  BY <1>1, <1>2, PTL

\* The converse: with a similar passage, and every word of the passages in
\* the draft, the confidence suffices.
LEMMA UsedSufficient ==
  ASSUME NEW passages, NEW words, NEW top \in Int,
         \A c \in passages : c.words \subseteq Words /\ c.score \in -100..100,
         \E c \in passages : c.score >= top,
         top >= 2 * ConfidenceThreshold - 100,
         WordsOf(passages) # {}, WordsOf(passages) \subseteq words
  PROVE  Sufficient(Confidence(passages, words))
<1> DEFINE n == Cardinality(WordsOf(passages))
           best == TopScore(passages)
           t == ConfidenceThreshold
<1>1. t \in 51..100
  BY ConstantsAssumption
<1>2. passages # {}
  OBVIOUS
<1>3. best \in -100..100 /\ best >= top
  <2>1. best \in -100..100 /\ \A c \in passages : c.score <= best
    BY <1>2, TopScoreBound
  <2> HIDE DEF best
  <2> QED
    BY <2>1
<1>4. n \in Nat /\ n > 0
  BY WordsFinite
<1>5. WordsOf(passages) \cap words = WordsOf(passages)
  OBVIOUS
<1>6. Confidence(passages, words) = [num |-> best * n + 100 * n, den |-> 200 * n]
  BY <1>2, <1>5 DEF Confidence
<1> HIDE DEF n, best, t
<1>7. 100 * (best * n + 100 * n) >= t * (200 * n)
  <2>1. best >= 2 * t - 100
    BY <1>1, <1>3 DEF t
  <2>2. best * n >= (2 * t - 100) * n
    BY <1>1, <1>3, <1>4, <2>1
  <2>3. best * n \in Int /\ t * n \in Int /\ (2 * t - 100) * n = 2 * (t * n) - 100 * n
        /\ t * (200 * n) = 200 * (t * n)
    BY <1>1, <1>3, <1>4
  <2> QED
    BY <1>4, <2>2, <2>3
<1> QED
  BY <1>6, <1>7 DEF Sufficient, t

\* An answer that the search comes across is not lost on the way to the
\* decision, whatever else is in the knowledge base.
THEOREM AnswerCorrect == Spec => []AnswerUsed
<1>1. Spec => []GroundInv
  BY GroundInit, GroundStep, PTL DEF Spec
<1>2. GroundInv => AnswerUsed
  <2> SUFFICES ASSUME GroundInv, outcome = "escalated",
                      NEW c \in scanned, Answers(c),
                      WordsOf(retrieved) \subseteq draft
               PROVE  Cardinality(retrieved) = TopK /\ WordsOf(retrieved) = {}
    BY DEF AnswerUsed
  <2>1. /\ \A d \in retrieved : d.words \subseteq Words /\ d.score \in -100..100
        /\ c.score \in Int /\ SimilarityThreshold \in Int /\ TopK \in Nat \ {0}
    BY ConstantsAssumption DEF GroundInv
  <2>2. ~Sufficient(Confidence(retrieved, draft))
    BY DEF GroundInv
  <2>3. c.organization = Own /\ c.words # {} /\ c.score >= SimilarityThreshold
        /\ c.score >= 2 * ConfidenceThreshold - 100
    BY DEF Answers
  <2>4. CASE c \in retrieved
    <3>1. WordsOf(retrieved) # {}
      BY <2>3, <2>4 DEF WordsOf
    <3>2. \E d \in retrieved : d.score >= c.score
      BY <2>1, <2>4
    <3> QED
      BY <2>1, <2>2, <2>3, <3>1, <3>2, UsedSufficient
  <2>5. CASE c \notin retrieved
    <3>1. Cardinality(retrieved) = TopK /\ \A d \in retrieved : d.score >= c.score
      BY <2>3, <2>5 DEF GroundInv, Missed
    <3>2. retrieved # {}
      BY <2>1, <3>1, FS_EmptySet
    <3>3. \E d \in retrieved : d.score >= c.score
      BY <3>1, <3>2
    <3>4. WordsOf(retrieved) = {}
      BY <2>1, <2>2, <2>3, <3>3, UsedSufficient
    <3> QED
      BY <3>1, <3>4
  <2> QED
    BY <2>4, <2>5
<1> QED
  BY <1>1, <1>2, PTL

-----------------------------------------------------------------------------
(* Type correctness *)

\* A confidence is a fraction whatever was retrieved and drafted: nothing is
\* divided by the number of words of a context without any.
LEMMA ConfidenceType ==
  ASSUME NEW passages \in SUBSET DocumentChunk, NEW words
  PROVE  Confidence(passages, words) \in Fraction
<1> DEFINE n == Cardinality(WordsOf(passages))
           k == Cardinality(WordsOf(passages) \cap words)
           top == TopScore(passages)
<1>1. \A c \in passages : c.words \subseteq Words /\ c.score \in -100..100
  BY ConstantsAssumption DEF DocumentChunk
<1>2. n \in Nat /\ k \in Nat /\ (WordsOf(passages) # {} => n > 0)
  BY <1>1, WordsFinite
<1>3. passages # {} => top \in Int
  BY <1>1, TopScoreBound
<1>4. CASE passages = {}
  BY <1>4 DEF Confidence, Zero, Fraction
<1>5. CASE passages # {} /\ WordsOf(passages) = {}
  BY <1>3, <1>5 DEF Confidence, Fraction
<1>6. CASE passages # {} /\ WordsOf(passages) # {}
  <2>1. Confidence(passages, words) = [num |-> top * n + 100 * k, den |-> 200 * n]
    BY <1>6 DEF Confidence
  <2> HIDE DEF n, k, top
  <2>2. top * n + 100 * k \in Int /\ 200 * n \in Nat \ {0}
    BY <1>2, <1>3, <1>6
  <2> QED
    BY <2>1, <2>2 DEF Fraction
<1> QED
  BY <1>4, <1>5, <1>6

LEMMA TypeStep == ChunksInv /\ TypeOK /\ [Next]_vars => TypeOK'
<1> SUFFICES ASSUME ChunksInv, TypeOK, [Next]_vars PROVE TypeOK'
  OBVIOUS
<1> USE DEF TypeOK
<1>1. ASSUME NEW organization \in Organizations, NEW words \in SUBSET Words,
             NEW score \in Scores, create_document(organization, words, score)
      PROVE  TypeOK'
  <2> DEFINE c == [id |-> Cardinality(chunks) + 1, organization |-> organization,
                   words |-> words, score |-> score]
  <2>1. Cardinality(chunks) \in Nat
    BY FS_CardinalityType DEF ChunksInv
  <2>2. Cardinality(chunks) + 1 \in 1..MaxChunks
    BY <1>1, <2>1, ConstantsAssumption DEF create_document
  <2>3. c \in DocumentChunk
    BY <2>2 DEF DocumentChunk
  <2> QED
    BY <1>1, <2>3 DEF create_document
<1>2. CASE classifier
  BY <1>2 DEF classifier
<1>3. CASE retriever
  <2>1. scanned' \subseteq chunks /\ retrieved' \subseteq scanned'
    BY <1>3 DEF retriever, search, Nearest
  <2> QED
    BY <1>3, <2>1 DEF retriever
<1>4. ASSUME NEW words \in SUBSET Words, draft_reply(words)
      PROVE  TypeOK'
  BY <1>4 DEF draft_reply
<1>5. CASE critic
  BY <1>5, ConfidenceType DEF critic
<1>6. CASE decision
  BY <1>6 DEF decision
<1>7. CASE UNCHANGED vars
  BY <1>7 DEF vars
<1> QED
  BY <1>1, <1>2, <1>3, <1>4, <1>5, <1>6, <1>7 DEF Next

\* Every state of a run has its type; in particular a confidence is a
\* fraction, and what was retrieved are passages.
THEOREM TypeCorrect == Spec => []TypeOK
<1>1. Init => TypeOK
  BY DEF Init, TypeOK, Zero, Fraction
<1> QED
  BY <1>1, ChunksInit, ChunksStep, TypeStep, PTL DEF Spec

=============================================================================
