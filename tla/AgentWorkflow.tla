--------------------------- MODULE AgentWorkflow ---------------------------
(***************************************************************************)
(* One run of the support workflow (agent/graph.py, agent/nodes.py) over a *)
(* knowledge base that grows meanwhile: the nodes classifier, retriever,   *)
(* draft, critic and decision pass on one state, with the search of        *)
(* services/retrieval_service.py.                                          *)
(*                                                                         *)
(* A passage is its organization, the set of its words and its similarity  *)
(* to this ticket's text in percent.  Only words of ASCII letters and      *)
(* digits count (_WORD_RE), so a passage or a draft that is not empty may  *)
(* have none.  Confidence is a fraction; rounding to six digits is not     *)
(* modelled.                                                               *)
(*                                                                         *)
(* The search is approximate.  Migration 0004 puts an IVFFlat index of 100 *)
(* lists, built on an empty table, over the passages of all organizations, *)
(* and a query looks into as few lists as ivfflat.probes says (1 unless    *)
(* set).  Which passages it compares is left open here, and recorded in    *)
(* scanned: any of them, all of them when the planner does without the     *)
(* index.  Among those the query is exact: the index returns them nearest  *)
(* first until enough of the organization's were seen.                     *)
(***************************************************************************)
EXTENDS Integers, FiniteSets

CONSTANTS
  Organizations, Own,    \* all organizations, and the ticket's
  Words,                 \* words of passages and drafts
  Scores,                \* similarities the embeddings may give, in percent
  TopK,                  \* settings.retrieval_top_k
  SimilarityThreshold,   \* settings.similarity_threshold, in percent
  ConfidenceThreshold,   \* settings.confidence_threshold, in percent
  MaxChunks              \* bound: passages in the knowledge base

\* With a confidence threshold of one half or less, similarity alone would
\* put any draft up for approval.
ASSUME ConstantsAssumption ==
  /\ Own \in Organizations
  /\ IsFiniteSet(Words)
  /\ Scores \subseteq -100..100
  /\ TopK \in Nat \ {0}
  /\ SimilarityThreshold \in 0..100
  /\ ConfidenceThreshold \in 51..100
  /\ MaxChunks \in Nat

VARIABLES
  chunks,      \* committed DocumentChunk rows
  node,        \* the node that runs next
  scanned,     \* history: the rows that the search compared
  retrieved,   \* state["retrieved"]: copies of the rows found
  draft,       \* words of state["draft"]
  confidence,  \* state["confidence"]
  outcome      \* state["outcome"]

vars == <<chunks, node, scanned, retrieved, draft, confidence, outcome>>

DocumentChunk ==
  [id : 1..MaxChunks, organization : Organizations, words : SUBSET Words, score : Scores]
Fraction == [num : Int, den : Nat \ {0}]
Zero == [num |-> 0, den |-> 1]

WordsOf(passages) == UNION {c.words : c \in passages}

\* A highest score of a set of passages.
TopScore(passages) ==
  CHOOSE m \in {c.score : c \in passages} : \A c \in passages : c.score <= m

-----------------------------------------------------------------------------
\* POST /documents of any organization commits, here one passage at a time.
create_document(organization, words, score) ==
  /\ Cardinality(chunks) < MaxChunks
  /\ chunks' = chunks \cup {[id |-> Cardinality(chunks) + 1, organization |-> organization,
                            words |-> words, score |-> score]}
  /\ UNCHANGED <<node, scanned, retrieved, draft, confidence, outcome>>

\* ORDER BY distance LIMIT k; equal distances come in any order.
Nearest(passages) ==
  {S \in SUBSET passages :
     /\ Cardinality(S) = IF Cardinality(passages) < TopK THEN Cardinality(passages) ELSE TopK
     /\ \A c \in S, d \in passages \ S : c.score >= d.score}

\* The hits among the passages compared: the organization is applied before
\* the limit, the threshold after it.
\* FAULT: the organization, too, is applied after the limit.
search_displaced(compared, organization) ==
  {{c \in S : c.organization = organization /\ c.score >= SimilarityThreshold} :
     S \in Nearest(compared)}

search(compared, organization) ==
  {{c \in S : c.score >= SimilarityThreshold} :
     S \in Nearest({c \in compared : c.organization = organization})}

\* Suggests a type and a priority, which nothing later in the run reads.
classifier ==
  /\ node = "classifier"
  /\ node' = "retriever"
  /\ UNCHANGED <<chunks, scanned, retrieved, draft, confidence, outcome>>

retriever ==
  /\ node = "retriever"
  /\ scanned' \in SUBSET chunks
  /\ retrieved' \in search(scanned', Own)
  /\ node' = "draft"
  /\ UNCHANGED <<chunks, draft, confidence, outcome>>

\* The language model answers what it likes.
draft_reply(words) ==
  /\ node = "draft"
  /\ draft' = words
  /\ node' = "critic"
  /\ UNCHANGED <<chunks, scanned, retrieved, confidence, outcome>>

\* 0.5 * top_score + 0.5 * overlap, the overlap being the share of the
\* context's words that the draft uses.  As no score exceeds 100 percent,
\* min(1.0, confidence) changes nothing.
\* FAULT: the share of the draft's words that the context has.
Confidence_precision(passages, words) ==
  IF passages = {} THEN Zero
  ELSE LET shared == Cardinality(WordsOf(passages) \cap words)
       IN IF words = {}
          THEN [num |-> TopScore(passages), den |-> 200]
          ELSE [num |-> TopScore(passages) * Cardinality(words) + 100 * shared,
                den |-> 200 * Cardinality(words)]

\* FAULT: a context without words is divided by.
Confidence_unguarded(passages, words) ==
  IF passages = {} THEN Zero
  ELSE LET context == WordsOf(passages)
       IN [num |-> TopScore(passages) * Cardinality(context)
                     + 100 * Cardinality(context \cap words),
           den |-> 200 * Cardinality(context)]

Confidence(passages, words) ==
  IF passages = {} THEN Zero
  ELSE LET context == WordsOf(passages)
       IN IF context = {}
          THEN [num |-> TopScore(passages), den |-> 200]
          ELSE [num |-> TopScore(passages) * Cardinality(context)
                          + 100 * Cardinality(context \cap words),
                den |-> 200 * Cardinality(context)]

critic ==
  /\ node = "critic"
  /\ confidence' = Confidence(retrieved, draft)
  /\ node' = "decision"
  /\ UNCHANGED <<chunks, scanned, retrieved, draft, outcome>>

\* confidence >= settings.confidence_threshold
Sufficient(c) == 100 * c.num >= ConfidenceThreshold * c.den

decision ==
  /\ node = "decision"
  /\ outcome' = IF Sufficient(confidence) THEN "waiting_approval" ELSE "escalated"
  /\ node' = "END"
  /\ UNCHANGED <<chunks, scanned, retrieved, draft, confidence>>

Init ==
  /\ chunks = {}
  /\ node = "classifier"
  /\ scanned = {} /\ retrieved = {} /\ draft = {}
  /\ confidence = Zero
  /\ outcome = "none"

Next ==
  \/ \E organization \in Organizations, words \in SUBSET Words, score \in Scores :
       create_document(organization, words, score)
  \/ classifier \/ retriever \/ critic \/ decision
  \/ \E words \in SUBSET Words : draft_reply(words)

Spec == Init /\ [][Next]_vars

-----------------------------------------------------------------------------
TypeOK ==
  /\ chunks \subseteq DocumentChunk
  /\ node \in {"classifier", "retriever", "draft", "critic", "decision", "END"}
  /\ scanned \subseteq DocumentChunk
  /\ retrieved \subseteq DocumentChunk
  /\ draft \subseteq Words
  /\ confidence \in Fraction
  /\ outcome \in {"none", "waiting_approval", "escalated"}

\* A draft is put up for approval only when it is grounded: passages of the
\* ticket's organization that reach the threshold were retrieved, no others,
\* and the draft uses so many of their words that even a perfect similarity
\* could not have reached the confidence threshold with fewer.  Hence a
\* blank draft, or one without any word that counts, never is.
GroundedApproval ==
  outcome = "waiting_approval" =>
    LET context == WordsOf(retrieved)
    IN /\ \A c \in retrieved : c.organization = Own /\ c.score >= SimilarityThreshold
       /\ retrieved # {} /\ context \cap draft # {}
       /\ 100 * Cardinality(context \cap draft)
            >= (2 * ConfidenceThreshold - 100) * Cardinality(context)

\* A passage of the organization that a search compares and that is similar
\* enough, in the search and for the critic.
Answers(c) ==
  /\ c.organization = Own /\ c.words # {}
  /\ c.score >= SimilarityThreshold /\ c.score >= 2 * ConfidenceThreshold - 100

\* An answer that the search comes across is not lost on the way to the
\* decision, neither to the limit, nor to passages of other organizations
\* in the same lists, nor to less similar passages beside it: the ticket is
\* escalated only when the draft leaves out a word of what was retrieved,
\* or when TopK passages without any word that counts came before it.
AnswerUsed ==
  outcome = "escalated" =>
    \A c \in scanned : Answers(c) =>
      \/ ~(WordsOf(retrieved) \subseteq draft)
      \/ Cardinality(retrieved) = TopK /\ WordsOf(retrieved) = {}

=============================================================================
