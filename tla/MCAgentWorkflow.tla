-------------------------- MODULE MCAgentWorkflow --------------------------
(* Instances of AgentWorkflow for TLC. *)
EXTENDS AgentWorkflow, TLC

\* Just below and at the similarity threshold, and one that half of the
\* context's words take exactly to the confidence threshold.
MCScores == {49, 50, 90}

Symmetry == Permutations(Words)

=============================================================================
