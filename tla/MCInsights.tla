----------------------------- MODULE MCInsights -----------------------------
(* A small instance of Insights for TLC. *)
EXTENDS Insights

\* Half a day behind UTC, at it, and half a day ahead.
MCZones == {-1, 0, 1}

IdSymmetry == Permutations(Sessions) \cup Permutations(Projects)

=============================================================================
