------------------------ MODULE MCSessionTransactions ------------------------
(* Small instances of SessionTransactions for TLC. *)
EXTENDS SessionTransactions, TLC

IdSymmetry ==
    Permutations(Projects) \cup Permutations(Sessions)
        \cup Permutations(Segments) \cup Permutations(Clients)

=============================================================================
