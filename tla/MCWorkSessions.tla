--------------------------- MODULE MCWorkSessions ---------------------------
(* Small instances of WorkSessions for TLC. *)
EXTENDS WorkSessions, TLC

(* Ids are generated by the database and never compared: interchangeable. *)
IdSymmetry ==
    Permutations(Projects) \cup Permutations(Sessions) \cup Permutations(Segments)

=============================================================================
