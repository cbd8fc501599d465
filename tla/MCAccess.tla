------------------------------ MODULE MCAccess ------------------------------
(* Access for TLC: sessions, addresses, tokens and requests are             *)
(* interchangeable.                                                         *)
EXTENDS Access, TLC

Symmetry == Permutations(Sessions) \cup Permutations(Emails)
              \cup Permutations(Tokens) \cup Permutations(Verifies)
=============================================================================
