------------------------------ MODULE MCLogin ------------------------------
(* Login for TLC: accounts of a provider, and emails, may be exchanged.      *)
EXTENDS Login, TLC

Symmetry == Permutations(Google) \cup Permutations(Line) \cup Permutations(Emails)
=============================================================================
