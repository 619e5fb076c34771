------------------------------ MODULE MCProjects ------------------------------
(* Instances of Projects for TLC.                                            *)
EXTENDS Projects, TLC

Symmetric == Permutations(Calls) \union Permutations(FileIds)
=============================================================================
