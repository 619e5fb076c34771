----------------------------- MODULE MCWorkspaces ----------------------------
(* Instances of Workspaces for TLC.                                          *)
EXTENDS Workspaces, TLC

Symmetric == Permutations(Users) \union Permutations(Calls)
=============================================================================
