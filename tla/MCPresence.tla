----------------------------- MODULE MCPresence ----------------------------
(* Instances of Presence for TLC: s3 is the second user's, s1 and s2 are two *)
(* connections of the first.                                                 *)
EXTENDS Presence, TLC

CONSTANTS s1, s2, s3, u1, u2

TwoUsers == (s1 :> u1) @@ (s2 :> u1) @@ (s3 :> u2)
OneUser == (s1 :> u1) @@ (s2 :> u1)
OneSocket == (s1 :> u1)

HandlerSymmetry == Permutations(Handlers)
=============================================================================
