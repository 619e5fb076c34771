--------------------------- MODULE MCRefreshTokens ---------------------------
(* Instances of RefreshTokens for TLC: ann registers under two spellings.    *)
EXTENDS RefreshTokens, TLC

CONSTANTS ann, Ann

OneUser == (ann :> ann) @@ (Ann :> ann)

Symmetric == UNION {Permutations(S) : S \in {Instances, Tokens, Requests, UserIds, Passwords}}
=============================================================================
