------------------------------ MODULE MCEventBus ------------------------------
(* Instances of EventBus for TLC: two like instances with a client each.     *)
EXTENDS EventBus, TLC

CONSTANTS i1, i2, c1, c2

TwoHomes == (c1 :> i1) @@ (c2 :> i2)
(* The instances may change places, each with its client.                   *)
Symmetric == {p \in Permutations({i1, i2, c1, c2}) :
                \A i \in {i1, i2}, c \in {c1, c2} : TwoHomes[c] = i => p[c] \in {c1, c2} /\ TwoHomes[p[c]] = p[i]}
=============================================================================
