----------------------------- MODULE MCDocStore -----------------------------
(* Instances of DocStore for TLC: what the document holds at the start. *)
EXTENDS DocStoreInv, TLC

CONSTANTS p1, p2, p3, h1, h2

OnePar == <<<<p1, h1>>>>
TwoPars == <<<<p1, h1>>, <<p2, h1>>>>
NoPars == <<>>

Workers == Permutations(Editors)
=============================================================================
