--------------------------- MODULE MCDocStoreSeq ---------------------------
(* Instances of DocStoreSeq for TLC: what the document holds at the start. *)
EXTENDS DocStoreSeq

CONSTANTS p1, p2, p3, h1, h2

TwoPars == <<<<p1, h1>>, <<p2, h1>>>>
NoPars == <<>>
=============================================================================
