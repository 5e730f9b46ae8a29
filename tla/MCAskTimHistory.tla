--------------------------- MODULE MCAskTimHistory ---------------------------
(* Two requests of one page at a time, which are alike.                     *)
EXTENDS AskTimHistory, TLC

ASSUME NonZeroCounts

Perms == Permutations(Procs)
=============================================================================
