-------------------------- MODULE MCAnswerBrowser --------------------------
(* Instances of AnswerBrowser.                                             *)
EXTENDS AnswerBrowser, TLC

CONSTANTS s1, s2, t1, t2, c1, c2

AloneOrTogether == {{s1}, {s2}, {s1, s2}}
Auto == [c \in Contents |-> IF c = c1 THEN 1 ELSE None]

Symmetry == Permutations(Students) \cup Permutations(Tabs)

Instance(isSingle, sent, kept, written, done, failed) ==
    [single |-> isSingle, posts |-> sent, marks |-> kept, types |-> written,
     acts |-> done, faults |-> failed]

\* The requests that save answers race; the teacher grades while they come; the
\* teacher grades and deletes with requests of the page out of order; requests
\* fail.
Several ==
    {Instance(alone, 3, 0, 0, 0, 0) : alone \in BOOLEAN}
    \cup {Instance(FALSE, 2, 0, 1, 1, 0), Instance(FALSE, 1, 1, 1, 2, 0)}
    \cup {Instance(FALSE, 2, 1, 0, 0, 1), Instance(TRUE, 2, 1, 1, 0, 1),
          Instance(FALSE, 1, 1, 1, 1, 1)}
=============================================================================
