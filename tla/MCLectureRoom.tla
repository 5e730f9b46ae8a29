--------------------------- MODULE MCLectureRoom ---------------------------
(* Instances of LectureRoom: every user has one page.                      *)
EXTENDS LectureRoom

CONSTANTS l1, l2

OwnPages == [p \in Pages |-> p]

Instance(future, in, joins, acts, faults, reloads, posts) ==
    [future |-> future, in |-> in, joins |-> joins, acts |-> acts,
     faults |-> faults, reloads |-> reloads, messages |-> posts]

Both == {l1} \X Users

\* Users join, leave and are removed while a lecture starts, ends and is
\* extended; messages are sent and fetched while users go from a lecture to
\* the other one, while requests fail and while a page is loaded again.
Several ==
    {Instance({l2}, {}, 2, 2, 1, 0, 0),
     Instance({l2}, {}, 3, 1, 1, 0, 0),
     Instance({}, Both, 1, 0, 0, 0, 2),
     Instance({}, {}, 2, 0, 1, 0, 1),
     Instance({}, {}, 1, 0, 1, 1, 2)}
=============================================================================
