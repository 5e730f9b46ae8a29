------------------------- MODULE MCLectureQuestion -------------------------
(* Instances of LectureQuestion: who uses which tab and which browser.     *)
EXTENDS LectureQuestion, TLC

CONSTANTS ann, t1, t2, b1, b2, l1, l2, q1, q2

\* One student with one or two pages, in browsers of their own or in one.
OneTab == {t1}
TwoTabs == {t1, t2}
Ann == [t \in StudentTabs |-> ann]
SharedBrowser == [t \in StudentTabs |-> b1]
OwnBrowsers == [t \in StudentTabs |-> IF t = t1 THEN b1 ELSE b2]

\* The two tabs of the student, each with its browser, are interchangeable.
Swap == {(t1 :> t2) @@ (t2 :> t1) @@ (b1 :> b2) @@ (b2 :> b1)}
=============================================================================
