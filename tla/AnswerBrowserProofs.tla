------------------------ MODULE AnswerBrowserProofs ------------------------
(***************************************************************************)
(* Proofs about AnswerBrowser, for any students, pages, answers and points,*)
(* any answer limit, any number of requests under way and of failures.     *)
(***************************************************************************)
EXTENDS AnswerBrowser, WellFoundedInduction, SequenceTheorems, TLAPS

-----------------------------------------------------------------------------
(* The largest and the smallest of a set of ids                             *)

LEMMA LeastExists ==
    ASSUME NEW T \in SUBSET Nat, T # {}
    PROVE  \E m \in T : \A y \in T : ~(y < m)
  <1> DEFINE R == {ss \in Nat \X Nat : ss[1] < ss[2]}
  <1>1. IsWellFoundedOn(R, Nat)
    BY NatLessThanWellFounded, Zenon DEF OpToRel
  <1>2. PICK m \in T : \A y \in T : ~(<<y, m>> \in R)
    <2> HIDE DEF R
    <2> QED BY <1>1, WFMin, Zenon
  <1>3. \A y \in T : ~(y < m)
    BY <1>2
  <1> QED BY <1>3

LEMMA MaxOfIds ==
    ASSUME NEW S \in SUBSET Ids, S # {}
    PROVE  Max(S) \in S /\ \A x \in S : Max(S) >= x
  <1> DEFINE T == {MaxAnswers - x : x \in S}
  <1>1. T \subseteq Nat
    BY AnswersAssumption, SMT DEF Ids
  <1>2. T # {}
    OBVIOUS
  <1>3. PICK m \in T : \A y \in T : ~(y < m)
    <2> HIDE DEF T
    <2> QED BY <1>1, <1>2, LeastExists
  <1>4. PICK x \in S : m = MaxAnswers - x
    BY <1>3
  <1>5. ASSUME NEW y \in S
        PROVE  x >= y
    <2>1. ~(MaxAnswers - y < MaxAnswers - x)
      BY <1>3, <1>4
    <2>2. x \in Int /\ y \in Int /\ MaxAnswers \in Int
      BY AnswersAssumption DEF Ids
    <2> QED BY <2>1, <2>2
  <1>6. Max(S) \in S /\ \A y \in S : Max(S) >= y
    BY <1>5, Zenon DEF Max
  <1> QED BY <1>6

LEMMA MinOfIds ==
    ASSUME NEW S \in SUBSET Ids, S # {}
    PROVE  Min(S) \in S
  <1>1. S \subseteq Nat
    BY DEF Ids
  <1>2. PICK m \in S : \A y \in S : ~(y < m)
    BY <1>1, LeastExists
  <1>3. \A y \in S : m =< y
    BY <1>1, <1>2
  <1> QED BY <1>3 DEF Min

LEMMA NewestIsOne ==
    ASSUME NEW S \in SUBSET Ids
    PROVE  Newest(S) \in S \cup {None}
  BY MaxOfIds DEF Newest

-----------------------------------------------------------------------------
(* The server                                                               *)

\* What the requests of the tabs hold.
PostsOK ==
    /\ DOMAIN posts = Tabs
    /\ \A t \in Tabs :
        /\ posts[t].pc = "called" =>
            /\ posts[t].g \in SUBSET Students /\ posts[t].content \in Contents
            /\ posts[t].ok \in BOOLEAN /\ posts[t].began \in SUBSET Ids
        /\ posts[t].pc = "saving" =>
            /\ posts[t].id \in DOMAIN rows /\ posts[t].new \in Row
            /\ posts[t].sets \in SUBSET Columns /\ posts[t].began \in SUBSET Ids

ServerOK == /\ AnswersTypeOK /\ PostsOK
            /\ began \in Seq(SUBSET Ids) /\ looked \in Seq(SUBSET Ids)

\* Who has given which of the visible answers.
Given == {ua \in Students \X visible : ua[1] \in rows[ua[2]].users \/ ua[2] \in touched}

LEMMA RowsAreIds ==
    ASSUME ServerOK
    PROVE  /\ DOMAIN rows = 1..Len(rows) /\ Len(rows) \in Nat
           /\ DOMAIN rows \subseteq Ids /\ visible \subseteq Ids
           /\ \A a \in DOMAIN rows : rows[a] \in Row
  BY AnswersAssumption DEF ServerOK, AnswersTypeOK, Ids

\* Setting columns of a row leaves its users.
Merged(r, n, sets) == [f \in DOMAIN r |-> IF f \in sets THEN n[f] ELSE r[f]]

LEMMA MergedRow ==
    ASSUME NEW r \in Row, NEW n \in Row, NEW sets \in SUBSET Columns
    PROVE  Merged(r, n, sets) \in Row /\ Merged(r, n, sets).users = r.users
  <1>1. DOMAIN r = {"users", "content", "points", "valid", "modifier"}
    BY DEF Row
  <1> DEFINE m == Merged(r, n, sets)
  <1>2. /\ m.users \in SUBSET Students /\ m.users = r.users
        /\ m.content \in Contents /\ m.points \in Points \cup {None}
        /\ m.valid \in BOOLEAN /\ m.modifier \in {"plugin", "teacher"}
    BY <1>1 DEF Merged, Row, Columns
  <1>3. m = [f \in {"users", "content", "points", "valid", "modifier"} |-> m[f]]
    BY <1>1 DEF Merged
  <1> HIDE DEF m
  <1>4. m \in Row
    BY <1>2, <1>3 DEF Row
  <1> QED BY <1>2, <1>4 DEF m

\* A row replaced by another one of its type.
LEMMA RowReplaced ==
    ASSUME ServerOK, NEW a, NEW r, a \in DOMAIN rows => r \in Row,
           rows' = [rows EXCEPT ![a] = r]
    PROVE  /\ rows' \in Seq(Row) /\ DOMAIN rows' = DOMAIN rows /\ Len(rows') = Len(rows)
           /\ \A b \in DOMAIN rows : rows'[b] = IF b = a THEN r ELSE rows[b]
  <1>1. rows \in [1..Len(rows) -> Row] /\ Len(rows) \in Nat
    BY RowsAreIds DEF ServerOK, AnswersTypeOK
  <1>2. rows' \in [1..Len(rows) -> Row] /\ DOMAIN rows' = DOMAIN rows
    BY <1>1
  <1>3. rows' \in Seq(Row)
    BY <1>1, <1>2, SeqDef
  <1>4. Len(rows') = Len(rows)
    BY <1>1, <1>2, <1>3
  <1>5. \A b \in DOMAIN rows : rows'[b] = IF b = a THEN r ELSE rows[b]
    BY <1>1
  <1> QED BY <1>2, <1>3, <1>4, <1>5

Grows == visible \subseteq visible' /\ Given \subseteq Given'

LEMMA GivenGrows ==
    ASSUME visible \subseteq visible', touched \subseteq touched',
           \A a \in visible : rows'[a].users = rows[a].users \/ a \in touched'
    PROVE  Grows
  <1> SUFFICES ASSUME NEW ua \in Given
               PROVE  ua \in Given'
    BY DEF Grows
  <1> QED BY DEF Given

LEMMA AnswersOfAreVisible ==
    ASSUME ServerOK, NEW g
    PROVE  /\ Newest(AnswersOf(g)) \in visible \cup {None}
           /\ Newest(ValidOf(g)) \in visible \cup {None}
  <1>1. AnswersOf(g) \in SUBSET Ids /\ ValidOf(g) \in SUBSET Ids
        /\ AnswersOf(g) \subseteq visible /\ ValidOf(g) \subseteq visible
    BY RowsAreIds DEF AnswersOf, ValidOf
  <1> QED BY <1>1, NewestIsOne

LEMMA PostAnswerOK ==
    ASSUME ServerOK, NEW t \in Tabs, PostAnswer(t)
    PROVE  ServerOK' /\ Grows
  <1>1. PICK g \in Groups, c \in Contents, ok \in BOOLEAN :
            \E last, row, count : posts' = [posts EXCEPT ![t] =
                 [pc |-> "called", g |-> g, content |-> c, ok |-> ok,
                  began |-> {a \in visible : rows[a].valid}, count |-> count,
                  id |-> last, row |-> row]]
    BY DEF PostAnswer
  <1>2. UNCHANGED <<tables, history>>
    BY DEF PostAnswer
  <1>3. g \in SUBSET Students /\ {a \in visible : rows[a].valid} \in SUBSET Ids
    BY AnswersAssumption, RowsAreIds
  <1>4. PostsOK'
    BY <1>1, <1>2, <1>3 DEF ServerOK, PostsOK, tables
  <1>5. AnswersTypeOK'
    BY <1>1, <1>2 DEF ServerOK, AnswersTypeOK, PostsOK, tables, history
  <1>6. Grows
    BY <1>2, GivenGrows DEF tables, history
  <1> QED BY <1>2, <1>4, <1>5, <1>6 DEF ServerOK, history

LEMMA SaveAnswerOK ==
    ASSUME ServerOK, NEW t \in Tabs, SaveAnswer(t)
    PROVE  ServerOK' /\ Grows
  <1> DEFINE p == posts[t]
             new == [users |-> p.g, content |-> p.content, points |-> AutoPoints[p.content],
                     valid |-> p.ok /\ WithinLimit(p.count), modifier |-> "plugin"]
             last == LookedAt(p.g)
             saving(id, sets) == [pc |-> "saving", id |-> id, new |-> new, sets |-> sets,
                                  began |-> p.began, looked |-> visible]
  <1>1. p.g \in SUBSET Students /\ p.content \in Contents /\ p.ok \in BOOLEAN
        /\ p.began \in SUBSET Ids
    BY DEF SaveAnswer, ServerOK, PostsOK
  <1>2. new \in Row
    <2>1. AutoPoints[p.content] \in Points \cup {None}
      BY <1>1, AnswersAssumption
    <2>2. (p.ok /\ WithinLimit(p.count)) \in BOOLEAN
      OBVIOUS
    <2> QED BY <1>1, <2>1, <2>2 DEF Row
  <1>3. \/ /\ last # None
           /\ \E sets \in SUBSET Columns : posts' = [posts EXCEPT ![t] = saving(last, sets)]
           /\ UNCHANGED <<rows, began, looked>>
        \/ /\ Len(rows) < MaxAnswers
           /\ rows' = Append(rows, new)
           /\ began' = Append(began, p.began)
           /\ looked' = Append(looked, visible)
           /\ posts' = [posts EXCEPT ![t] = saving(Len(rows) + 1, {})]
    BY DEF SaveAnswer, Merged
  <1>4. UNCHANGED <<visible, touched>>
    BY DEF SaveAnswer
  <1> HIDE DEF new
  <1>5. CASE /\ last # None
             /\ \E sets \in SUBSET Columns : posts' = [posts EXCEPT ![t] = saving(last, sets)]
             /\ UNCHANGED <<rows, began, looked>>
    <2>1. last \in DOMAIN rows
      BY <1>5, AnswersOfAreVisible DEF LookedAt, ServerOK, AnswersTypeOK
    <2>2. PostsOK'
      BY <1>1, <1>2, <1>5, <2>1 DEF ServerOK, PostsOK
    <2>3. AnswersTypeOK'
      BY <1>4, <1>5 DEF ServerOK, AnswersTypeOK, PostsOK
    <2>4. Grows
      BY <1>4, <1>5, GivenGrows
    <2> QED BY <1>5, <2>2, <2>3, <2>4 DEF ServerOK
  <1>6. CASE /\ Len(rows) < MaxAnswers
             /\ rows' = Append(rows, new)
             /\ began' = Append(began, p.began)
             /\ looked' = Append(looked, visible)
             /\ posts' = [posts EXCEPT ![t] = saving(Len(rows) + 1, {})]
    <2>1. rows \in Seq(Row) /\ Len(rows) \in Nat /\ DOMAIN rows = 1..Len(rows)
      BY RowsAreIds DEF ServerOK, AnswersTypeOK
    <2>2. /\ rows' \in Seq(Row) /\ Len(rows') = Len(rows) + 1
          /\ DOMAIN rows' = 1..(Len(rows) + 1)
          /\ \A a \in DOMAIN rows : rows'[a] = rows[a]
      BY <1>2, <1>6, <2>1
    <2>3. /\ began' \in Seq(SUBSET Ids) /\ DOMAIN began' = 1..(Len(rows) + 1)
          /\ looked' \in Seq(SUBSET Ids) /\ DOMAIN looked' = 1..(Len(rows) + 1)
      <3>1. /\ began \in Seq(SUBSET Ids) /\ Len(began) = Len(rows)
            /\ looked \in Seq(SUBSET Ids) /\ Len(looked) = Len(rows)
        BY <2>1 DEF ServerOK, AnswersTypeOK
      <3>2. visible \in SUBSET Ids
        BY RowsAreIds
      <3> QED BY <1>1, <1>6, <3>1, <3>2
    <2>4. PostsOK'
      BY <1>1, <1>2, <1>6, <2>1, <2>2 DEF ServerOK, PostsOK
    <2>5. AnswersTypeOK'
      BY <1>4, <1>6, <2>1, <2>2, <2>3, AnswersAssumption DEF ServerOK, AnswersTypeOK, PostsOK
    <2>6. Grows
      BY <1>4, <2>2, GivenGrows DEF ServerOK, AnswersTypeOK
    <2> QED BY <2>3, <2>4, <2>5, <2>6 DEF ServerOK
  <1> QED BY <1>3, <1>5, <1>6

LEMMA CommitAnswerOK ==
    ASSUME ServerOK, NEW t \in Tabs, CommitAnswer(t)
    PROVE  ServerOK' /\ Grows
  <1> DEFINE p == posts[t]
             row == Merged(rows[p.id], p.new, p.sets)
  <1>1. p.id \in DOMAIN rows /\ p.new \in Row /\ p.sets \in SUBSET Columns /\ p.began \in SUBSET Ids
    BY DEF CommitAnswer, ServerOK, PostsOK
  <1>2. row \in Row /\ row.users = rows[p.id].users
    BY <1>1, RowsAreIds, MergedRow
  <1>3. rows' = [rows EXCEPT ![p.id] = row]
    BY DEF CommitAnswer, Merged
  <1>4. /\ rows' \in Seq(Row) /\ DOMAIN rows' = DOMAIN rows /\ Len(rows') = Len(rows)
        /\ \A b \in DOMAIN rows : rows'[b] = IF b = p.id THEN row ELSE rows[b]
    <2> HIDE DEF row
    <2> QED BY <1>2, <1>3, RowReplaced
  <1>5. /\ visible' = visible \cup {p.id} /\ posts' = [posts EXCEPT ![t] = NoPost]
        /\ UNCHANGED <<looked, touched>>
        /\ began' = began \/ began' = [began EXCEPT ![p.id] = p.began]
    BY DEF CommitAnswer
  <1>6. began' \in Seq(SUBSET Ids) /\ DOMAIN began' = DOMAIN began
    <2>1. began \in Seq(SUBSET Ids) /\ p.id \in 1..Len(began)
      BY <1>1 DEF ServerOK, AnswersTypeOK
    <2> QED BY <1>1, <1>5, <2>1, ExceptSeq
  <1>7. PostsOK'
    BY <1>4, <1>5 DEF ServerOK, PostsOK, NoPost
  <1>8. AnswersTypeOK'
    BY <1>1, <1>4, <1>5, <1>6 DEF ServerOK, AnswersTypeOK, PostsOK, NoPost
  <1>9. Grows
    <2> HIDE DEF row
    <2>1. \A a \in visible : rows'[a].users = rows[a].users
      BY <1>2, <1>4 DEF ServerOK, AnswersTypeOK
    <2> QED BY <1>5, <2>1, GivenGrows
  <1> QED BY <1>5, <1>6, <1>7, <1>8, <1>9 DEF ServerOK

LEMMA FailAnswerOK ==
    ASSUME ServerOK, NEW t \in Tabs, FailAnswer(t)
    PROVE  ServerOK' /\ Grows
  <1>1. UNCHANGED <<tables, history>> /\ posts' = [posts EXCEPT ![t] = NoPost]
    BY DEF FailAnswer
  <1>2. PostsOK'
    BY <1>1 DEF ServerOK, PostsOK, tables, NoPost
  <1>3. AnswersTypeOK'
    BY <1>1 DEF ServerOK, AnswersTypeOK, PostsOK, tables, history, NoPost
  <1>4. Grows
    BY <1>1, GivenGrows DEF tables, history
  <1> QED BY <1>1, <1>2, <1>3, <1>4 DEF ServerOK, history

\* What teachers do to a row: its type stays, and its users do unless it is
\* noted as touched.
LEMMA TeacherOK ==
    ASSUME ServerOK, NEW a \in visible,
           \/ SaveValidity(a)
           \/ DeleteAnswer(a) /\ UNCHANGED posts
           \/ UNCHANGED posts /\ \E v \in Points \cup {None} : SavePoints(a, v)
    PROVE  ServerOK' /\ Grows
  <1>1. a \in DOMAIN rows /\ rows[a] \in Row
    BY RowsAreIds DEF ServerOK, AnswersTypeOK
  <1>2. \E r \in Row : /\ rows' = [rows EXCEPT ![a] = r]
                       /\ r.users = rows[a].users \/ a \in touched'
    <2>1. CASE SaveValidity(a)
      <3>1. [rows[a] EXCEPT !.valid = ~@] \in Row
        BY <1>1 DEF Row
      <3>2. rows' = [rows EXCEPT ![a] = [rows[a] EXCEPT !.valid = ~@]] /\ a \in touched'
        BY <2>1, <1>1 DEF SaveValidity
      <3> QED BY <3>1, <3>2
    <2>2. CASE DeleteAnswer(a)
      <3>1. [rows[a] EXCEPT !.users = {}] \in Row
        BY <1>1 DEF Row
      <3>2. rows' = [rows EXCEPT ![a] = [rows[a] EXCEPT !.users = {}]] /\ a \in touched'
        BY <2>2, <1>1 DEF DeleteAnswer
      <3> QED BY <3>1, <3>2
    <2>3. ASSUME NEW v \in Points \cup {None}, SavePoints(a, v)
          PROVE  \E r \in Row : rows' = [rows EXCEPT ![a] = r] /\ r.users = rows[a].users
      <3> DEFINE r == [rows[a] EXCEPT !.points = v, !.modifier = "teacher"]
      <3>1. r \in Row /\ r.users = rows[a].users
        BY <1>1 DEF Row
      <3>2. rows' = [rows EXCEPT ![a] = r]
        BY <2>3, <1>1 DEF SavePoints
      <3> QED BY <3>1, <3>2
    <2> QED BY <2>1, <2>2, <2>3
  <1>3. PICK r \in Row : /\ rows' = [rows EXCEPT ![a] = r]
                         /\ r.users = rows[a].users \/ a \in touched'
    BY <1>2
  <1>4. /\ rows' \in Seq(Row) /\ DOMAIN rows' = DOMAIN rows /\ Len(rows') = Len(rows)
        /\ \A b \in DOMAIN rows : rows'[b] = IF b = a THEN r ELSE rows[b]
    BY <1>3, RowReplaced
  <1>5. UNCHANGED <<visible, began, looked, posts>> /\ touched' \in {touched, touched \cup {a}}
    BY DEF SaveValidity, DeleteAnswer, SavePoints, history
  <1>6. PostsOK'
    BY <1>4, <1>5 DEF ServerOK, PostsOK
  <1>7. AnswersTypeOK'
    BY <1>4, <1>5 DEF ServerOK, AnswersTypeOK
  <1>8. Grows
    BY <1>3, <1>4, <1>5, GivenGrows DEF ServerOK, AnswersTypeOK
  <1> QED BY <1>5, <1>6, <1>7, <1>8 DEF ServerOK

-----------------------------------------------------------------------------
(* The page                                                                 *)

Entry == [points: MaybePoints, valid: BOOLEAN]

LEMMA ListShape ==
    ASSUME NEW d
    PROVE  d \in Lists <=> DOMAIN d \in SUBSET Ids /\ d \in [DOMAIN d -> Entry]
  BY DEF Lists, Entry

\* What a request holds, for the answers that are visible, who has given them
\* and what was typed for them.
Fits(r, given, seen, written) ==
    /\ r.kind = "get" /\ r.pc = "reply" =>
        \A a \in DOMAIN r.data : a \in seen /\ <<r.user, a>> \in given
    /\ r.kind \in {"put", "delete"} => r.answer \in seen
    /\ r.kind = "put" => r.points \in written[r.answer]

NetOK == /\ net \in [Slots -> NetRequests]
         /\ \A n \in Slots : Fits(net[n], Given, visible, typed)

\* The page's answers have been given by the user whose answers were fetched.
ListOK == \A a \in DOMAIN answers : a \in visible /\ <<fetched, a>> \in Given

\* The points field shows the points of the selected answer, or what was typed
\* while it was selected.
FieldOK == selected # None =>
             /\ selected.id \in filtered
             /\ points = selected.points \/ points \in typed[selected.id]

PageTypeOK ==
    /\ user \in Students /\ fetched \in Students \cup {None}
    /\ answers \in Lists /\ filtered \subseteq DOMAIN answers
    /\ onlyValid \in BOOLEAN
    /\ selected \in [id: Ids, points: MaybePoints, listed: BOOLEAN] \cup {None}
    /\ points \in MaybePoints
    /\ typed \in [Ids -> SUBSET MaybePoints]

IInv == ServerOK /\ PageTypeOK /\ NetOK /\ ListOK /\ FieldOK

LEMMA StillFits ==
    ASSUME NEW r \in NetRequests, NEW given, NEW seen \in SUBSET Ids, NEW written,
           NEW given2, NEW seen2, NEW written2,
           Fits(r, given, seen, written), given \subseteq given2, seen \subseteq seen2,
           \A a \in Ids : written[a] \subseteq written2[a]
    PROVE  Fits(r, given2, seen2, written2)
  BY DEF Fits

\* Requests that stay stay in order, and the new ones have to be.
LEMMA NetKept ==
    ASSUME IInv, Grows, \A a \in Ids : typed[a] \subseteq typed'[a],
           net' = [n \in Slots |-> net'[n]],
           \A n \in Slots : \/ net'[n] = net[n]
                            \/ net'[n] \in NetRequests /\ Fits(net'[n], Given', visible', typed')
    PROVE  NetOK'
  <1>1. net' \in [Slots -> NetRequests]
    <2>1. \A n \in Slots : net'[n] \in NetRequests
      BY DEF IInv, NetOK
    <2> QED BY <2>1
  <1>2. ASSUME NEW n \in Slots
        PROVE  Fits(net'[n], Given', visible', typed')
    <2>1. CASE net'[n] = net[n]
      <3>1. net[n] \in NetRequests /\ Fits(net[n], Given, visible, typed) /\ visible \in SUBSET Ids
        BY RowsAreIds DEF IInv, NetOK
      <3> QED BY <2>1, <3>1, StillFits DEF Grows
    <2>2. CASE net'[n] # net[n]
      BY <2>2
    <2> QED BY <2>1, <2>2
  <1> QED BY <1>1, <1>2 DEF NetOK

LEMMA SendShape ==
    ASSUME NEW old, NEW rs, Send(old, rs)
    PROVE  /\ net' = [n \in Slots |-> net'[n]]
           /\ \A n \in Slots : net'[n] = old[n] \/ \E i \in DOMAIN rs : net'[n] = rs[i]
  <1> DEFINE free == {n \in Slots : old[n] = Free}
             slot(i) == CHOOSE n \in free : Cardinality({m \in free : m < n}) = i - 1
  <1>1. net' = [n \in Slots |->
             IF \E i \in DOMAIN rs : slot(i) = n
             THEN rs[CHOOSE i \in DOMAIN rs : slot(i) = n] ELSE old[n]]
    BY DEF Send
  <1> HIDE DEF slot
  <1> QED BY <1>1

AllFit(rs) == \A i \in DOMAIN rs : rs[i] \in NetRequests /\ Fits(rs[i], Given, visible, typed)

LEMMA FewFit ==
    /\ AllFit(<< >>)
    /\ \A r \in NetRequests : Fits(r, Given, visible, typed) => AllFit(<<r>>)
    /\ \A r, g \in NetRequests :
         Fits(r, Given, visible, typed) /\ Fits(g, Given, visible, typed) => AllFit(<<r, g>>)
  <1>1. DOMAIN << >> = {}
    OBVIOUS
  <1>2. ASSUME NEW r, NEW g
        PROVE  /\ DOMAIN <<r>> = {1} /\ <<r>>[1] = r
               /\ DOMAIN <<r, g>> = {1, 2} /\ <<r, g>>[1] = r /\ <<r, g>>[2] = g
    OBVIOUS
  <1> QED BY <1>1, <1>2 DEF AllFit

\* The page sends the requests rs, all in order, and nothing else changes that
\* requests are about.
LEMMA SendOK ==
    ASSUME IInv, NEW old, NEW rs, Send(old, rs),
           \A n \in Slots : old[n] \in {net[n], Free},
           UNCHANGED <<server, typed>>,
           AllFit(rs)
    PROVE  NetOK' /\ ServerOK' /\ Grows
  <1>1. UNCHANGED <<rows, visible, posts, began, looked, touched>>
    BY DEF server
  <1>2. ServerOK' /\ Given' = Given
    BY <1>1 DEF IInv, ServerOK, PostsOK, AnswersTypeOK, Given, Untouched
  <1>3. Grows
    BY <1>1, <1>2 DEF Grows
  <1>4. Free \in NetRequests /\ Fits(Free, Given, visible, typed)
    BY DEF NetRequests, Free, Fits
  <1>5. \A n \in Slots : \/ net'[n] = net[n]
                         \/ net'[n] \in NetRequests /\ Fits(net'[n], Given', visible', typed')
    BY <1>1, <1>2, <1>4, SendShape DEF AllFit
  <1>6. net' = [n \in Slots |-> net'[n]]
    BY SendShape
  <1> QED BY <1>2, <1>3, <1>5, <1>6, NetKept

LEMMA GetFits ==
    ASSUME NEW u \in Students, NEW refresh \in BOOLEAN
    PROVE  Get(u, refresh) \in NetRequests /\ Fits(Get(u, refresh), Given, visible, typed)
  BY DEF Get, NetRequests, Fits

\* trySavePoints sends what was typed for the selected answer.
LEMMA TrySavePointsFits ==
    ASSUME IInv, NEW update \in BOOLEAN, NEW again \in BOOLEAN
    PROVE  \/ TrySavePoints(update, again) = << >>
           \/ \E r \in NetRequests : /\ Fits(r, Given, visible, typed)
                                     /\ TrySavePoints(update, again) = <<r>>
  <1>1. CASE selected = None \/ points = selected.points
    BY <1>1 DEF TrySavePoints
  <1>2. CASE ~(selected = None \/ points = selected.points)
    <2>1. selected.id \in filtered /\ points \in typed[selected.id] /\ selected.id \in Ids
      BY <1>2 DEF IInv, FieldOK, PageTypeOK
    <2>2. selected.id \in visible
      BY <2>1 DEF IInv, ListOK, PageTypeOK
    <2>3. Put(update, again) \in NetRequests /\ Fits(Put(update, again), Given, visible, typed)
      BY <2>1, <2>2 DEF Put, NetRequests, Fits, IInv, PageTypeOK
    <2>4. TrySavePoints(update, again) = <<Put(update, again)>>
      BY <1>2 DEF TrySavePoints
    <2> QED BY <2>3, <2>4
  <1> QED BY <1>1, <1>2

\* An answer of the list is selected, or none.
LEMMA SelectOK ==
    ASSUME NEW data \in Lists, NEW a, a \in filtered' \cup {None},
           filtered' \subseteq DOMAIN data, Select(Object(data, a))
    PROVE  /\ FieldOK'
           /\ selected' \in [id: Ids, points: MaybePoints, listed: BOOLEAN] \cup {None}
           /\ points' \in MaybePoints
  <1>1. CASE a = None
    BY <1>1 DEF Select, Object, FieldOK, MaybePoints
  <1>2. CASE a # None
    <2>1. a \in DOMAIN data /\ a \in filtered'
      BY <1>2
    <2>2. a \in Ids /\ data[a].points \in MaybePoints
      BY <2>1, ListShape DEF Entry
    <2>3. selected' = [id |-> a, points |-> data[a].points, listed |-> TRUE]
      BY <1>2 DEF Select, Object
    <2>4. points' = data[a].points \/ selected' = None
      BY <1>2 DEF Select, Object
    <2> QED BY <2>1, <2>2, <2>3, <2>4 DEF FieldOK, Select, Object, MaybePoints
  <1> QED BY <1>1, <1>2

LEMMA FilterSelects ==
    ASSUME NEW data \in Lists, NEW valid
    PROVE  /\ Filter(data, valid) \subseteq DOMAIN data
           /\ Newest(Filter(data, valid)) \in Filter(data, valid) \cup {None}
  <1>1. Filter(data, valid) \subseteq DOMAIN data /\ Filter(data, valid) \in SUBSET Ids
    BY ListShape DEF Filter
  <1> QED BY <1>1, NewestIsOne

LEMMA ShowNewestOK ==
    ASSUME NEW data \in Lists, ShowNewest(data)
    PROVE  /\ filtered' \subseteq DOMAIN data /\ FieldOK'
           /\ selected' \in [id: Ids, points: MaybePoints, listed: BOOLEAN] \cup {None}
           /\ points' \in MaybePoints
  BY FilterSelects, SelectOK DEF ShowNewest

LEMMA RefilteredOK ==
    ASSUME IInv, NEW data \in Lists, NEW valid, NEW new \in BOOLEAN, typed' = typed,
           Refiltered(data, valid, new)
    PROVE  /\ filtered' \subseteq DOMAIN data /\ FieldOK'
           /\ selected' \in [id: Ids, points: MaybePoints, listed: BOOLEAN] \cup {None}
           /\ points' \in MaybePoints
  <1>1. filtered' = Filter(data, valid) /\ filtered' \subseteq DOMAIN data
    BY FilterSelects DEF Refiltered
  <1>2. CASE selected # None /\ selected.id \in Filter(data, valid)
    <2>1. selected \in [id: Ids, points: MaybePoints, listed: BOOLEAN]
      BY <1>2 DEF IInv, PageTypeOK
    <2>2. selected' = [selected EXCEPT !.listed = @ /\ ~new] /\ points' = points
      BY <1>2 DEF Refiltered
    <2>3. /\ selected' \in [id: Ids, points: MaybePoints, listed: BOOLEAN]
          /\ selected'.id = selected.id /\ selected'.points = selected.points
      BY <2>1, <2>2
    <2>4. FieldOK'
      BY <1>1, <1>2, <2>2, <2>3 DEF IInv, FieldOK
    <2> QED BY <1>1, <2>2, <2>3, <2>4 DEF IInv, PageTypeOK
  <1>3. CASE ~(selected # None /\ selected.id \in Filter(data, valid))
    BY <1>1, <1>3, FilterSelects, SelectOK DEF Refiltered
  <1> QED BY <1>2, <1>3

-----------------------------------------------------------------------------
(* The actions                                                              *)

\* What stays true of the list and of the field while the page stays.
LEMMA PageStays ==
    ASSUME IInv, Grows, UNCHANGED <<page, typed>>
    PROVE  PageTypeOK' /\ ListOK' /\ FieldOK'
  BY DEF IInv, PageTypeOK, ListOK, FieldOK, Grows, page, shownPage

\* Students and the teachers of other pages, who do not change this page.
LEMMA ServerStepOK ==
    ASSUME IInv, UNCHANGED <<page, net, typed>>,
           AnswersNext \/ \E a \in visible : SaveValidity(a)
    PROVE  IInv'
  <1>1. ServerOK' /\ Grows
    BY PostAnswerOK, SaveAnswerOK, CommitAnswerOK, FailAnswerOK, TeacherOK DEF IInv, AnswersNext
  <1>2. NetOK'
    <2>1. net' = [n \in Slots |-> net'[n]]
      BY DEF IInv, NetOK
    <2> QED BY <1>1, <2>1, NetKept
  <1>3. PageTypeOK' /\ ListOK' /\ FieldOK'
    BY <1>1, PageStays
  <1> QED BY <1>1, <1>2, <1>3 DEF IInv

\* A handler that sends requests and leaves the page as it is, but for the user
\* that is wanted.
LEMMA SendingOK ==
    ASSUME IInv, NEW rs, Send(net, rs), UNCHANGED <<server, shownPage, typed>>,
           user' \in Students,
           AllFit(rs)
    PROVE  IInv'
  <1>1. NetOK' /\ ServerOK' /\ Grows
    BY SendOK
  <1>2. PageTypeOK' /\ ListOK' /\ FieldOK'
    BY <1>1 DEF IInv, PageTypeOK, ListOK, FieldOK, Grows, shownPage
  <1> QED BY <1>1, <1>2 DEF IInv

LEMMA BlurPointsOK ==
    ASSUME IInv, BlurPoints
    PROVE  IInv'
  <1> DEFINE rs == TrySavePoints(TRUE, FALSE)
  <1>1. AllFit(rs)
    BY TrySavePointsFits, FewFit
  <1>2. Send(net, rs) /\ UNCHANGED <<server, shownPage, typed>> /\ user' \in Students
    BY DEF BlurPoints, IInv, PageTypeOK, page
  <1> HIDE DEF rs
  <1> QED BY <1>1, <1>2, SendingOK

LEMMA PairConcat ==
    ASSUME NEW S, NEW r \in S, NEW g \in S
    PROVE  <<r>> \o <<g>> = <<r, g>>
  <1>1. /\ <<r>> \in Seq(S) /\ <<g>> \in Seq(S) /\ <<r, g>> \in Seq(S)
        /\ Len(<<r>>) = 1 /\ Len(<<g>>) = 1 /\ Len(<<r, g>>) = 2
    OBVIOUS
  <1>2. <<r>> \o <<g>> \in Seq(S) /\ Len(<<r>> \o <<g>>) = 2
    BY <1>1, ConcatProperties
  <1>3. \A i \in 1..2 : (<<r>> \o <<g>>)[i] = <<r, g>>[i]
    BY <1>1
  <1> QED BY <1>1, <1>2, <1>3, SeqEqual

LEMMA ChangeStudentOK ==
    ASSUME IInv, NEW u \in Students, ChangeStudent(u)
    PROVE  IInv'
  <1> DEFINE first == TrySavePoints(FALSE, FALSE)
             rs == first \o <<Get(u, FALSE)>>
  <1>1. \/ first = << >>
        \/ \E r \in NetRequests : Fits(r, Given, visible, typed) /\ first = <<r>>
    BY TrySavePointsFits
  <1>2. Get(u, FALSE) \in NetRequests /\ Fits(Get(u, FALSE), Given, visible, typed)
    BY GetFits
  <1>3. Send(net, rs) /\ UNCHANGED <<server, shownPage, typed>> /\ user' \in Students
    BY DEF ChangeStudent
  <1> HIDE DEF first
  <1>4. rs = <<Get(u, FALSE)>> \/ \E r \in NetRequests :
            Fits(r, Given, visible, typed) /\ rs = <<r, Get(u, FALSE)>>
    <2>1. << >> \o <<Get(u, FALSE)>> = <<Get(u, FALSE)>>
      BY <1>2, ConcatEmptySeq
    <2>2. \A r \in NetRequests : <<r>> \o <<Get(u, FALSE)>> = <<r, Get(u, FALSE)>>
      BY <1>2, PairConcat
    <2> QED BY <1>1, <2>1, <2>2
  <1>5. AllFit(rs)
    <2> HIDE DEF rs
    <2> QED BY <1>2, <1>4, FewFit
  <1> HIDE DEF rs
  <1> QED BY <1>3, <1>5, SendingOK

\* The handlers that send a single request and leave the list as it is.
LEMMA SendOneOK ==
    ASSUME IInv, NEW r \in NetRequests, Fits(r, Given, visible, typed), Send(net, <<r>>),
           UNCHANGED <<server, shownPage, typed>>, user' \in Students
    PROVE  IInv'
  <1>1. AllFit(<<r>>)
    BY FewFit
  <1> QED BY <1>1, SendingOK

LEMMA GetSendersOK ==
    ASSUME IInv,
           \/ \E u \in Students : UserSelected(u)
           \/ RefreshPlugin
           \/ CheckUsers
    PROVE  IInv'
  <1>1. user \in Students
    BY DEF IInv, PageTypeOK
  <1>2. \E u \in Students, refresh \in BOOLEAN : Send(net, <<Get(u, refresh)>>)
    BY <1>1 DEF UserSelected, RefreshPlugin, CheckUsers
  <1>3. UNCHANGED <<server, shownPage, typed>> /\ user' \in Students
    BY <1>1 DEF UserSelected, RefreshPlugin, CheckUsers, page
  <1> QED BY <1>2, <1>3, GetFits, SendOneOK

LEMMA AskDeleteOK ==
    ASSUME IInv, AskDelete
    PROVE  IInv'
  <1> DEFINE r == [kind |-> "delete", pc |-> "sent", answer |-> selected.id]
  <1>1. selected.id \in Ids /\ selected.id \in visible
    BY DEF AskDelete, IInv, PageTypeOK, FieldOK, ListOK
  <1>2. r \in NetRequests /\ Fits(r, Given, visible, typed)
    BY <1>1 DEF NetRequests, Fits
  <1>3. Send(net, <<r>>) /\ UNCHANGED <<server, shownPage, typed>> /\ user' \in Students
    BY DEF AskDelete, page, IInv, PageTypeOK
  <1> HIDE DEF r
  <1> QED BY <1>2, <1>3, SendOneOK

LEMMA RequestFailsOK ==
    ASSUME IInv, NEW n \in Slots, RequestFails(n)
    PROVE  IInv'
  <1> DEFINE here == [net EXCEPT ![n] = Free]
  <1>1. PICK rs \in {<<Get(user, FALSE)>>, << >>} : Send(here, rs)
    BY DEF RequestFails
  <1>2. \A m \in Slots : here[m] \in {net[m], Free}
    BY DEF IInv, NetOK
  <1>3. user \in Students
    BY DEF IInv, PageTypeOK
  <1>4. AllFit(rs)
    BY <1>3, GetFits, FewFit
  <1>5. UNCHANGED <<server, page, typed>>
    BY DEF RequestFails
  <1>6. NetOK' /\ ServerOK' /\ Grows
    <2> HIDE DEF here
    <2> QED BY <1>1, <1>2, <1>4, <1>5, SendOK
  <1>7. PageTypeOK' /\ ListOK' /\ FieldOK'
    BY <1>5, <1>6, PageStays
  <1> QED BY <1>6, <1>7 DEF IInv

\* Handlers that send nothing and touch no table.
LEMMA NothingSent ==
    ASSUME IInv, UNCHANGED <<server, net>>, \A a \in Ids : typed[a] \subseteq typed'[a]
    PROVE  ServerOK' /\ NetOK' /\ Grows /\ Given' = Given /\ visible' = visible
  <1>1. ServerOK' /\ Given' = Given /\ visible' = visible
    BY DEF server, IInv, ServerOK, PostsOK, AnswersTypeOK, Given
  <1>2. Grows
    BY <1>1 DEF Grows
  <1>3. net' = [n \in Slots |-> net'[n]]
    BY DEF IInv, NetOK
  <1> QED BY <1>1, <1>2, <1>3, NetKept

LEMMA TypePointsOK ==
    ASSUME IInv, NEW v \in Points \cup {None}, TypePoints(v)
    PROVE  IInv'
  <1>1. /\ UNCHANGED <<server, user, fetched, answers, filtered, onlyValid, selected, net>>
        /\ points' = v
        /\ typed' = IF selected = None THEN typed
                    ELSE [typed EXCEPT ![selected.id] = @ \cup {v}]
    BY DEF TypePoints
  <1>2. selected # None => selected.id \in Ids
    BY DEF IInv, PageTypeOK
  <1>3. typed' \in [Ids -> SUBSET MaybePoints] /\ \A a \in Ids : typed[a] \subseteq typed'[a]
    BY <1>1, <1>2 DEF IInv, PageTypeOK, MaybePoints
  <1>4. ServerOK' /\ NetOK' /\ Given' = Given /\ visible' = visible
    BY <1>1, <1>3, NothingSent
  <1>5. FieldOK'
    BY <1>1, <1>2 DEF IInv, PageTypeOK, FieldOK
  <1>6. PageTypeOK' /\ ListOK'
    BY <1>1, <1>3, <1>4 DEF IInv, PageTypeOK, ListOK, MaybePoints
  <1> QED BY <1>4, <1>5, <1>6 DEF IInv

LEMMA ChangeUserOK ==
    ASSUME IInv, NEW u \in Students, ChangeUser(u)
    PROVE  IInv'
  <1>1. UNCHANGED <<server, shownPage, net, typed>> /\ user' = u
    BY DEF ChangeUser
  <1>2. ServerOK' /\ NetOK' /\ Given' = Given /\ visible' = visible
    BY <1>1, NothingSent
  <1>3. PageTypeOK' /\ ListOK' /\ FieldOK'
    BY <1>1, <1>2 DEF IInv, PageTypeOK, ListOK, FieldOK, shownPage
  <1> QED BY <1>2, <1>3 DEF IInv

LEMMA NeighbourIsListed ==
    ASSUME IInv, NEW older
    PROVE  Neighbour(older) \in filtered \cup {None}
  <1>1. filtered \in SUBSET Ids
    BY ListShape DEF IInv, PageTypeOK
  <1> DEFINE a == IF selected = None THEN None ELSE selected.id
             later == {b \in filtered : IF older THEN a = None \/ b < a ELSE a # None /\ b > a}
  <1>2. later \in SUBSET Ids /\ later \subseteq filtered
    BY <1>1
  <1>3. later # {} => Max(later) \in filtered /\ Min(later) \in filtered
    <2> HIDE DEF later
    <2> QED BY <1>2, MaxOfIds, MinOfIds
  <1>4. filtered # {} => Max(filtered) \in filtered /\ Min(filtered) \in filtered
    BY <1>1, MaxOfIds, MinOfIds
  <1> QED BY <1>3, <1>4 DEF Neighbour

LEMMA ChangeAnswerToOK ==
    ASSUME IInv, NEW older \in BOOLEAN, ChangeAnswerTo(older)
    PROVE  IInv'
  <1> DEFINE rs == TrySavePoints(FALSE, TRUE)
  <1>1. AllFit(rs)
    BY TrySavePointsFits, FewFit
  <1>2. /\ Send(net, rs) /\ Select(Object(answers, Neighbour(older)))
        /\ UNCHANGED <<server, user, fetched, answers, filtered, onlyValid, typed>>
    BY DEF ChangeAnswerTo
  <1>3. NetOK' /\ ServerOK' /\ Grows
    <2> HIDE DEF rs
    <2> QED BY <1>1, <1>2, SendOK DEF IInv, NetOK
  <1>4. /\ FieldOK' /\ points' \in MaybePoints
        /\ selected' \in [id: Ids, points: MaybePoints, listed: BOOLEAN] \cup {None}
    <2>1. answers \in Lists /\ filtered' \subseteq DOMAIN answers
      BY <1>2 DEF IInv, PageTypeOK
    <2>2. Neighbour(older) \in filtered' \cup {None}
      BY <1>2, NeighbourIsListed
    <2> QED BY <1>2, <2>1, <2>2, SelectOK
  <1>5. PageTypeOK' /\ ListOK'
    BY <1>2, <1>3, <1>4 DEF IInv, PageTypeOK, ListOK, Grows
  <1> QED BY <1>3, <1>4, <1>5 DEF IInv

LEMMA SelectAnswerOK ==
    ASSUME IInv, NEW a \in Ids, SelectAnswer(a)
    PROVE  IInv'
  <1>1. /\ a \in filtered /\ Select(Object(answers, a))
        /\ UNCHANGED <<server, user, fetched, answers, filtered, onlyValid, net, typed>>
    BY DEF SelectAnswer
  <1>2. ServerOK' /\ NetOK' /\ Given' = Given /\ visible' = visible
    BY <1>1, NothingSent
  <1>3. /\ FieldOK' /\ points' \in MaybePoints
        /\ selected' \in [id: Ids, points: MaybePoints, listed: BOOLEAN] \cup {None}
    <2>1. answers \in Lists /\ filtered' \subseteq DOMAIN answers
      BY <1>1 DEF IInv, PageTypeOK
    <2> QED BY <1>1, <2>1, SelectOK
  <1>4. PageTypeOK' /\ ListOK'
    BY <1>1, <1>2, <1>3 DEF IInv, PageTypeOK, ListOK
  <1> QED BY <1>2, <1>3, <1>4 DEF IInv

LEMMA ToggleOnlyValidOK ==
    ASSUME IInv, ToggleOnlyValid
    PROVE  IInv'
  <1>1. /\ onlyValid' = ~onlyValid /\ Refiltered(answers, ~onlyValid, FALSE)
        /\ UNCHANGED <<server, user, fetched, answers, net, typed>>
    BY DEF ToggleOnlyValid
  <1>2. ServerOK' /\ NetOK' /\ Given' = Given /\ visible' = visible
    BY <1>1, NothingSent
  <1>3. /\ filtered' \subseteq DOMAIN answers /\ FieldOK' /\ points' \in MaybePoints
        /\ selected' \in [id: Ids, points: MaybePoints, listed: BOOLEAN] \cup {None}
    BY <1>1, RefilteredOK DEF IInv, PageTypeOK
  <1>4. PageTypeOK' /\ ListOK'
    BY <1>1, <1>2, <1>3 DEF IInv, PageTypeOK, ListOK
  <1> QED BY <1>2, <1>3, <1>4 DEF IInv

\* What a request of each kind holds.
LEMMA NetShapes ==
    ASSUME NEW r \in NetRequests
    PROVE  /\ r.kind = "get" => r.user \in Students /\ r.refresh \in BOOLEAN
           /\ r.kind = "get" /\ r.pc = "reply" => r.data \in Lists
           /\ r.kind = "put" =>
                r \in [kind: {"put"}, pc: {"sent", "reply"}, answer: Ids, points: MaybePoints,
                       update: BOOLEAN, again: BOOLEAN]
           /\ r.kind = "delete" =>
                r \in [kind: {"delete"}, pc: {"sent", "reply"}, answer: Ids]
  BY DEF NetRequests, Free

LEMMA AnswersForOK ==
    ASSUME ServerOK, NEW u \in Students
    PROVE  /\ AnswersFor(u) \in Lists
           /\ \A a \in DOMAIN AnswersFor(u) : a \in visible /\ <<u, a>> \in Given
  <1>1. AnswersOf({u}) \subseteq visible /\ \A a \in AnswersOf({u}) : u \in rows[a].users
    BY DEF AnswersOf
  <1>2. \A a \in visible : rows[a].points \in MaybePoints /\ rows[a].valid \in BOOLEAN /\ a \in Ids
    BY RowsAreIds DEF ServerOK, AnswersTypeOK, Row, MaybePoints
  <1>3. DOMAIN AnswersFor(u) = AnswersOf({u}) /\ AnswersFor(u) \in [AnswersOf({u}) -> Entry]
    BY <1>1, <1>2 DEF AnswersFor, Entry
  <1>4. AnswersFor(u) \in Lists
    BY <1>1, <1>2, <1>3, ListShape
  <1> QED BY <1>1, <1>3, <1>4 DEF Given

\* The requests after one of them has been served or has got its reply.
LEMMA OneServed ==
    ASSUME IInv, NEW n \in Slots, NEW x, net' = [net EXCEPT ![n] = x], Grows, typed' = typed,
           x \in NetRequests, Fits(x, Given', visible', typed)
    PROVE  NetOK'
  <1>1. net' = [m \in Slots |-> net'[m]]
        /\ \A m \in Slots : net'[m] = net[m] \/ net'[m] = x
    BY DEF IInv, NetOK
  <1>2. typed \in [Ids -> SUBSET MaybePoints]
    BY DEF IInv, PageTypeOK
  <1>3. \A a \in Ids : typed[a] \subseteq typed'[a]
    OBVIOUS
  <1> QED BY <1>1, <1>3, NetKept

LEMMA ServeOK ==
    ASSUME IInv, NEW n \in Slots, Serve(n)
    PROVE  IInv'
  <1> DEFINE r == net[n]
  <1>0. /\ ServerOK /\ r \in NetRequests /\ Fits(r, Given, visible, typed)
        /\ UNCHANGED <<posts, left, page, typed>>
    BY DEF IInv, NetOK, Serve
  <1>1. Free \in NetRequests /\ \A g, v : Fits(Free, g, v, typed)
    BY DEF NetRequests, Free, Fits
  <1>2. NetOK' /\ ServerOK' /\ Grows
    <2>1. CASE r.kind = "get"
      <3> DEFINE x == [kind |-> "get", pc |-> "reply", user |-> r.user,
                       refresh |-> r.refresh, data |-> AnswersFor(r.user)]
      <3>1. net' = [net EXCEPT ![n] = x] /\ UNCHANGED <<tables, history>>
        BY <2>1 DEF Serve
      <3>2. ServerOK' /\ Given' = Given /\ visible' = visible
        BY <1>0, <3>1 DEF ServerOK, PostsOK, AnswersTypeOK, Given, tables, history
      <3>3. x \in NetRequests /\ Fits(x, Given, visible, typed)
        BY <1>0, <2>1, NetShapes, AnswersForOK DEF NetRequests, Fits
      <3>4. NetOK'
        <4> HIDE DEF x
        <4> QED BY <1>0, <3>1, <3>2, <3>3, OneServed DEF Grows
      <3> QED BY <3>2, <3>4 DEF Grows
    <2>2. CASE r.kind = "put"
      <3> DEFINE x == [r EXCEPT !.pc = "reply"]
      <3>1. net' = [net EXCEPT ![n] = x] /\ SavePoints(r.answer, r.points)
        BY <2>2 DEF Serve
      <3>2. r \in [kind: {"put"}, pc: {"sent", "reply"}, answer: Ids, points: MaybePoints,
                   update: BOOLEAN, again: BOOLEAN]
        BY <1>0, <2>2, NetShapes
      <3>3. r.answer \in visible /\ r.points \in typed[r.answer]
        BY <1>0, <2>2 DEF Fits
      <3>4. ServerOK' /\ Grows
        BY <1>0, <3>1, <3>2, <3>3, TeacherOK DEF MaybePoints
      <3>5. /\ x \in NetRequests /\ x.kind = "put"
            /\ x.answer = r.answer /\ x.points = r.points
        BY <3>2 DEF NetRequests
      <3>6. Fits(x, Given', visible', typed)
        <4> HIDE DEF x
        <4> QED BY <3>3, <3>4, <3>5 DEF Fits, Grows
      <3>7. NetOK'
        <4> HIDE DEF x
        <4> QED BY <1>0, <3>1, <3>4, <3>5, <3>6, OneServed
      <3> QED BY <3>4, <3>7
    <2>3. CASE r.kind = "delete" /\ rows[r.answer].users = {}
      <3>1. net' = [net EXCEPT ![n] = Free] /\ UNCHANGED <<tables, history>>
        BY <2>3 DEF Serve
      <3>2. ServerOK' /\ Given' = Given /\ visible' = visible
        BY <1>0, <3>1 DEF ServerOK, PostsOK, AnswersTypeOK, Given, tables, history
      <3>3. NetOK'
        BY <1>0, <1>1, <3>1, <3>2, OneServed DEF Grows
      <3> QED BY <3>2, <3>3 DEF Grows
    <2>4. CASE r.kind = "delete" /\ rows[r.answer].users # {}
      <3> DEFINE x == [r EXCEPT !.pc = "reply"]
      <3>1. net' = [net EXCEPT ![n] = x] /\ DeleteAnswer(r.answer)
        BY <2>4 DEF Serve
      <3>2. r \in [kind: {"delete"}, pc: {"sent", "reply"}, answer: Ids]
        BY <1>0, <2>4, NetShapes
      <3>3. r.answer \in visible
        BY <1>0, <2>4 DEF Fits
      <3>4. ServerOK' /\ Grows
        BY <1>0, <3>1, <3>3, TeacherOK
      <3>5. x \in NetRequests /\ x.kind = "delete" /\ x.answer = r.answer
        BY <3>2 DEF NetRequests
      <3>6. Fits(x, Given', visible', typed)
        <4> HIDE DEF x
        <4> QED BY <3>3, <3>4, <3>5 DEF Fits, Grows
      <3>7. NetOK'
        <4> HIDE DEF x
        <4> QED BY <1>0, <3>1, <3>4, <3>5, <3>6, OneServed
      <3> QED BY <3>4, <3>7
    <2>5. r.kind \in {"get", "put", "delete"}
      BY <1>0 DEF Serve, NetRequests, Free
    <2> QED BY <2>1, <2>2, <2>3, <2>4, <2>5
  <1>3. PageTypeOK' /\ ListOK' /\ FieldOK'
    BY <1>0, <1>2, PageStays
  <1> QED BY <1>2, <1>3 DEF IInv

\* A reply that the page handles without sending anything.
LEMMA ReplyHandled ==
    ASSUME IInv, NEW n \in Slots, net' = [net EXCEPT ![n] = Free], UNCHANGED <<server, typed>>
    PROVE  ServerOK' /\ NetOK' /\ Given' = Given /\ visible' = visible
  <1>1. ServerOK' /\ Given' = Given /\ visible' = visible
    BY DEF server, IInv, ServerOK, PostsOK, AnswersTypeOK, Given
  <1>2. Free \in NetRequests /\ Fits(Free, Given', visible', typed)
    BY DEF NetRequests, Free, Fits
  <1>3. NetOK'
    BY <1>1, <1>2, OneServed DEF Grows
  <1> QED BY <1>1, <1>3

LEMMA AnswersFetchedOK ==
    ASSUME IInv, NEW n \in Slots, AnswersFetched(n)
    PROVE  IInv'
  <1> DEFINE r == net[n]
  <1>1. r.data \in Lists /\ r.user \in Students
    BY NetShapes DEF AnswersFetched, IInv, NetOK
  <1>2. /\ net' = [net EXCEPT ![n] = Free] /\ fetched' = r.user /\ answers' = r.data
        /\ ShowNewest(r.data) \/ Refiltered(r.data, onlyValid, TRUE)
        /\ UNCHANGED <<server, left, user, onlyValid, typed>>
    BY DEF AnswersFetched
  <1>3. ServerOK' /\ NetOK' /\ Given' = Given /\ visible' = visible
    BY <1>2, ReplyHandled
  <1>4. /\ filtered' \subseteq DOMAIN r.data /\ FieldOK' /\ points' \in MaybePoints
        /\ selected' \in [id: Ids, points: MaybePoints, listed: BOOLEAN] \cup {None}
    BY <1>1, <1>2, ShowNewestOK, RefilteredOK
  <1>5. \A a \in DOMAIN r.data : a \in visible /\ <<r.user, a>> \in Given
    BY DEF AnswersFetched, IInv, NetOK, Fits
  <1>6. PageTypeOK' /\ ListOK'
    BY <1>1, <1>2, <1>3, <1>4, <1>5 DEF IInv, PageTypeOK, ListOK
  <1> QED BY <1>3, <1>4, <1>6 DEF IInv

LEMMA PointsSavedOK ==
    ASSUME IInv, NEW n \in Slots, PointsSaved(n)
    PROVE  IInv'
  <1> DEFINE here == [net EXCEPT ![n] = Free]
  <1>1. PICK rs \in {<<Get(user, FALSE)>>, << >>} : Send(here, rs)
    BY DEF PointsSaved
  <1>2. \A m \in Slots : here[m] \in {net[m], Free}
    BY DEF IInv, NetOK
  <1>3. user \in Students
    BY DEF IInv, PageTypeOK
  <1>4. AllFit(rs)
    BY <1>3, GetFits, FewFit
  <1>5. UNCHANGED <<server, left, user, fetched, filtered, onlyValid, points, typed>>
    BY DEF PointsSaved
  <1>6. NetOK' /\ ServerOK' /\ Grows
    <2> HIDE DEF here
    <2> QED BY <1>1, <1>2, <1>4, <1>5, SendOK
  <1>7. \/ UNCHANGED <<selected, answers>>
        \/ /\ selected # None /\ selected' = [selected EXCEPT !.points = points]
           /\ answers' \in {answers, [answers EXCEPT ![selected.id].points = points]}
    BY DEF PointsSaved
  <1>8. CASE UNCHANGED <<selected, answers>>
    BY <1>5, <1>6, <1>8 DEF IInv, PageTypeOK, ListOK, FieldOK, Grows
  <1>9. CASE /\ selected # None /\ selected' = [selected EXCEPT !.points = points]
             /\ answers' \in {answers, [answers EXCEPT ![selected.id].points = points]}
    <2>1. /\ selected \in [id: Ids, points: MaybePoints, listed: BOOLEAN]
          /\ selected.id \in filtered /\ points \in MaybePoints /\ answers \in Lists
      BY <1>9 DEF IInv, PageTypeOK, FieldOK
    <2>2. /\ selected' \in [id: Ids, points: MaybePoints, listed: BOOLEAN]
          /\ selected'.id = selected.id /\ selected'.points = points
      BY <1>9, <2>1
    <2>3. DOMAIN answers' = DOMAIN answers /\ answers' \in Lists
      <3>1. answers \in [DOMAIN answers -> Entry] /\ DOMAIN answers \in SUBSET Ids
        BY <2>1, ListShape
      <3>2. DOMAIN answers' = DOMAIN answers /\ answers' \in [DOMAIN answers -> Entry]
        BY <1>9, <2>1, <3>1 DEF Entry
      <3> QED BY <3>1, <3>2, ListShape
    <2>4. FieldOK'
      BY <1>5, <2>1, <2>2 DEF FieldOK
    <2>5. PageTypeOK' /\ ListOK'
      BY <1>5, <1>6, <2>2, <2>3 DEF IInv, PageTypeOK, ListOK, Grows
    <2> QED BY <1>6, <2>4, <2>5 DEF IInv
  <1> QED BY <1>7, <1>8, <1>9

LEMMA AnswerDeletedOK ==
    ASSUME IInv, NEW n \in Slots, AnswerDeleted(n)
    PROVE  IInv'
  <1> DEFINE r == net[n]
             data == Restrict(answers, DOMAIN answers \ {r.answer})
             shown == Filter(data, onlyValid)
             index == Cardinality({a \in DOMAIN answers : a > r.answer})
             at == {a \in shown : Cardinality({b \in shown : b > a}) = index}
             next == IF at = {} THEN Newest(shown) ELSE Max(at)
  <1>1. /\ net' = [net EXCEPT ![n] = Free]
        /\ UNCHANGED <<server, left, user, fetched, onlyValid, typed>>
        /\ \/ UNCHANGED <<answers, filtered, selected, points>>
           \/ answers' = data /\ filtered' = shown /\ Select(Object(data, next))
    BY DEF AnswerDeleted
  <1>2. ServerOK' /\ NetOK' /\ Given' = Given /\ visible' = visible
    BY <1>1, ReplyHandled
  <1>3. CASE UNCHANGED <<answers, filtered, selected, points>>
    BY <1>1, <1>2, <1>3 DEF IInv, PageTypeOK, ListOK, FieldOK
  <1>4. CASE answers' = data /\ filtered' = shown /\ Select(Object(data, next))
    <2>1. DOMAIN data \subseteq DOMAIN answers /\ data \in Lists
      <3>1. DOMAIN answers \in SUBSET Ids /\ answers \in [DOMAIN answers -> Entry]
        BY ListShape DEF IInv, PageTypeOK
      <3>2. DOMAIN data \subseteq DOMAIN answers /\ data \in [DOMAIN data -> Entry]
        BY <3>1 DEF Restrict
      <3> HIDE DEF data
      <3> QED BY <3>1, <3>2, ListShape
    <2> HIDE DEF data
    <2>2. shown \subseteq DOMAIN data /\ Newest(shown) \in shown \cup {None} /\ shown \in SUBSET Ids
      BY <2>1, FilterSelects, ListShape
    <2>3. next \in shown \cup {None}
      <3>1. at \in SUBSET Ids /\ at \subseteq shown
        BY <2>2
      <3> HIDE DEF at, shown
      <3> QED BY <2>2, <3>1, MaxOfIds
    <2> HIDE DEF shown, next
    <2>4. /\ FieldOK' /\ points' \in MaybePoints
          /\ selected' \in [id: Ids, points: MaybePoints, listed: BOOLEAN] \cup {None}
      BY <1>4, <2>1, <2>2, <2>3, SelectOK
    <2>5. PageTypeOK' /\ ListOK'
      BY <1>1, <1>2, <1>4, <2>1, <2>2, <2>4 DEF IInv, PageTypeOK, ListOK
    <2> QED BY <1>2, <2>4, <2>5 DEF IInv
  <1> QED BY <1>1, <1>3, <1>4

-----------------------------------------------------------------------------
(* The invariant                                                            *)

LEMMA InitOK ==
    ASSUME Init
    PROVE  IInv
  <1>1. ServerOK
    <2>1. rows = << >> /\ began = << >> /\ looked = << >> /\ visible = {} /\ touched = {}
          /\ posts = [t \in Tabs |-> NoPost]
      BY DEF Init, AnswersInit
    <2>2. rows \in Seq(Row) /\ Len(rows) = 0 /\ 0 <= MaxAnswers
      BY <2>1, EmptySeq, AnswersAssumption
    <2>3. began \in Seq(SUBSET Ids) /\ looked \in Seq(SUBSET Ids)
      BY <2>1, EmptySeq
    <2>4. PostsOK
      BY <2>1 DEF PostsOK, NoPost
    <2>5. AnswersTypeOK
      BY <2>1, <2>2 DEF AnswersTypeOK, NoPost
    <2> QED BY <2>3, <2>4, <2>5 DEF ServerOK
  <1>2. answers \in Lists /\ DOMAIN answers = {}
    <2>1. << >> \in [1..0 -> Entry] /\ 1..0 = {} /\ DOMAIN << >> = 1..0
      <3>1. << >> \in Seq(Entry) /\ Len(<< >>) = 0
        BY EmptySeq
      <3> QED BY <3>1
    <2>2. << >> \in [DOMAIN << >> -> Entry] /\ DOMAIN << >> \in SUBSET Ids
      BY <2>1
    <2> QED BY <2>1, <2>2, ListShape DEF Init
  <1>3. PageTypeOK
    BY <1>2 DEF Init, PageTypeOK, MaybePoints
  <1>4. NetOK
    <2>1. Free \in NetRequests /\ Fits(Free, Given, visible, typed)
      BY DEF NetRequests, Free, Fits
    <2>2. /\ Get(user, FALSE) \in NetRequests
          /\ Fits(Get(user, FALSE), Given, visible, typed)
      BY GetFits DEF Init
    <2>3. net = [n \in Slots |-> IF n = 1 THEN Get(user, FALSE) ELSE Free]
      BY DEF Init
    <2> QED BY <2>1, <2>2, <2>3 DEF NetOK
  <1>5. ListOK /\ FieldOK
    BY <1>2 DEF ListOK, FieldOK, Init
  <1> QED BY <1>1, <1>3, <1>4, <1>5 DEF IInv

LEMMA NextOK ==
    ASSUME IInv, Next
    PROVE  IInv'
  <1>1. CASE /\ AnswersNext \/ \E a \in visible : SaveValidity(a)
             /\ UNCHANGED <<page, net, typed>>
    BY <1>1, ServerStepOK
  <1>2. CASE Teacher
    BY <1>2, TypePointsOK, ChangeStudentOK, GetSendersOK, ChangeUserOK, ChangeAnswerToOK,
       SelectAnswerOK, BlurPointsOK, ToggleOnlyValidOK, AskDeleteOK DEF Teacher
  <1>3. ASSUME NEW n \in Slots,
               \/ Serve(n) \/ AnswersFetched(n) \/ PointsSaved(n) \/ AnswerDeleted(n)
               \/ RequestFails(n)
        PROVE  IInv'
    BY <1>3, ServeOK, AnswersFetchedOK, PointsSavedOK, AnswerDeletedOK, RequestFailsOK
  <1> QED BY <1>1, <1>2, <1>3 DEF Next

\* Every step of the page, of the students and of the server keeps the
\* inductive invariant.
THEOREM Invariance == Spec => []IInv
  <1>1. Init => IInv
    BY InitOK
  <1>2. IInv /\ [Next]_vars => IInv'
    <2>1. ASSUME IInv, UNCHANGED vars
          PROVE  IInv'
      <3>1. UNCHANGED <<rows, visible, posts, began, looked, touched, page, net, typed>>
        BY <2>1 DEF vars
      <3>2. ServerOK' /\ NetOK' /\ Grows
        BY <2>1, <3>1, NothingSent DEF server
      <3>3. PageTypeOK' /\ ListOK' /\ FieldOK'
        BY <2>1, <3>1, <3>2, PageStays
      <3> QED BY <3>2, <3>3 DEF IInv
    <2> QED BY <2>1, NextOK
  <1> QED BY <1>1, <1>2, PTL DEF Spec

\* The tables and the page keep their types.
THEOREM TypeCorrect == Spec => []TypeOK
  <1>1. IInv => TypeOK
    BY DEF IInv, ServerOK, PageTypeOK, NetOK, TypeOK
  <1> QED BY <1>1, Invariance, PTL

\* The answer that the points field is about is one that the page lists and an
\* answer of the user whose answers were fetched last, in whichever order any
\* number of replies come.
THEOREM OwnAnswer == Spec => []OwnAnswerSelected
  <1>1. IInv => OwnAnswerSelected
    <2> SUFFICES ASSUME IInv, selected # None
                 PROVE  selected.id \in filtered /\ Gave(fetched, selected.id)
      BY DEF OwnAnswerSelected
    <2>1. selected.id \in filtered /\ selected.id \in DOMAIN answers
      BY DEF IInv, FieldOK, PageTypeOK
    <2>2. <<fetched, selected.id>> \in Given
      BY <2>1 DEF IInv, ListOK
    <2> QED BY <2>1, <2>2 DEF Given, Gave
  <1> QED BY <1>1, Invariance, PTL

\* trySavePoints: no request saves points for an answer that were not typed
\* while that answer was selected.
THEOREM SavedAsTyped == Spec => []PointsSavedAsTyped
  <1>1. IInv => PointsSavedAsTyped
    BY DEF IInv, NetOK, Fits, PointsSavedAsTyped, Gets
  <1> QED BY <1>1, Invariance, PTL
=============================================================================
