--------------------------- MODULE AnswersProofs ---------------------------
(***************************************************************************)
(* What overlapping requests can do to the answers of a task, whatever the *)
(* teacher's page and other teachers do meanwhile: proofs for any students,*)
(* tabs, answer limit and failures.                                        *)
(***************************************************************************)
EXTENDS AnswerBrowserProofs, FiniteSetTheorems

\* The operators take the rows R, the visible ones V and the touched ones T, so
\* that a step compares them before and after it.

\* Answers seen by a request of g that no teacher has touched.
Older(seen, g, T, R) == {a \in seen \ T : g \subseteq R[a].users}
Below(seen, g, T, R) == AnswerLimit # None => AnswerLimit > Cardinality(Older(seen, g, T, R))

\* What a request has seen and counted: it makes an answer valid if it has counted
\* fewer than the limit.
Counted(p, V, T, R) ==
    /\ p.pc \in {"called", "saving"} => p.began \subseteq V
    /\ p.pc = "called" =>
        p.count \in Nat /\ Cardinality(Older(p.began, p.g, T, R)) =< p.count
    /\ p.pc = "saving" /\ p.new.valid /\ "valid" \in p.sets =>
        p.id \in T \/ Below(p.began, R[p.id].users, T, R)

\* In a task that keeps several answers, what makes an answer redundant does not
\* change unless a teacher touches it: the row that a session has loaded is right
\* about it.
Known(p, V, T, R) ==
    /\ p.pc = "called" /\ p.id # None =>
        /\ p.id \in V
        /\ p.id \in T \/ (p.row.content = R[p.id].content /\ p.row.valid = R[p.id].valid)
    /\ p.pc = "saving" => {"content", "valid"} \cap p.sets = {}

RequestsOK == \A t \in Tabs : /\ Counted(posts[t], visible, touched, rows)
                              /\ left.single \/ Known(posts[t], visible, touched, rows)

SeenVisible == \A a \in DOMAIN rows : began[a] \subseteq visible /\ looked[a] \subseteq visible

LimitOK == \A a \in DOMAIN rows \ touched :
    rows[a].valid => Below(began[a], rows[a].users, touched, rows)

Between(i, j, V, T, R) == \E k \in V : /\ i < k /\ k < j
                                       /\ k \in T \/ R[j].users \subseteq R[k].users
Differ(i, j, R) == R[i].content # R[j].content \/ R[i].valid # R[j].valid

RepeatOK == \A i, j \in DOMAIN rows :
    /\ i < j /\ i \notin touched /\ j \notin touched
    /\ i \in looked[j] /\ rows[j].users \subseteq rows[i].users
    => Between(i, j, visible, touched, rows) \/ (~left.single /\ Differ(i, j, rows))

OverlapInv == SeenVisible /\ RequestsOK /\ LimitOK /\ RepeatOK

-----------------------------------------------------------------------------
LEMMA Smaller ==
    ASSUME NEW S \in SUBSET Ids, NEW T \in SUBSET S
    PROVE  Cardinality(T) \in Nat /\ Cardinality(S) \in Nat /\ Cardinality(T) =< Cardinality(S)
  <1>1. IsFiniteSet(Ids)
    BY AnswersAssumption, FS_Interval DEF Ids
  <1>2. IsFiniteSet(S)
    BY <1>1, FS_Subset
  <1> QED BY <1>2, FS_Subset, FS_CardinalityType

\* Rows have the users they had or are touched.
Keeps == /\ touched \subseteq touched' /\ visible \subseteq visible'
         /\ DOMAIN rows \subseteq DOMAIN rows'
         /\ \A a \in DOMAIN rows : a \in touched' \/ rows'[a].users = rows[a].users

LEMMA BelowKept ==
    ASSUME ServerOK, Keeps, NEW seen \in SUBSET visible, NEW g, NEW h, g \subseteq h
    PROVE  /\ Below(seen, g, touched, rows) => Below(seen, h, touched', rows')
           /\ \A n \in Nat : Cardinality(Older(seen, g, touched, rows)) =< n
                             => Cardinality(Older(seen, h, touched', rows')) =< n
  <1> DEFINE S == Older(seen, g, touched, rows)
             T == Older(seen, h, touched', rows')
  <1>1. S \in SUBSET Ids /\ seen \subseteq DOMAIN rows
    BY RowsAreIds DEF Older, ServerOK, AnswersTypeOK
  <1>2. T \subseteq S
    BY <1>1 DEF Older, Keeps
  <1>3. Cardinality(T) \in Nat /\ Cardinality(S) \in Nat /\ Cardinality(T) =< Cardinality(S)
    <2> HIDE DEF S, T
    <2> QED BY <1>1, <1>2, Smaller
  <1>4. AnswerLimit # None => AnswerLimit \in Nat
    BY AnswersAssumption
  <1> HIDE DEF S, T
  <1>5. (AnswerLimit # None => AnswerLimit > Cardinality(S))
        => (AnswerLimit # None => AnswerLimit > Cardinality(T))
    BY <1>3, <1>4
  <1>6. \A n \in Nat : Cardinality(S) =< n => Cardinality(T) =< n
    BY <1>3
  <1> QED BY <1>5, <1>6 DEF S, T, Below

\* What is known of a request stays true while others work.
LEMMA CountedKept ==
    ASSUME ServerOK, Keeps, NEW t \in Tabs, Counted(posts[t], visible, touched, rows)
    PROVE  Counted(posts[t], visible', touched', rows')
  <1> DEFINE p == posts[t]
  <1>1. p.pc \in {"called", "saving"} => p.began \subseteq visible'
    BY DEF Counted, Keeps
  <1>2. CASE p.pc = "called"
    <2>1. Cardinality(Older(p.began, p.g, touched', rows')) =< p.count
      BY <1>2, BelowKept DEF Counted
    <2> QED BY <1>1, <1>2, <2>1 DEF Counted
  <1>3. CASE p.pc = "saving" /\ p.new.valid /\ "valid" \in p.sets
    <2>1. CASE p.id \in touched'
      BY <1>1, <1>3, <2>1 DEF Counted
    <2>2. CASE p.id \notin touched'
      <3>1. p.id \in DOMAIN rows
        BY <1>3 DEF ServerOK, PostsOK
      <3>2. /\ Below(p.began, rows[p.id].users, touched, rows) /\ p.began \subseteq visible
            /\ rows'[p.id].users = rows[p.id].users
        BY <1>3, <2>2, <3>1 DEF Counted, Keeps
      <3>3. Below(p.began, rows'[p.id].users, touched', rows')
        BY <3>2, BelowKept
      <3> QED BY <1>1, <1>3, <3>3 DEF Counted
    <2> QED BY <2>1, <2>2
  <1> QED BY <1>1, <1>2, <1>3 DEF Counted

\* Rows that are not touched keep what makes them redundant.
SameAnswers == \A a \in DOMAIN rows :
    a \in touched' \/ (rows'[a].content = rows[a].content /\ rows'[a].valid = rows[a].valid)

LEMMA KnownKept ==
    ASSUME ServerOK, Keeps, SameAnswers, NEW t \in Tabs, Known(posts[t], visible, touched, rows)
    PROVE  Known(posts[t], visible', touched', rows')
  BY DEF Known, Keeps, SameAnswers, ServerOK, AnswersTypeOK

\* Rows that are there already are repeated or not as before.
LEMMA RepeatKept ==
    ASSUME ServerOK, Keeps, RepeatOK, left.single \/ SameAnswers, left'.single = left.single,
           NEW i \in DOMAIN rows, NEW j \in DOMAIN rows,
           looked'[j] = looked[j],
           i < j, i \notin touched', j \notin touched',
           i \in looked'[j], rows'[j].users \subseteq rows'[i].users
    PROVE  \/ Between(i, j, visible', touched', rows')
           \/ ~left'.single /\ Differ(i, j, rows')
  <1>1. /\ i \notin touched /\ j \notin touched /\ i \in looked[j]
        /\ rows'[j].users = rows[j].users /\ rows'[i].users = rows[i].users
    BY DEF Keeps
  <1>2. Between(i, j, visible, touched, rows) \/ (~left.single /\ Differ(i, j, rows))
    BY <1>1 DEF RepeatOK
  <1>3. CASE Between(i, j, visible, touched, rows)
    <2>1. PICK k \in visible : /\ i < k /\ k < j
                               /\ k \in touched \/ rows[j].users \subseteq rows[k].users
      BY <1>3 DEF Between
    <2>2. k \in visible' /\ (k \in touched' \/ rows'[j].users \subseteq rows'[k].users)
      BY <1>1, <2>1 DEF Keeps, ServerOK, AnswersTypeOK
    <2> QED BY <2>1, <2>2 DEF Between
  <1>4. CASE ~left.single /\ Differ(i, j, rows)
    BY <1>4 DEF Differ, SameAnswers
  <1> QED BY <1>2, <1>3, <1>4
LEMMA LimitKept ==
    ASSUME ServerOK, Keeps, SeenVisible, LimitOK, NEW a \in DOMAIN rows \ touched',
           began'[a] = began[a], rows'[a].valid => rows[a].valid, rows'[a].valid
    PROVE  Below(began'[a], rows'[a].users, touched', rows')
  <1>1. rows'[a].users = rows[a].users /\ a \in DOMAIN rows \ touched
    BY DEF Keeps
  <1>2. Below(began[a], rows[a].users, touched, rows) /\ began[a] \subseteq visible
    BY <1>1 DEF LimitOK, SeenVisible
  <1> QED BY <1>1, <1>2, BelowKept

\* The posts that stay or end.
LEMMA RequestsKept ==
    ASSUME ServerOK, Keeps, left.single \/ SameAnswers, left'.single = left.single, RequestsOK,
           NEW t \in Tabs, posts'[t] = posts[t] \/ posts'[t] = NoPost
    PROVE  /\ Counted(posts'[t], visible', touched', rows')
           /\ left'.single \/ Known(posts'[t], visible', touched', rows')
  <1>1. CASE posts'[t] = posts[t]
    BY <1>1, CountedKept, KnownKept DEF RequestsOK
  <1>2. CASE posts'[t] = NoPost
    BY <1>2 DEF NoPost, Counted, Known
  <1> QED BY <1>1, <1>2

\* Steps that save nothing.
LEMMA QuietOK ==
    ASSUME ServerOK, OverlapInv, Keeps, SameAnswers, DOMAIN rows' = DOMAIN rows,
           UNCHANGED <<began, looked>>, left'.single = left.single,
           \A t \in Tabs : posts'[t] = posts[t] \/ posts'[t] = NoPost
    PROVE  OverlapInv'
  <1>1. SeenVisible'
    BY DEF OverlapInv, SeenVisible, Keeps
  <1>2. RequestsOK'
    BY RequestsKept DEF OverlapInv, RequestsOK
  <1>3. LimitOK'
    <2> SUFFICES ASSUME NEW a \in DOMAIN rows \ touched', rows'[a].valid
                 PROVE  Below(began'[a], rows'[a].users, touched', rows')
      BY DEF LimitOK
    <2> QED BY LimitKept DEF OverlapInv, SameAnswers
  <1>4. RepeatOK'
    BY RepeatKept DEF OverlapInv, RepeatOK
  <1> QED BY <1>1, <1>2, <1>3, <1>4 DEF OverlapInv

\* Steps of the server that change no row's users keep them.
LEMMA RowsStay ==
    ASSUME ServerOK, UNCHANGED <<rows, touched>>, visible \subseteq visible'
    PROVE  Keeps /\ SameAnswers
  BY DEF Keeps, SameAnswers

LEMMA PostAnswerSees ==
    ASSUME ServerOK, OverlapInv, NEW t \in Tabs, PostAnswer(t), left'.single = left.single
    PROVE  OverlapInv'
  <1>1. PICK g \in Groups, c \in Contents, ok \in BOOLEAN :
            posts' = [posts EXCEPT ![t] =
                 [pc |-> "called", g |-> g, content |-> c, ok |-> ok,
                  began |-> {a \in visible : rows[a].valid},
                  count |-> Cardinality(ValidOf(g)), id |-> Newest(ValidOf(g)),
                  row |-> IF Newest(ValidOf(g)) = None THEN None ELSE rows[Newest(ValidOf(g))]]]
    BY DEF PostAnswer
  <1>2. UNCHANGED <<rows, visible, began, looked, touched>>
    BY DEF PostAnswer, tables, history
  <1>3. Keeps /\ SameAnswers
    BY <1>2, RowsStay
  <1> DEFINE p == posts'[t]
  <1>4. /\ p.pc = "called" /\ p.g = g /\ p.began = {a \in visible : rows[a].valid}
        /\ p.count = Cardinality(ValidOf(g)) /\ p.id = Newest(ValidOf(g))
        /\ p.id # None => p.row = rows[p.id]
    BY <1>1 DEF ServerOK, PostsOK
  <1> HIDE DEF p
  <1>5. Counted(p, visible', touched', rows')
    <2>1. ValidOf(g) \in SUBSET Ids
      BY RowsAreIds DEF ValidOf, AnswersOf
    <2>2. Older(p.began, g, touched, rows) \subseteq ValidOf(g)
      BY <1>4 DEF Older, ValidOf, AnswersOf
    <2>3. /\ p.count \in Nat
          /\ Cardinality(Older(p.began, g, touched, rows)) =< p.count
      BY <1>4, <2>1, <2>2, Smaller
    <2>4. p.began \subseteq visible
      BY <1>4
    <2> QED BY <1>2, <1>4, <2>3, <2>4 DEF Counted
  <1>6. Known(p, visible', touched', rows')
    <2>1. p.id # None => p.id \in visible
      BY <1>4, AnswersOfAreVisible
    <2> QED BY <1>2, <1>4, <2>1 DEF Known
  <1>7. \A x \in Tabs \ {t} : posts'[x] = posts[x]
    BY <1>1 DEF ServerOK, PostsOK
  <1>8. RequestsOK'
    BY <1>3, <1>5, <1>6, <1>7, RequestsKept DEF OverlapInv, RequestsOK, p
  <1>9. SeenVisible' /\ LimitOK' /\ RepeatOK'
    BY <1>2 DEF OverlapInv, SeenVisible, LimitOK, RepeatOK
  <1> QED BY <1>8, <1>9 DEF OverlapInv
\* An answer that is valid has been counted.
LEMMA ValidIsBelow ==
    ASSUME ServerOK, NEW t \in Tabs, posts[t].pc = "called",
           Counted(posts[t], visible, touched, rows), WithinLimit(posts[t].count)
    PROVE  Below(posts[t].began, posts[t].g, touched, rows)
  <1> DEFINE n == Cardinality(Older(posts[t].began, posts[t].g, touched, rows))
  <1>1. posts[t].count \in Nat /\ n =< posts[t].count /\ posts[t].began \in SUBSET Ids
    BY DEF Counted, ServerOK, PostsOK
  <1>2. n \in Nat
    BY <1>1, Smaller DEF Older
  <1>3. AnswerLimit # None => AnswerLimit \in Nat /\ posts[t].count < AnswerLimit
    BY AnswersAssumption DEF WithinLimit
  <1> HIDE DEF n
  <1>4. AnswerLimit # None => AnswerLimit > n
    BY <1>1, <1>2, <1>3
  <1> QED BY <1>4 DEF Below, n

\* The newest answer of a group is there and newer than its others.
LEMMA LookedAtIsNewest ==
    ASSUME ServerOK, NEW g
    PROVE  /\ LookedAt(g) # None => LookedAt(g) \in AnswersOf(g)
           /\ \A i \in AnswersOf(g) : LookedAt(g) # None /\ LookedAt(g) >= i
  <1>1. AnswersOf(g) \in SUBSET Ids
    BY RowsAreIds DEF AnswersOf
  <1>2. CASE AnswersOf(g) = {}
    BY <1>2 DEF LookedAt, Newest
  <1>3. CASE AnswersOf(g) # {}
    <2>1. LookedAt(g) = Max(AnswersOf(g))
      BY <1>3 DEF LookedAt, Newest
    <2>2. LookedAt(g) \in AnswersOf(g) /\ \A i \in AnswersOf(g) : LookedAt(g) >= i
      BY <1>1, <1>3, <2>1, MaxOfIds
    <2>3. None \notin Ids
      BY AnswersAssumption DEF Ids
    <2> QED BY <1>1, <2>2, <2>3
  <1> QED BY <1>2, <1>3

LEMMA SaveAnswerSees ==
    ASSUME ServerOK, OverlapInv, NEW t \in Tabs, SaveAnswer(t)
    PROVE  OverlapInv'
  <1> DEFINE p == posts[t]
             new == [users |-> p.g, content |-> p.content, points |-> AutoPoints[p.content],
                     valid |-> p.ok /\ WithinLimit(p.count), modifier |-> "plugin"]
             last == LookedAt(p.g)
             old == Loaded(p, last)
             redundant == old.content = new.content /\ old.valid = new.valid
             saving(id, sets) == [pc |-> "saving", id |-> id, new |-> new, sets |-> sets,
                                  began |-> p.began, looked |-> visible]
  <1>1. /\ p.pc = "called" /\ Counted(p, visible, touched, rows) /\ p.began \subseteq visible
        /\ left.single \/ Known(p, visible, touched, rows)
    BY DEF SaveAnswer, OverlapInv, RequestsOK, Counted
  <1>2. /\ new.users = p.g /\ new.content = p.content
        /\ new.valid => Below(p.began, p.g, touched, rows)
    BY <1>1, ValidIsBelow
  <1>3. \/ /\ last # None /\ (redundant \/ left.single)
           /\ posts' = [posts EXCEPT ![t] =
                saving(last, {f \in Columns : old[f] # new[f]})]
           /\ UNCHANGED <<rows, began, looked>>
        \/ /\ ~(last # None /\ (redundant \/ left.single))
           /\ rows' = Append(rows, new)
           /\ began' = Append(began, p.began)
           /\ looked' = Append(looked, visible)
           /\ posts' = [posts EXCEPT ![t] = saving(Len(rows) + 1, {})]
    BY DEF SaveAnswer
  <1>4. UNCHANGED <<visible, touched, left>>
    BY DEF SaveAnswer
  <1> HIDE DEF new
  <1>5. \A x \in Tabs \ {t} : posts'[x] = posts[x]
    BY <1>3 DEF ServerOK, PostsOK
  <1>6. CASE /\ last # None /\ (redundant \/ left.single)
             /\ posts' = [posts EXCEPT ![t] =
                  saving(last, {f \in Columns : old[f] # new[f]})]
             /\ UNCHANGED <<rows, began, looked>>
    <2> DEFINE q == saving(last, {f \in Columns : old[f] # new[f]})
    <2>1. posts'[t] = q
      BY <1>6 DEF ServerOK, PostsOK
    <2>2. Keeps /\ SameAnswers
      BY <1>4, <1>6, RowsStay
    <2>3. p.g \subseteq rows[last].users
      BY <1>6, LookedAtIsNewest DEF AnswersOf
    <2>4. new.valid => Below(p.began, rows[last].users, touched, rows)
      BY <1>1, <1>2, <1>4, <1>6, <2>2, <2>3, BelowKept
    <2>5. Counted(q, visible, touched, rows)
      BY <1>1, <2>4 DEF Counted
    <2>6. left.single \/ Known(q, visible, touched, rows)
      BY <1>6 DEF Known
    <2> HIDE DEF q
    <2>7. RequestsOK'
      BY <1>4, <1>5, <1>6, <2>1, <2>2, <2>5, <2>6, RequestsKept DEF OverlapInv, RequestsOK
    <2>8. SeenVisible' /\ LimitOK' /\ RepeatOK'
      BY <1>4, <1>6 DEF OverlapInv, SeenVisible, LimitOK, RepeatOK
    <2> QED BY <2>7, <2>8 DEF OverlapInv
  <1>7. CASE /\ ~(last # None /\ (redundant \/ left.single))
             /\ rows' = Append(rows, new)
             /\ began' = Append(began, p.began)
             /\ looked' = Append(looked, visible)
             /\ posts' = [posts EXCEPT ![t] = saving(Len(rows) + 1, {})]
    <2> DEFINE j == Len(rows) + 1
               q == saving(j, {})
    <2>1. /\ Len(rows) \in Nat /\ DOMAIN rows = 1..Len(rows) /\ rows \in Seq(Row)
          /\ began \in Seq(SUBSET Ids) /\ Len(began) = Len(rows)
          /\ looked \in Seq(SUBSET Ids) /\ Len(looked) = Len(rows)
      BY RowsAreIds DEF ServerOK, AnswersTypeOK
    <2>2. /\ DOMAIN rows' = DOMAIN rows \cup {j} /\ rows'[j] = new
          /\ began'[j] = p.began /\ looked'[j] = visible
          /\ \A a \in DOMAIN rows : /\ rows'[a] = rows[a] /\ a < j
                                    /\ began'[a] = began[a] /\ looked'[a] = looked[a]
      BY <1>7, <2>1
    <2>3. Keeps /\ SameAnswers
      BY <1>4, <2>2 DEF Keeps, SameAnswers
    <2>4. posts'[t] = q
      BY <1>7 DEF ServerOK, PostsOK
    <2>5. Counted(q, visible', touched', rows') /\ Known(q, visible', touched', rows')
      BY <1>1, <1>4 DEF Counted, Known
    <2> HIDE DEF q, j
    <2>6. RequestsOK'
      BY <1>4, <1>5, <2>3, <2>4, <2>5, RequestsKept DEF OverlapInv, RequestsOK
    <2>7. SeenVisible'
      BY <1>1, <1>4, <2>2 DEF OverlapInv, SeenVisible
    <2>8. LimitOK'
      <3> SUFFICES ASSUME NEW a \in DOMAIN rows' \ touched', rows'[a].valid
                   PROVE  Below(began'[a], rows'[a].users, touched', rows')
        BY DEF LimitOK
      <3>1. CASE a = j
        BY <1>1, <1>2, <2>2, <2>3, <3>1, BelowKept
      <3>2. CASE a # j
        BY <2>2, <2>3, <3>2, LimitKept DEF OverlapInv
      <3> QED BY <3>1, <3>2
    <2>9. RepeatOK'
      <3> SUFFICES ASSUME NEW i \in DOMAIN rows', NEW k \in DOMAIN rows',
                          i < k, i \notin touched', k \notin touched',
                          i \in looked'[k], rows'[k].users \subseteq rows'[i].users
                   PROVE  \/ Between(i, k, visible', touched', rows')
                          \/ ~left'.single /\ Differ(i, k, rows')
        BY DEF RepeatOK
      <3>1. CASE k # j
        <4>1. i \in DOMAIN rows /\ k \in DOMAIN rows
          BY <2>1, <2>2, <3>1 DEF j
        <4> QED BY <1>4, <2>2, <2>3, <4>1, RepeatKept DEF OverlapInv
      <3>2. CASE k = j
        <4>1. /\ i \in visible /\ i \in DOMAIN rows /\ i # j
              /\ p.g \subseteq rows[i].users /\ i \in AnswersOf(p.g)
          BY <1>2, <2>1, <2>2, <3>2 DEF AnswersOf, ServerOK, AnswersTypeOK, j
        <4>2. last # None /\ last >= i /\ last \in AnswersOf(p.g)
          BY <4>1, LookedAtIsNewest
        <4>3. last \in visible /\ last \in DOMAIN rows /\ p.g \subseteq rows[last].users
          BY <4>2 DEF AnswersOf, ServerOK, AnswersTypeOK
        <4>4. ~redundant /\ ~left.single
          BY <1>7, <4>2
        <4>5. CASE last = i
          <5>1. old.content = rows[i].content /\ old.valid = rows[i].valid
            <6>1. CASE i = p.id
              BY <1>1, <1>4, <4>2, <4>4, <4>5, <6>1 DEF Known, Loaded
            <6>2. CASE i # p.id
              BY <4>5, <6>2 DEF Loaded
            <6> QED BY <6>1, <6>2
          <5>2. Differ(i, j, rows')
            BY <2>2, <4>1, <4>4, <5>1 DEF Differ
          <5> QED BY <1>4, <3>2, <4>4, <5>2
        <4>6. CASE last # i
          <5>1. last > i /\ last < j
            BY <2>1, <2>2, <4>1, <4>2, <4>3, <4>6
          <5>2. rows'[j].users \subseteq rows'[last].users
            BY <1>2, <2>2, <4>3
          <5> QED BY <1>4, <3>2, <4>3, <5>1, <5>2 DEF Between
        <4> QED BY <4>5, <4>6
      <3> QED BY <3>1, <3>2
    <2> QED BY <2>6, <2>7, <2>8, <2>9 DEF OverlapInv
  <1> QED BY <1>3, <1>6, <1>7
LEMMA CommitAnswerSees ==
    ASSUME ServerOK, OverlapInv, NEW t \in Tabs, CommitAnswer(t)
    PROVE  OverlapInv'
  <1> DEFINE p == posts[t]
             row == Merged(rows[p.id], p.new, p.sets)
  <1>1. /\ p.pc = "saving" /\ p.id \in DOMAIN rows /\ p.new \in Row /\ p.sets \in SUBSET Columns
        /\ p.began \subseteq visible /\ Counted(p, visible, touched, rows)
        /\ left.single \/ Known(p, visible, touched, rows)
    BY DEF CommitAnswer, ServerOK, PostsOK, OverlapInv, RequestsOK, Counted
  <1>2. rows' = [rows EXCEPT ![p.id] = row]
    BY DEF CommitAnswer, Merged
  <1>3. /\ visible' = visible \cup {p.id} /\ posts' = [posts EXCEPT ![t] = NoPost]
        /\ began' = IF "valid" \in p.sets THEN [began EXCEPT ![p.id] = p.began] ELSE began
        /\ UNCHANGED <<left, looked, touched>>
    BY DEF CommitAnswer
  <1>4. /\ row.users = rows[p.id].users
        /\ "valid" \notin p.sets => row.valid = rows[p.id].valid
        /\ "valid" \in p.sets => row.valid = p.new.valid
        /\ "content" \notin p.sets => row.content = rows[p.id].content
    <2>1. rows[p.id] \in Row
      BY <1>1, RowsAreIds
    <2> QED BY <1>1, <2>1 DEF Merged, Row, Columns
  <1> HIDE DEF row
  <1>5. /\ DOMAIN rows' = DOMAIN rows /\ rows'[p.id] = row
        /\ \A a \in DOMAIN rows \ {p.id} : rows'[a] = rows[a]
    BY <1>1, <1>2
  <1>6. Keeps
    BY <1>3, <1>4, <1>5 DEF Keeps
  <1>7. left.single \/ SameAnswers
    BY <1>1, <1>4, <1>5 DEF SameAnswers, Known
  <1>8. RequestsOK'
    <2>1. \A x \in Tabs : posts'[x] = posts[x] \/ posts'[x] = NoPost
      BY <1>3 DEF ServerOK, PostsOK
    <2> QED BY <1>3, <1>6, <1>7, <2>1, RequestsKept DEF OverlapInv, RequestsOK
  <1>9. /\ "valid" \in p.sets => began'[p.id] = p.began
        /\ \A a \in DOMAIN rows : a # p.id \/ "valid" \notin p.sets => began'[a] = began[a]
    BY <1>1, <1>3 DEF ServerOK, AnswersTypeOK
  <1>10. SeenVisible'
    BY <1>1, <1>3, <1>5, <1>9 DEF OverlapInv, SeenVisible
  <1>11. LimitOK'
    <2> SUFFICES ASSUME NEW a \in DOMAIN rows' \ touched', rows'[a].valid
                 PROVE  Below(began'[a], rows'[a].users, touched', rows')
      BY DEF LimitOK
    <2>1. CASE a = p.id /\ "valid" \in p.sets
      <3>1. Below(p.began, rows[p.id].users, touched, rows)
        BY <1>1, <1>3, <1>4, <1>5, <2>1 DEF Counted
      <3> QED BY <1>1, <1>4, <1>5, <1>6, <1>9, <2>1, <3>1, BelowKept
    <2>2. CASE ~(a = p.id /\ "valid" \in p.sets)
      <3>1. began'[a] = began[a] /\ rows'[a].valid = rows[a].valid
        BY <1>4, <1>5, <1>9, <2>2
      <3> QED BY <1>5, <1>6, <3>1, LimitKept DEF OverlapInv
    <2> QED BY <2>1, <2>2
  <1>12. RepeatOK'
    BY <1>3, <1>5, <1>6, <1>7, RepeatKept DEF OverlapInv, RepeatOK
  <1> QED BY <1>8, <1>10, <1>11, <1>12 DEF OverlapInv

\* A teacher changes points, or the row is touched.
LEMMA TeacherSees ==
    ASSUME ServerOK, OverlapInv, NEW a \in visible, left'.single = left.single, UNCHANGED posts,
           SaveValidity(a) \/ DeleteAnswer(a) \/ \E v : SavePoints(a, v)
    PROVE  OverlapInv'
  <1>1. a \in DOMAIN rows /\ rows[a] \in Row
    BY RowsAreIds DEF ServerOK, AnswersTypeOK
  <1>2. /\ DOMAIN rows' = DOMAIN rows /\ \A b \in DOMAIN rows \ {a} : rows'[b] = rows[b]
        /\ UNCHANGED <<visible, began, looked>> /\ touched \subseteq touched'
    BY DEF SaveValidity, DeleteAnswer, SavePoints, history
  <1>3. \/ a \in touched'
        \/ /\ rows'[a].users = rows[a].users /\ rows'[a].content = rows[a].content
           /\ rows'[a].valid = rows[a].valid
    <2>1. CASE SaveValidity(a) \/ DeleteAnswer(a)
      BY <2>1 DEF SaveValidity, DeleteAnswer
    <2>2. ASSUME NEW v, SavePoints(a, v)
          PROVE  rows'[a].users = rows[a].users /\ rows'[a].content = rows[a].content
                 /\ rows'[a].valid = rows[a].valid
      <3>1. rows'[a] = [rows[a] EXCEPT !.points = v, !.modifier = "teacher"]
        BY <1>1, <2>2 DEF SavePoints
      <3> QED BY <1>1, <3>1 DEF Row
    <2> QED BY <2>1, <2>2
  <1>4. Keeps /\ SameAnswers
    BY <1>2, <1>3 DEF Keeps, SameAnswers
  <1> QED BY <1>2, <1>4, QuietOK

\* Steps that leave the tables and the requests that save answers alone.
LEMMA PageSees ==
    ASSUME ServerOK, OverlapInv, UNCHANGED server, left'.single = left.single
    PROVE  OverlapInv'
  BY RowsStay, QuietOK DEF server

LEMMA FailAnswerSees ==
    ASSUME ServerOK, OverlapInv, NEW t \in Tabs, FailAnswer(t), left'.single = left.single
    PROVE  OverlapInv'
  <1>1. UNCHANGED <<rows, visible, began, looked, touched>>
        /\ \A x \in Tabs : posts'[x] = posts[x] \/ posts'[x] = NoPost
    BY DEF FailAnswer, tables, history, ServerOK, PostsOK
  <1> QED BY <1>1, RowsStay, QuietOK

\* The bounds are spent; that the task keeps a single answer is not one of them.
LEMMA SpendKeeps ==
    ASSUME "single" \in DOMAIN left,
           UNCHANGED left \/ \E what \in {"posts", "marks", "types", "acts", "faults"} : Spend(what)
    PROVE  left'.single = left.single /\ DOMAIN left' = DOMAIN left
  BY DEF Spend

LEMMA NextSpends ==
    ASSUME Next
    PROVE  UNCHANGED left \/ \E what \in {"posts", "marks", "types", "acts", "faults"} : Spend(what)
  <1>1. ASSUME NEW t \in Tabs, PostAnswer(t) \/ SaveAnswer(t) \/ CommitAnswer(t) \/ FailAnswer(t)
        PROVE  UNCHANGED left \/ Spend("posts") \/ Spend("faults")
    BY <1>1 DEF PostAnswer, SaveAnswer, CommitAnswer, FailAnswer
  <1>2. CASE Teacher
    BY <1>2 DEF Teacher, TypePoints, ChangeStudent, UserSelected, ChangeUser, ChangeAnswerTo,
       SelectAnswer, BlurPoints, ToggleOnlyValid, RefreshPlugin, AskDelete, CheckUsers
  <1>3. ASSUME NEW n \in Slots,
               \/ Serve(n) \/ AnswersFetched(n) \/ PointsSaved(n) \/ AnswerDeleted(n)
               \/ RequestFails(n)
        PROVE  UNCHANGED left \/ Spend("faults")
    BY <1>3 DEF Serve, AnswersFetched, PointsSaved, AnswerDeleted, RequestFails
  <1>4. ASSUME NEW a, SaveValidity(a)
        PROVE  Spend("marks")
    BY <1>4 DEF SaveValidity
  <1> QED BY <1>1, <1>2, <1>3, <1>4 DEF Next, AnswersNext
LEMMA ServeSees ==
    ASSUME IInv, OverlapInv, NEW n \in Slots, Serve(n), left'.single = left.single
    PROVE  OverlapInv'
  <1> DEFINE r == net[n]
  <1>1. /\ ServerOK /\ r \in NetRequests /\ Fits(r, Given, visible, typed)
        /\ UNCHANGED posts
    BY DEF IInv, NetOK, Serve
  <1>2. r.kind \in {"get", "put", "delete"}
    BY <1>1 DEF Serve, NetRequests, Free
  <1>3. CASE UNCHANGED <<tables, history>>
    BY <1>1, <1>3, PageSees DEF server, tables, history
  <1>4. CASE r.kind = "put"
    BY <1>1, <1>4, TeacherSees DEF Serve, Fits
  <1>5. CASE r.kind = "delete" /\ rows[r.answer].users # {}
    BY <1>1, <1>5, TeacherSees DEF Serve, Fits
  <1>6. UNCHANGED <<tables, history>> \/ r.kind = "put"
        \/ (r.kind = "delete" /\ rows[r.answer].users # {})
    BY <1>2 DEF Serve
  <1> QED BY <1>3, <1>4, <1>5, <1>6

-----------------------------------------------------------------------------
\* What the requests that save answers have read stays true of the rows that no
\* teacher touches.
THEOREM Overlaps == Spec => [](OverlapInv /\ "single" \in DOMAIN left)
  <1> DEFINE Inv == OverlapInv /\ "single" \in DOMAIN left
  <1>1. Init => Inv
    <2> SUFFICES ASSUME Init PROVE Inv
      OBVIOUS
    <2>1. /\ left \in Instances /\ rows = << >> /\ visible = {}
          /\ posts = [t \in Tabs |-> NoPost]
      BY DEF Init, AnswersInit
    <2>2. "single" \in DOMAIN left
      BY <2>1, AnswersAssumption
    <2>3. DOMAIN rows = {}
      BY <2>1, EmptySeq
    <2>4. RequestsOK
      BY <2>1 DEF RequestsOK, Counted, Known, NoPost
    <2> QED BY <2>2, <2>3, <2>4 DEF OverlapInv, SeenVisible, LimitOK, RepeatOK
  <1>2. Inv /\ IInv /\ [Next]_vars => Inv'
    <2> SUFFICES ASSUME Inv, IInv, [Next]_vars PROVE Inv'
      OBVIOUS
    <2>1. ServerOK
      BY DEF IInv
    <2>2. left'.single = left.single /\ DOMAIN left' = DOMAIN left
      BY NextSpends, SpendKeeps DEF vars
    <2>3. CASE UNCHANGED vars
      BY <2>1, <2>2, <2>3, PageSees DEF vars, server
    <2>4. ASSUME NEW t \in Tabs, PostAnswer(t) \/ SaveAnswer(t) \/ CommitAnswer(t) \/ FailAnswer(t)
          PROVE  Inv'
      BY <2>1, <2>2, <2>4, PostAnswerSees, SaveAnswerSees, CommitAnswerSees, FailAnswerSees
    <2>5. ASSUME NEW a \in visible, SaveValidity(a)
          PROVE  Inv'
      <3>1. UNCHANGED posts
        BY <2>5 DEF SaveValidity
      <3> QED BY <2>1, <2>2, <2>5, <3>1, TeacherSees
    <2>6. CASE Teacher
      <3>1. UNCHANGED server
        BY <2>6 DEF Teacher, TypePoints, ChangeStudent, UserSelected, ChangeUser, ChangeAnswerTo,
           SelectAnswer, BlurPoints, ToggleOnlyValid, RefreshPlugin, AskDelete, CheckUsers
      <3> QED BY <2>1, <2>2, <3>1, PageSees
    <2>7. ASSUME NEW n \in Slots, Serve(n)
          PROVE  Inv'
      BY <2>2, <2>7, ServeSees
    <2>8. ASSUME NEW n \in Slots,
                 AnswersFetched(n) \/ PointsSaved(n) \/ AnswerDeleted(n) \/ RequestFails(n)
          PROVE  Inv'
      <3>1. UNCHANGED server
        BY <2>8 DEF AnswersFetched, PointsSaved, AnswerDeleted, RequestFails
      <3> QED BY <2>1, <2>2, <3>1, PageSees
    <2> QED BY <2>3, <2>4, <2>5, <2>6, <2>7, <2>8 DEF Next, AnswersNext
  <1> QED BY <1>1, <1>2, Invariance, PTL DEF Spec

\* is_answer_valid and post_answer_impl: an answer is valid only if fewer valid
\* answers than the limit were there when its request began, so that only requests
\* that overlap exceed the limit.
THEOREM LimitExceeded == Spec => []LimitExceededByOverlapOnly
  <1>1. IInv /\ OverlapInv => LimitExceededByOverlapOnly
    <2> SUFFICES ASSUME IInv, OverlapInv, NEW j \in DOMAIN rows,
                        Untouched(j), rows[j].valid, AnswerLimit # None
                 PROVE  AnswerLimit > Cardinality({i \in began[j] :
                            Untouched(i) /\ rows[j].users \subseteq rows[i].users})
      BY DEF LimitExceededByOverlapOnly
    <2>1. /\ AnswerLimit > Cardinality(Older(began[j], rows[j].users, touched, rows))
          /\ began[j] \subseteq visible
      BY DEF OverlapInv, LimitOK, SeenVisible, Below, Untouched
    <2>2. {i \in began[j] : Untouched(i) /\ rows[j].users \subseteq rows[i].users}
          = Older(began[j], rows[j].users, touched, rows)
      BY <2>1 DEF Older, Untouched
    <2> QED BY <2>1, <2>2
  <1> QED BY <1>1, Overlaps, Invariance, PTL

\* save_answer: an answer is saved a second time, although it is redundant or the
\* task keeps a single one, only if the first was not committed when the request of
\* the second looked for it.
THEOREM Repeated == Spec => []RepeatedByOverlapOnly
  <1>1. IInv /\ OverlapInv => RepeatedByOverlapOnly
    <2> SUFFICES ASSUME IInv, OverlapInv, NEW i \in DOMAIN rows, NEW j \in DOMAIN rows,
                        i < j, Untouched(i), Untouched(j), rows[j].users \subseteq rows[i].users,
                        {k \in visible : i < k /\ k < j
                          /\ (k \in touched \/ rows[j].users \subseteq rows[k].users)} = {},
                        \/ rows[i].content = rows[j].content /\ rows[i].valid = rows[j].valid
                        \/ left.single
                 PROVE  i \notin looked[j]
      BY DEF RepeatedByOverlapOnly
    <2>1. ~Between(i, j, visible, touched, rows)
      BY DEF Between
    <2>2. ~(~left.single /\ Differ(i, j, rows))
      BY DEF Differ
    <2> QED BY <2>1, <2>2 DEF OverlapInv, RepeatOK, Untouched
  <1> QED BY <1>1, Overlaps, Invariance, PTL
=============================================================================
