------------------------------ MODULE Answers ------------------------------
(***************************************************************************)
(* The answers to one task: how they are saved                             *)
(* (src/timApp/answer/routes.py post_answer_impl, answers.py save_answer)  *)
(* and how a teacher gives them points, marks them valid or invalid and    *)
(* deletes them.                                                           *)
(*                                                                         *)
(* A request that saves an answer is one transaction at READ COMMITTED     *)
(* that lasts as long as the call to the plugin's own server: it reads the *)
(* existing answers before that call and again after it, and writes at its *)
(* commit.  A row that the session has read the first time is not read     *)
(* again, and an UPDATE sets only the columns whose value differs from the *)
(* one that was read.                                                      *)
(*                                                                         *)
(* The two statements of get_existing_answers_info, for the newest answer  *)
(* and for the number of them, are one step.  Tasks with new questions     *)
(* (newtask), postprograms, points that students give themselves and       *)
(* answers that teachers save are not part of it.                          *)
(***************************************************************************)
EXTENDS Naturals, Sequences, FiniteSets, FiniteSetsExt, Functions

CONSTANTS
    Students,
    Groups,         \* the sets of students that answer together in a session
    Tabs,           \* pages from which answers are sent
    Contents,
    AutoPoints,     \* [Contents -> points the plugin gives]
    Points,         \* the points a teacher may give
    AnswerLimit,    \* "answerLimit" of the task, or None
    None,
    MaxAnswers,     \* bound: Answer rows
    Instances       \* bounds: answers sent (posts), changes of validity and
                    \* deletions (marks), failures (faults), and whether the
                    \* task has saveSingleAnswer (single); AnswerBrowser has
                    \* more of them

ASSUME AnswersAssumption ==
    /\ Groups \subseteq SUBSET Students /\ {} \notin Groups
    /\ AutoPoints \in [Contents -> Points \cup {None}]
    /\ AnswerLimit \in Nat \cup {None}
    /\ None \notin Points /\ None \notin Nat /\ MaxAnswers \in Nat
    /\ \A i \in Instances : "single" \in DOMAIN i

VARIABLES
    rows,       \* Answer rows by id, also those that are not committed
    visible,    \* the ids of those that are committed
    posts,      \* the request of a tab
    left,       \* the bounds, and what is left of them
    began,      \* history: the valid answers there when the request began that
                \* has decided whether a row is valid
    looked,     \* history: the rows visible when the request that inserted a row
                \* looked for the newest answer
    touched     \* history: rows whose validity or users a teacher has changed

tables == <<rows, visible>>
history == <<began, looked, touched>>

Ids == 1..MaxAnswers
Columns == {"content", "points", "valid", "modifier"}
NoPost == [pc |-> "idle"]

Spend(what) == left[what] > 0 /\ left' = [left EXCEPT ![what] = @ - 1]

AnswersInit ==
    /\ left \in Instances
    /\ rows = << >> /\ visible = {}
    /\ posts = [t \in Tabs |-> NoPost]
    /\ began = << >> /\ looked = << >> /\ touched = {}

-----------------------------------------------------------------------------
(* Saving                                                                   *)

\* get_answers_query: the committed answers that all of g have given.
AnswersOf(g) == {a \in visible : g \subseteq rows[a].users}
ValidOf(g) == {a \in AnswersOf(g) : rows[a].valid}
Newest(S) == IF S = {} THEN None ELSE Max(S)

\* Slip: a limit of n lets n + 1 answers through.
WithinOneMore(count) == AnswerLimit = None \/ count <= AnswerLimit

\* is_answer_valid.
WithinLimit(count) == AnswerLimit = None \/ count < AnswerLimit

\* get_postanswer_plugin_etc: counts the valid answers and loads the newest of
\* them.  ok: the answer comes in time and the plugin will find it valid.
PostAnswer(t) ==
    \E g \in Groups, c \in Contents, ok \in BOOLEAN :
        LET last == Newest(ValidOf(g))
        IN  /\ posts[t] = NoPost /\ Len(rows) < MaxAnswers
            /\ Spend("posts")
            /\ posts' = [posts EXCEPT ![t] =
                 [pc |-> "called", g |-> g, content |-> c, ok |-> ok,
                  began |-> {a \in visible : rows[a].valid},
                  count |-> Cardinality(ValidOf(g)), id |-> last,
                  row |-> IF last = None THEN None ELSE rows[last]]]
            /\ UNCHANGED <<tables, history>>

\* What the session knows of a row.
Loaded(post, a) == IF a = post.id THEN post.row ELSE rows[a]

\* Slip: the newest of the valid answers is looked at.
LookedAtValid(g) == Newest(ValidOf(g))

\* save_answer: the newest answer, valid or not.
LookedAt(g) == Newest(AnswersOf(g))

\* The plugin has answered.  save_answer inserts a row, or sets columns of the
\* newest one when the answer is redundant (is_redundant_answer) or is to
\* replace it (saveSingleAnswer).
SaveAnswer(t) ==
    LET p == posts[t]
        last == LookedAt(p.g)
        new == [users |-> p.g, content |-> p.content, points |-> AutoPoints[p.content],
                valid |-> p.ok /\ WithinLimit(p.count), modifier |-> "plugin"]
        old == Loaded(p, last)
        redundant == old.content = new.content /\ old.valid = new.valid
        saving(id, sets) == [pc |-> "saving", id |-> id, new |-> new, sets |-> sets,
                             began |-> p.began, looked |-> visible]
    IN  /\ p.pc = "called"
        /\ IF last # None /\ (redundant \/ left.single)
           THEN /\ posts' = [posts EXCEPT ![t] =
                     saving(last, {f \in Columns : old[f] # new[f]})]
                /\ UNCHANGED <<rows, began, looked>>
           ELSE /\ Len(rows) < MaxAnswers
                /\ rows' = Append(rows, new)
                /\ began' = Append(began, p.began)
                /\ looked' = Append(looked, visible)
                /\ posts' = [posts EXCEPT ![t] = saving(Len(rows) + 1, {})]
        /\ UNCHANGED <<visible, left, touched>>

\* db.session.commit().
CommitAnswer(t) ==
    LET p == posts[t]
    IN  /\ p.pc = "saving"
        /\ visible' = visible \cup {p.id}
        /\ rows' = [rows EXCEPT ![p.id] =
                      [f \in DOMAIN @ |-> IF f \in p.sets THEN p.new[f] ELSE @[f]]]
        /\ began' = IF "valid" \in p.sets THEN [began EXCEPT ![p.id] = p.began] ELSE began
        /\ posts' = [posts EXCEPT ![t] = NoPost]
        /\ UNCHANGED <<left, looked, touched>>

\* The plugin's server fails or the worker is killed: what is not committed is
\* rolled back, and the id of the row is not given out again.
FailAnswer(t) ==
    /\ posts[t] # NoPost
    /\ Spend("faults")
    /\ posts' = [posts EXCEPT ![t] = NoPost]
    /\ UNCHANGED <<tables, history>>

AnswersNext == \E t \in Tabs :
    PostAnswer(t) \/ SaveAnswer(t) \/ CommitAnswer(t) \/ FailAnswer(t)

-----------------------------------------------------------------------------
(* What teachers do                                                         *)

\* save_points: the teacher of the document needs no other right to the answer.
SavePoints(a, points) ==
    /\ rows' = [rows EXCEPT ![a].points = points, ![a].modifier = "teacher"]
    /\ UNCHANGED <<visible, history>>

\* delete_answer: only the users of the answer are removed.
DeleteAnswer(a) ==
    /\ rows' = [rows EXCEPT ![a].users = {}]
    /\ touched' = touched \cup {a}
    /\ UNCHANGED <<visible, began, looked>>

\* save_validity, from another page.
SaveValidity(a) ==
    /\ a \in visible
    /\ Spend("marks")
    /\ rows' = [rows EXCEPT ![a].valid = ~@]
    /\ touched' = touched \cup {a}
    /\ UNCHANGED <<visible, began, looked, posts>>

\* get_answers.
AnswersFor(u) ==
    [a \in AnswersOf({u}) |-> [points |-> rows[a].points, valid |-> rows[a].valid]]

-----------------------------------------------------------------------------
(* Properties                                                               *)

Row == [users: SUBSET Students, content: Contents, points: Points \cup {None},
        valid: BOOLEAN, modifier: {"plugin", "teacher"}]

AnswersTypeOK ==
    /\ rows \in Seq(Row) /\ Len(rows) <= MaxAnswers
    /\ visible \subseteq DOMAIN rows
    /\ \A t \in Tabs : posts[t].pc \in {"idle", "called", "saving"}
    /\ DOMAIN began = DOMAIN rows /\ DOMAIN looked = DOMAIN rows
    /\ touched \subseteq visible

Untouched(a) == a \in visible \ touched

\* The answer limit can be exceeded only by requests that overlap: when the
\* request began that made an answer valid, fewer valid ones than the limit were
\* there.
LimitExceededByOverlapOnly ==
    \A j \in DOMAIN rows :
        Untouched(j) /\ rows[j].valid /\ AnswerLimit # None =>
            AnswerLimit > Cardinality({i \in began[j] :
                Untouched(i) /\ rows[j].users \subseteq rows[i].users})

\* "the latest existing answer has the same content": an answer is there twice
\* in a row, or a second time in a task that keeps a single one, only if the
\* first was not committed when the request of the second looked for it.
RepeatedByOverlapOnly ==
    \A i, j \in DOMAIN rows :
        LET between == {k \in visible : i < k /\ k < j
                         /\ (k \in touched \/ rows[j].users \subseteq rows[k].users)}
            repeated == rows[i].content = rows[j].content /\ rows[i].valid = rows[j].valid
        IN  i < j /\ Untouched(i) /\ Untouched(j) /\ rows[j].users \subseteq rows[i].users
            /\ between = {} /\ (repeated \/ left.single) => i \notin looked[j]
=============================================================================
