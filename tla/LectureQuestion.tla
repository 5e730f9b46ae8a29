-------------------------- MODULE LectureQuestion --------------------------
(***************************************************************************)
(* The questions of one running lecture (src/timApp/lecture/routes.py) and *)
(* the dialog that a student's page shows for them                         *)
(* (static/scripts/tim/lecture/lectureController.ts).                      *)
(*                                                                         *)
(* Every request is one database transaction at READ COMMITTED: a step     *)
(* that reads what is committed, for some of them a step that takes the    *)
(* advisory lock of the user, and a step that commits.  A request that     *)
(* fails before its commit leaves nothing behind; a request that commits   *)
(* may still lose its reply.                                               *)
(*                                                                         *)
(* A student's page has at most one poll and one other request under way,  *)
(* a lecturer's page one request.  The end of the lecture, joining and     *)
(* leaving it are not part of this module.                                 *)
(***************************************************************************)
EXTENDS Naturals, Sequences, FiniteSets, Functions

CONSTANTS
    Students,       \* the users that answer
    Lecturer,       \* the user that asks
    StudentTabs,    \* pages of students that show the lecture
    LecturerTabs,   \* pages of the lecturer
    UserOf,         \* [StudentTabs -> Students]
    BrowserOf,      \* [StudentTabs -> browsers]: tabs of one share localStorage
    Questions,      \* AskedQuestion rows, each asked once or several times
    Texts,          \* answers
    None,
    Forever,        \* the end time of a question without a time limit
    TimeLimit,      \* "timeLimit" of the questions, or Forever
    Extension,      \* by how much the lecturer extends a question
    Grace,          \* how long after the end an answer is accepted (5 s)
    MaxTime,        \* bound: the clock stops there
    MaxActs,        \* bound: requests of lecturers
    MaxAnswers,     \* bound: answers sent
    MaxFaults,      \* bound: failed requests and lost replies
    MaxReloads,     \* bound: reloads of a page
    MaxManual       \* bound: questions fetched with the button of the menu

Users == Students \cup {Lecturer}
Browsers == Range(BrowserOf)
Slots == (StudentTabs \X {"poll", "act"}) \cup (LecturerTabs \X {"act"})
Owner(s) == IF s[1] \in StudentTabs THEN UserOf[s[1]] ELSE Lecturer
Kinds == {"Usershown", "Useranswered", "Pointsshown", "Pointsclosed"}

ASSUME ConstantsAssumption ==
    /\ UserOf \in [StudentTabs -> Students]
    /\ DOMAIN BrowserOf = StudentTabs
    /\ {Extension, Grace, MaxTime, MaxActs, MaxAnswers, MaxFaults,
     MaxReloads, MaxManual} \subseteq Nat
    /\ Lecturer \notin Students
    /\ StudentTabs \cap LecturerTabs = {}
    /\ None \notin Questions \cup Slots
    /\ Forever \notin Nat
    /\ TimeLimit \in (Nat \ {0}) \cup {Forever}

VARIABLES
    now,        \* the clock
    running,    \* RunningQuestion rows: question -> end_time
    asks,       \* how often a question has been asked: stands for asked_time
    activity,   \* QuestionActivity rows
    rows,       \* LectureAnswer rows of a user for a question
    shown,      \* ShowPoints rows
    lock,       \* pg_advisory_xact_lock(user.id)
    req,        \* the requests under way
    dialog,     \* currentQuestion of a student's page
    storage,    \* QUESTION_STORAGE of a browser
    left,       \* what is left of the bounds
    first       \* history: the first answer since the question was last asked

vars == <<now, running, asks, activity, rows, shown, lock, req, dialog,
          storage, left, first>>
tables == <<running, asks, activity, rows, shown, first>>
page == <<dialog, storage>>

Idle == [pc |-> "idle"]
Nothing == [kind |-> "nothing"]
Data(kind, q) == [kind |-> kind, q |-> q, ask |-> asks[q]]

\* AskedQuestion.is_running, from the end time that the request knows.
Ahead(end) == end \in Nat => now < end
IsRunning(q) == q \in DOMAIN running /\ Ahead(running[q])
HasActivity(kind, u, q) == <<kind, u, q>> \in activity

Init ==
    /\ now = 0
    /\ running = << >>
    /\ asks = [q \in Questions |-> 0]
    /\ activity = {}
    /\ rows = [u \in Students |-> [q \in Questions |-> << >>]]
    /\ shown = {}
    /\ lock = [u \in Users |-> None]
    /\ req = [s \in Slots |-> Idle]
    /\ dialog = [t \in StudentTabs |-> None]
    /\ storage = [b \in Browsers |-> None]
    /\ left = [acts |-> MaxActs, answers |-> MaxAnswers,
               faults |-> MaxFaults, reloads |-> MaxReloads,
               manual |-> MaxManual]
    /\ first = [u \in Students |-> [q \in Questions |-> None]]

Tick ==
    /\ now < MaxTime
    /\ now' = now + 1
    /\ UNCHANGED <<tables, lock, req, page, left>>

Spend(what) == left[what] > 0 /\ left' = [left EXCEPT ![what] = @ - 1]
Becomes(s, r) == req' = [req EXCEPT ![s] = r]
Begin(s, r) == req[s] = Idle /\ Becomes(s, r)

\* pg_advisory_xact_lock, held until the transaction ends.
Acquire(s) == lock[Owner(s)] = None /\ lock' = [lock EXCEPT ![Owner(s)] = s]
Release(s) == lock' = [u \in Users |-> IF lock[u] = s THEN None ELSE lock[u]]

-----------------------------------------------------------------------------
(* /getUpdates and /getQuestionManually                                     *)

\* The rows of the result sets .first() picks from when nothing orders them.
AnyOf(S) == IF S = {} THEN {None} ELSE S
EndOf(q) == IF q = None THEN None ELSE running[q]

\* getCurrentQuestionId and getCurrentPointsId: the two parameters of a poll.
CurrentId(t, result) ==
    IF dialog[t] # None /\ dialog[t].result = result THEN dialog[t].q ELSE None

\* The page polls; the request reads lecture.running_questions.  When the page
\* shows points that the student has closed elsewhere it is told to close them.
GetUpdates(t) ==
    \E rq \in AnyOf(DOMAIN running) :
        LET pts == CurrentId(t, TRUE)
            closed == pts # None /\ HasActivity("Pointsclosed", UserOf[t], pts)
        IN  /\ Begin(<<t, "poll">>,
                IF closed
                THEN [pc |-> "reply", reply |-> [kind |-> "pointsclosed"]]
                ELSE [pc |-> "polled", manual |-> FALSE, rq |-> rq,
                      end |-> EndOf(rq), cur |-> CurrentId(t, FALSE), pts |-> pts])
            /\ UNCHANGED <<now, tables, lock, page, left>>

\* The student presses the button of the lecture menu.
GetQuestionManually(t) ==
    \E rq \in AnyOf(DOMAIN running) :
        /\ Spend("manual")
        /\ Begin(<<t, "act">>, [pc |-> "polled", manual |-> TRUE, rq |-> rq,
                                end |-> EndOf(rq), cur |-> None, pts |-> None])
        /\ UNCHANGED <<now, tables, lock, page>>

\* Slip: a question is announced once only.
QuestionIsNewsOnce(u, q, cur) ==
    ~HasActivity("Useranswered", u, q) /\ ~HasActivity("Usershown", u, q)

QuestionIsNews(u, q, cur) ==
    /\ ~HasActivity("Useranswered", u, q)
    /\ ~HasActivity("Usershown", u, q) \/ q # cur

\* Slip: the points of a question are announced once only.
PointsAreNewsOnce(u, points, r) ==
    ~HasActivity("Pointsclosed", u, points) /\ ~HasActivity("Pointsshown", u, points)

PointsAreNews(u, points, r) ==
    /\ ~HasActivity("Pointsclosed", u, points) \/ r.manual
    /\ ~HasActivity("Pointsshown", u, points) \/ points # r.pts

\* get_new_question for user u under the lock: the activity it adds and its
\* reply.  The end time of the running question is the one read before the
\* lock; whether its row still exists is read again, unless the loop of
\* do_get_updates has already loaded it for the current question.
NewQuestion(u, r, points) ==
    LET q == r.rq
        isRunning == q # None /\ (q \in DOMAIN running \/ r.cur = q) /\ Ahead(r.end)
        stored(x) == u \in Students /\ rows[u][x] # << >>
        news(kind, x, reply) == [adds |-> {<<kind, u, x>>}, reply |-> reply]
    IN  CASE isRunning /\ QuestionIsNews(u, q, r.cur) ->
                 news("Usershown", q, IF stored(q) THEN Nothing ELSE Data("question", q))
          [] ~isRunning /\ points # None /\ PointsAreNews(u, points, r) ->
                 news("Pointsshown", points,
                      IF stored(points) THEN Data("result", points) ELSE Nothing)
          [] OTHER -> [adds |-> {}, reply |-> Nothing]

GetNewQuestion(s) ==
    /\ req[s].pc = "polled"
    /\ \E points \in AnyOf(shown) :
        LET new == NewQuestion(Owner(s), req[s], points)
        IN  IF req[s].manual  \* no commit: what it adds is rolled back
            THEN /\ lock[Owner(s)] = None
                 /\ Becomes(s, [pc |-> "reply", reply |-> new.reply])
                 /\ UNCHANGED lock
            ELSE /\ Acquire(s)
                 /\ Becomes(s, [pc |-> "noticed", adds |-> new.adds, reply |-> new.reply])
    /\ UNCHANGED <<now, tables, page, left>>

GetUpdatesCommit(s) ==
    /\ req[s].pc = "noticed"
    /\ activity' = activity \cup req[s].adds
    /\ Release(s)
    /\ Becomes(s, [pc |-> "reply", reply |-> req[s].reply])
    /\ UNCHANGED <<now, running, asks, rows, shown, page, left, first>>

-----------------------------------------------------------------------------
(* The dialog of a student's page                                           *)

SetDialog(t, d, stored) ==
    /\ dialog' = [dialog EXCEPT ![t] = d]
    /\ storage' = [storage EXCEPT ![BrowserOf[t]] = stored]

\* ngOnDestroy clears the storage, whichever tab has filled it.
CloseDialog(t) == SetDialog(t, None, None)

\* Slip: the storage gets the data of the question instead of its id.
ShowQuestionData(t, data) ==
    SetDialog(t, [q |-> data.q, ask |-> data.ask, result |-> data.kind = "result"], data)

\* showQuestion and setData: the same question, asked at the same time, leaves
\* a dialog that shows its points as it is.
ShowQuestion(t, data) ==
    LET same == /\ dialog[t] # None
                /\ dialog[t].q = data.q /\ dialog[t].ask = data.ask
        result == data.kind = "result" \/ (same /\ dialog[t].result)
    IN  SetDialog(t, [q |-> data.q, ask |-> data.ask, result |-> result], data.q)

\* isOpenInAnotherTab.
OpenInAnotherTab(t, q) == storage[BrowserOf[t]] = q

\* pollOnce and getQuestionManually get their reply.
PollOnce(s) ==
    /\ req[s].pc = "reply"
    /\ LET reply == req[s].reply
           t == s[1]
       IN  CASE reply.kind = "pointsclosed" ->
                    IF dialog[t] # None THEN CloseDialog(t) ELSE UNCHANGED page
             [] reply.kind \in {"question", "result"} ->
                    IF s[2] = "poll" /\ OpenInAnotherTab(t, reply.q)
                    THEN UNCHANGED page
                    ELSE ShowQuestion(t, reply)
             [] OTHER -> UNCHANGED page
    /\ Becomes(s, Idle)
    /\ UNCHANGED <<now, tables, lock, left>>

\* The student closes the dialog; closing points is told to the server.
Close(t) ==
    /\ dialog[t] # None
    /\ IF dialog[t].result
       THEN Begin(<<t, "act">>, [pc |-> "closing", q |-> dialog[t].q])
       ELSE UNCHANGED req
    /\ CloseDialog(t)
    /\ UNCHANGED <<now, tables, lock, left>>

\* close_points: nothing when no points are shown; takes no lock.  A second
\* request that inserts the same row fails, which changes nothing either.
ClosePoints(s) ==
    /\ req[s].pc = "closing"
    /\ activity' = IF shown = {} THEN activity
                   ELSE activity \cup {<<"Pointsclosed", Owner(s), req[s].q>>}
    /\ Becomes(s, Idle)
    /\ UNCHANGED <<now, running, asks, rows, shown, lock, page, left, first>>

-----------------------------------------------------------------------------
(* /answerToQuestion                                                        *)

\* The student answers, or the timer of the dialog does it; the request reads
\* the student's stored answer before it takes the lock.
AnswerToQuestion(t) ==
    /\ dialog[t] # None /\ ~dialog[t].result
    /\ Spend("answers")
    /\ LET q == dialog[t].q
           mine == rows[UserOf[t]][q]
       IN \E text \in Texts, row \in (IF mine = << >> THEN {0} ELSE DOMAIN mine) :
            Begin(<<t, "act">>, [pc |-> "answering", q |-> q, text |-> text, row |-> row])
    /\ UNCHANGED <<now, tables, lock, page>>

\* Refused when it comes too late or is the second one.
Late(q) == q \notin DOMAIN running \/ (~IsRunning(q) /\ now > running[q] + Grace)
Refused(s) == \/ Late(req[s].q)
              \/ HasActivity("Useranswered", Owner(s), req[s].q)

\* Slip: the request goes on without the lock.
AnswerWithoutLock(s) ==
    /\ req[s].pc = "answering"
    /\ Becomes(s, IF Refused(s) THEN [pc |-> "answered"] ELSE [req[s] EXCEPT !.pc = "saving"])
    /\ UNCHANGED <<now, tables, lock, page, left>>

\* Slip: the mark is committed, and the lock released, before the answer.
AnswerMarkFirst(s) ==
    /\ req[s].pc = "answering"
    /\ lock[Owner(s)] = None
    /\ IF Refused(s)
       THEN Becomes(s, [pc |-> "answered"]) /\ UNCHANGED <<activity, lock>>
       ELSE /\ Becomes(s, [req[s] EXCEPT !.pc = "saving"])
            /\ activity' = activity \cup {<<"Useranswered", Owner(s), req[s].q>>}
            /\ Acquire(s)
    /\ UNCHANGED <<now, running, asks, rows, shown, first, page, left>>

AnswerUnderLock(s) ==
    /\ req[s].pc = "answering"
    /\ lock[Owner(s)] = None
    /\ IF Refused(s)
       THEN Becomes(s, [pc |-> "answered"]) /\ UNCHANGED lock
       ELSE Becomes(s, [req[s] EXCEPT !.pc = "saving"]) /\ Acquire(s)
    /\ UNCHANGED <<now, tables, page, left>>

\* The mark and the answer are committed together: the answer that was found
\* is overwritten, or a new row is added.
AnswerCommit(s) ==
    LET u == Owner(s)
        r == req[s]
    IN  /\ r.pc = "saving"
        /\ activity' = activity \cup {<<"Useranswered", u, r.q>>}
        /\ rows' = [rows EXCEPT ![u][r.q] =
                      IF r.row = 0 THEN Append(@, r.text) ELSE [@ EXCEPT ![r.row] = r.text]]
        /\ first' = [first EXCEPT ![u][r.q] = IF @ = None THEN r.text ELSE @]
        /\ Release(s)
        /\ Becomes(s, [pc |-> "answered"])
        /\ UNCHANGED <<now, running, asks, shown, page, left>>

\* Saved, late or second: the dialog closes, whichever question it shows now.
AnswerReply(t) ==
    /\ req[<<t, "act">>].pc = "answered"
    /\ IF dialog[t] # None THEN CloseDialog(t) ELSE UNCHANGED page
    /\ Becomes(<<t, "act">>, Idle)
    /\ UNCHANGED <<now, tables, lock, left>>

-----------------------------------------------------------------------------
(* Requests of the lecturer                                                 *)

About(q, kinds) == {a \in activity : a[3] = q /\ a[1] \in kinds}

\* ask_question: the DELETE statements of delete_question_temp_data take the
\* rows that are committed when they run.
AskQuestion(s) ==
    \E q \in Questions :
        /\ Spend("acts")
        /\ Begin(s, [pc |-> "asking", q |-> q, dels |-> About(q, Kinds),
                     olds |-> DOMAIN running, sps |-> shown,
                     end |-> IF TimeLimit = Forever THEN Forever ELSE now + TimeLimit])
        /\ UNCHANGED <<now, tables, lock, page>>

\* A row for the same question that was inserted meanwhile fails the request.
AskCommit(s) ==
    LET r == req[s]
        kept == DOMAIN running \ r.olds
    IN  /\ r.pc = "asking"
        /\ Becomes(s, Idle)
        /\ IF r.q \in kept
           THEN UNCHANGED tables
           ELSE /\ running' = [x \in kept \cup {r.q} |->
                                  IF x = r.q THEN r.end ELSE running[x]]
                /\ asks' = [asks EXCEPT ![r.q] = @ + 1]
                /\ activity' = activity \ r.dels
                /\ shown' = shown \ r.sps
                /\ first' = [u \in Students |-> [first[u] EXCEPT ![r.q] = None]]
                /\ UNCHANGED rows
        /\ UNCHANGED <<now, lock, page, left>>

\* stop_question.
StopQuestion(s) ==
    \E q \in DOMAIN running :
        /\ IsRunning(q)
        /\ Spend("acts")
        /\ Begin(s, [pc |-> "ending", q |-> q, end |-> now,
                     dels |-> About(q, {"Usershown", "Useranswered"})])
        /\ UNCHANGED <<now, tables, lock, page>>

\* extend_question: the new end is computed from the one that was read.
ExtendQuestion(s) ==
    \E q \in DOMAIN running :
        /\ IsRunning(q) /\ running[q] # Forever
        /\ Spend("acts")
        /\ Begin(s, [pc |-> "ending", q |-> q, end |-> running[q] + Extension, dels |-> {}])
        /\ UNCHANGED <<now, tables, lock, page>>

\* The UPDATE of end_time fails the request when the row is gone.
EndTimeCommit(s) ==
    LET r == req[s]
    IN  /\ r.pc = "ending"
        /\ Becomes(s, Idle)
        /\ IF r.q \in DOMAIN running
           THEN /\ running' = [running EXCEPT ![r.q] = r.end]
                /\ activity' = activity \ r.dels
           ELSE UNCHANGED <<running, activity>>
        /\ UNCHANGED <<now, asks, rows, shown, lock, page, left, first>>

\* show_points: replaces the ShowPoints rows, then looks for a new question
\* for the lecturer with the rows it has just written.
ShowPoints(s) ==
    \E q \in {x \in Questions : asks[x] > 0}, rq \in AnyOf(DOMAIN running) :
        /\ Spend("acts")
        /\ Begin(s, [pc |-> "showing", manual |-> FALSE, q |-> q, sps |-> shown,
                     rq |-> rq, end |-> EndOf(rq), cur |-> q, pts |-> None])
        /\ UNCHANGED <<now, tables, lock, page>>

ShowUnderLock(s) ==
    /\ req[s].pc = "showing"
    /\ Acquire(s)
    /\ \E points \in {req[s].q} \cup (shown \ req[s].sps) :
          Becomes(s, [pc |-> "shown", q |-> req[s].q, sps |-> req[s].sps,
                      adds |-> NewQuestion(Lecturer, req[s], points).adds])
    /\ UNCHANGED <<now, tables, page, left>>

ShowCommit(s) ==
    LET r == req[s]
        kept == shown \ r.sps
    IN  /\ r.pc = "shown"
        /\ Release(s)
        /\ Becomes(s, Idle)
        /\ IF r.q \in kept
           THEN UNCHANGED <<shown, activity>>
           ELSE /\ shown' = kept \cup {r.q}
                /\ activity' = activity \cup r.adds
        /\ UNCHANGED <<now, running, asks, rows, page, left, first>>

-----------------------------------------------------------------------------
(* Failures                                                                 *)

\* The lock is not available within lock_timeout, the worker is killed or the
\* reply is lost: a transaction that has not committed is rolled back.
Fail(s) ==
    /\ req[s] # Idle
    /\ Spend("faults")
    /\ Release(s)
    /\ Becomes(s, Idle)
    /\ UNCHANGED <<now, tables, page>>

\* The page is reloaded or its tab is killed and opened again while it has no
\* request under way: ngOnDestroy does not run.
Reload(t) ==
    /\ dialog[t] # None
    /\ req[<<t, "poll">>] = Idle /\ req[<<t, "act">>] = Idle
    /\ Spend("reloads")
    /\ dialog' = [dialog EXCEPT ![t] = None]
    /\ UNCHANGED <<now, tables, lock, req, storage>>

-----------------------------------------------------------------------------
Next ==
    \/ Tick
    \/ \E t \in StudentTabs :
        \/ GetUpdates(t)
        \/ GetQuestionManually(t)
        \/ Close(t)
        \/ AnswerToQuestion(t)
        \/ AnswerReply(t)
        \/ Reload(t)
    \/ \E t \in LecturerTabs :
        LET s == <<t, "act">>
        IN  \/ AskQuestion(s)
            \/ StopQuestion(s)
            \/ ExtendQuestion(s)
            \/ ShowPoints(s)
    \/ \E s \in Slots :
        \/ GetNewQuestion(s)
        \/ GetUpdatesCommit(s)
        \/ PollOnce(s)
        \/ ClosePoints(s)
        \/ AnswerUnderLock(s)
        \/ AnswerCommit(s)
        \/ AskCommit(s)
        \/ EndTimeCommit(s)
        \/ ShowUnderLock(s)
        \/ ShowCommit(s)
        \/ Fail(s)

Spec == Init /\ [][Next]_vars

\* A page polls again when its poll is over (startLongPolling); a request of a
\* student runs to its end and its reply arrives unless one of the bounded
\* faults stops it.  A waiter gets the lock although others take it in between:
\* PostgreSQL queues the waiters.
Fairness ==
    \A t \in StudentTabs :
        /\ WF_vars(GetUpdates(t)) /\ WF_vars(AnswerReply(t))
        /\ \A s \in {<<t, "poll">>, <<t, "act">>} :
            /\ SF_vars(GetNewQuestion(s) \/ AnswerUnderLock(s))
            /\ WF_vars(GetUpdatesCommit(s) \/ AnswerCommit(s) \/ ClosePoints(s) \/ PollOnce(s))

FairSpec == Spec /\ Fairness

-----------------------------------------------------------------------------
(* Properties                                                               *)

Ends == Nat \cup {Forever}
Activities == Kinds \X Users \X Questions
Replies == {Nothing, [kind |-> "pointsclosed"]}
           \cup [kind: {"question", "result"}, q: Questions, ask: Nat]
Requests ==
    {Idle, [pc |-> "answered"]}
    \cup [pc: {"polled"}, manual: BOOLEAN, rq: Questions \cup {None},
          end: Ends \cup {None}, cur: Questions \cup {None}, pts: Questions \cup {None}]
    \cup [pc: {"noticed"}, adds: SUBSET Activities, reply: Replies]
    \cup [pc: {"reply"}, reply: Replies]
    \cup [pc: {"closing"}, q: Questions]
    \cup [pc: {"answering", "saving"}, q: Questions, text: Texts, row: Nat]
    \cup [pc: {"asking"}, q: Questions, dels: SUBSET Activities,
          olds: SUBSET Questions, sps: SUBSET Questions, end: Ends]
    \cup [pc: {"ending"}, q: Questions, end: Ends, dels: SUBSET Activities]
    \cup [pc: {"showing"}, manual: {FALSE}, q: Questions, sps: SUBSET Questions,
          rq: Questions \cup {None}, end: Ends \cup {None}, cur: Questions, pts: {None}]
    \cup [pc: {"shown"}, q: Questions, sps: SUBSET Questions, adds: SUBSET Activities]

\* The tables, the requests and the pages have their types.
TypeOK ==
    /\ now \in 0..MaxTime
    /\ DOMAIN running \subseteq Questions /\ Range(running) \subseteq Ends
    /\ asks \in [Questions -> Nat]
    /\ activity \subseteq Activities
    /\ rows \in [Students -> [Questions -> Seq(Texts)]]
    /\ shown \subseteq Questions
    /\ lock \in [Users -> Slots \cup {None}]
    /\ req \in [Slots -> Requests]
    /\ dialog \in [StudentTabs -> [q: Questions, ask: Nat, result: BOOLEAN] \cup {None}]
    /\ storage \in [Browsers -> Questions \cup {None}]
    /\ left \in [{"acts", "answers", "faults", "reloads", "manual"} -> Nat]
    /\ first \in [Students -> [Questions -> Texts \cup {None}]]

\* user_activity_lock: the advisory lock of a user is held by the one request of
\* that user that is between taking it and the end of its transaction, and by
\* no other, whatever requests wait, fail or are rolled back.
LockHeld ==
    /\ \A s \in Slots : req[s].pc \in {"noticed", "saving", "shown"} <=> lock[Owner(s)] = s
    /\ \A u \in Users : lock[u] # None => Owner(lock[u]) = u

\* A student who is marked as having answered has an answer: the mark and the
\* answer are one transaction (answer_to_question), so a failure between them
\* cannot leave a student who may not answer and has no answer.
AnsweredHasAnswer ==
    \A u \in Students, q \in Questions :
        HasActivity("Useranswered", u, q) => rows[u][q] # << >>

\* While the mark is there no request changes the student's answers, from
\* whichever page and however late it comes: the check of already_answered and
\* the commit are under one lock.
SecondAnswerChangesNothing ==
    [][\A u \in Students, q \in Questions :
        HasActivity("Useranswered", u, q) => rows'[u][q] = rows[u][q]]_vars

\* "Your first answer is saved": the first answer since the question was last
\* asked stays stored until it is asked again.
FirstAnswerSaved ==
    \A u \in Students, q \in Questions :
        first[u][q] # None => first[u][q] \in Range(rows[u][q])

\* The page of a student shows a question that has been asked and keeps
\* running, again and again if it is closed, although polls fail and replies
\* get lost after the server has noted that it was shown.
Shows(t, q) == dialog[t] # None /\ dialog[t].q = q
Awaited(t, q) == /\ DOMAIN running = {q} /\ IsRunning(q)
                 /\ ~HasActivity("Useranswered", UserOf[t], q)
                 /\ rows[UserOf[t]][q] = << >>
QuestionShown ==
    \A t \in StudentTabs, q \in Questions : ~<>[](Awaited(t, q) /\ ~Shows(t, q))

\* A student who has answered is shown the points that stay on show and that
\* the student has not closed, unless the dialog still waits for an answer.
Points(t, q) == /\ shown = {q} /\ ~\E x \in Questions : IsRunning(x)
                /\ rows[UserOf[t]][q] # << >>
                /\ ~HasActivity("Pointsclosed", UserOf[t], q)
PointsShown ==
    \A t \in StudentTabs, q \in Questions : ~<>[](Points(t, q) /\ ~Shows(t, q))
=============================================================================
