--------------------------- MODULE AnswerBrowser ---------------------------
(***************************************************************************)
(* The answer browser of a task on a teacher's page                        *)
(* (static/scripts/tim/answer/answer-browser.component.ts and its          *)
(* template) together with the answers that students save meanwhile.       *)
(*                                                                         *)
(* The page has any number of requests under way; the server serves them,  *)
(* and their replies arrive, in any order.  What a handler does between    *)
(* two requests is one step.  The answer that the teacher grades is an     *)
(* object: the list of answers may be replaced by one with new objects     *)
(* while the selected one stays.                                           *)
(*                                                                         *)
(* The plugin's html (getState), reviews and velps, form mode and saving   *)
(* as the student (saveTeacher) are not part of it.  A getState may be     *)
(* under way at any time, so the tools are never hidden for want of one.   *)
(***************************************************************************)
EXTENDS Answers

CONSTANTS
    MaxRequests     \* bound: requests of the page under way

ASSUME BrowserAssumption == MaxRequests \in Nat

VARIABLES
    user,       \* whose answers the teacher wants to see
    fetched,    \* fetchedUser: whose answers have been fetched
    answers,    \* the answers of the last reply
    filtered,   \* the ids of filteredAnswers, newest first by id
    onlyValid,  \* "show valid only"
    selected,   \* selectedAnswer; listed: it is an object of answers
    points,     \* the points field
    net,        \* the requests of the page
    typed       \* history: what was typed while an answer was selected

shownPage == <<fetched, answers, filtered, onlyValid, selected, points>>
page == <<user, shownPage>>
vars == <<rows, visible, posts, left, began, looked, touched, page, net, typed>>
server == <<rows, visible, posts, began, looked, touched>>

Slots == 1..MaxRequests
Free == [kind |-> "free"]
Gets(kind) == {n \in Slots : net[n].kind = kind}

\* The requests rs of the page go out, one after the other.
Send(old, rs) ==
    LET free == {n \in Slots : old[n] = Free}
        slot(i) == CHOOSE n \in free : Cardinality({m \in free : m < n}) = i - 1
    IN  /\ Cardinality(free) >= Len(rs)
        /\ net' = [n \in Slots |->
             IF \E i \in DOMAIN rs : slot(i) = n
             THEN rs[CHOOSE i \in DOMAIN rs : slot(i) = n] ELSE old[n]]

Get(u, refresh) == [kind |-> "get", pc |-> "sent", user |-> u, refresh |-> refresh]
Put(update, again) ==
    [kind |-> "put", pc |-> "sent", answer |-> selected.id, points |-> points,
     update |-> update, again |-> again]

\* ngOnInit: the answers of the user have been asked for.
Init ==
    /\ AnswersInit
    /\ user \in Students
    /\ fetched = None /\ answers = << >> /\ filtered = {} /\ onlyValid = TRUE
    /\ selected = None /\ points = None
    /\ net = [n \in Slots |-> IF n = 1 THEN Get(user, FALSE) ELSE Free]
    /\ typed = [a \in Ids |-> {}]

-----------------------------------------------------------------------------
(* Parts of the handlers                                                    *)

Filter(data, valid) == {a \in DOMAIN data : valid => data[a].valid}
Object(data, a) == IF a = None THEN None
                   ELSE [id |-> a, points |-> data[a].points, listed |-> TRUE]

\* Slip: the points field is left as it is.
SelectOnly(obj) == selected' = obj /\ UNCHANGED points

\* selectedAnswer = obj and changeAnswer, which begins with updatePoints.
Select(obj) ==
    /\ selected' = obj
    /\ points' = IF obj = None THEN None ELSE obj.points

\* Slip: the selected answer stays.
RefilteredOnly(data, valid, new) ==
    filtered' = Filter(data, valid) /\ UNCHANGED <<selected, points>>

\* updateFiltered and setNewest if the selected answer is not in the list; a list
\* that is new has none of the old objects.
Refiltered(data, valid, new) ==
    LET shown == Filter(data, valid)
    IN  /\ filtered' = shown
        /\ IF selected # None /\ selected.id \in shown
           THEN /\ selected' = [selected EXCEPT !.listed = @ /\ ~new]
                /\ UNCHANGED points
           ELSE Select(Object(data, Newest(shown)))

\* Slip: updateFiltered is forgotten.
ShowNewestOnly(data) ==
    UNCHANGED filtered /\ Select(Object(data, Newest(Filter(data, onlyValid))))

\* updateFiltered, and the first one of the list is selected.
ShowNewest(data) ==
    LET shown == Filter(data, onlyValid)
    IN  filtered' = shown /\ Select(Object(data, Newest(shown)))

\* trySavePoints: the requests it makes.
TrySavePoints(update, again) ==
    IF selected = None \/ points = selected.points THEN << >>
    ELSE <<Put(update, again)>>

-----------------------------------------------------------------------------
(* The teacher                                                              *)

\* The teacher types into the points field.
TypePoints(v) ==
    /\ v # points
    /\ Spend("types")
    /\ points' = v
    /\ typed' = IF selected = None THEN typed
                ELSE [typed EXCEPT ![selected.id] = @ \cup {v}]
    /\ UNCHANGED <<server, user, fetched, answers, filtered, onlyValid, selected, net>>

\* handlePointsFocusOut, with autosave.
BlurPoints ==
    /\ TrySavePoints(TRUE, FALSE) # << >>
    /\ Send(net, TrySavePoints(TRUE, FALSE))
    /\ UNCHANGED <<server, left, page, typed>>

\* changeStudentToIndex: the buttons for the next, previous or a random user.
ChangeStudent(u) ==
    /\ Spend("acts")
    /\ user' = u
    /\ Send(net, TrySavePoints(FALSE, FALSE) \o <<Get(u, FALSE)>>)
    /\ UNCHANGED <<server, shownPage, typed>>

\* userSelected: the list of users.
UserSelected(u) ==
    /\ u # user
    /\ Spend("acts")
    /\ user' = u
    /\ Send(net, <<Get(u, FALSE)>>)
    /\ UNCHANGED <<server, shownPage, typed>>

\* changeUser: another user has been chosen elsewhere on the page.
ChangeUser(u) ==
    /\ u # user
    /\ Spend("acts")
    /\ user' = u
    /\ UNCHANGED <<server, shownPage, net, typed>>

\* changeAnswerTo: the older or the newer answer, rolling over.
Neighbour(older) ==
    LET a == IF selected = None THEN None ELSE selected.id
        later == {b \in filtered : IF older THEN a = None \/ b < a ELSE a # None /\ b > a}
        first == IF older THEN Max(later) ELSE Min(later)
    IN  IF filtered = {} THEN None
        ELSE IF later # {} THEN first
        ELSE IF older THEN Max(filtered) ELSE Min(filtered)

ChangeAnswerTo(older) ==
    /\ Spend("acts")
    /\ Send(net, TrySavePoints(FALSE, TRUE))
    /\ Select(Object(answers, Neighbour(older)))
    /\ UNCHANGED <<server, user, fetched, answers, filtered, onlyValid, typed>>

\* The list of answers.
SelectAnswer(a) ==
    /\ a \in filtered
    /\ Spend("acts")
    /\ Select(Object(answers, a))
    /\ UNCHANGED <<server, user, fetched, answers, filtered, onlyValid, net, typed>>

\* onOnlyValidChanged.
ToggleOnlyValid ==
    /\ Spend("acts")
    /\ onlyValid' = ~onlyValid
    /\ Refiltered(answers, ~onlyValid, FALSE)
    /\ UNCHANGED <<server, user, fetched, answers, net, typed>>

\* refreshPlugin.
RefreshPlugin ==
    /\ Spend("acts")
    /\ Send(net, <<Get(user, TRUE)>>)
    /\ UNCHANGED <<server, page, typed>>

\* deleteAnswer, confirmed.
AskDelete ==
    /\ selected # None
    /\ Spend("marks")
    /\ Send(net, <<[kind |-> "delete", pc |-> "sent", answer |-> selected.id]>>)
    /\ UNCHANGED <<server, page, typed>>

\* checkUsers: the mouse enters the plugin.
CheckUsers ==
    /\ Gets("get") = {} /\ user # fetched
    /\ Send(net, <<Get(user, FALSE)>>)
    /\ UNCHANGED <<server, left, page, typed>>

-----------------------------------------------------------------------------
(* The requests                                                             *)

\* The server serves a request.
Serve(n) ==
    LET r == net[n]
        served(x) == net' = [net EXCEPT ![n] = x]
    IN  /\ r.kind # "free" /\ r.pc = "sent"
        /\ CASE r.kind = "get" ->
                    /\ served([kind |-> "get", pc |-> "reply", user |-> r.user,
                               refresh |-> r.refresh, data |-> AnswersFor(r.user)])
                    /\ UNCHANGED <<tables, history>>
             [] r.kind = "put" ->
                    served([r EXCEPT !.pc = "reply"]) /\ SavePoints(r.answer, r.points)
             [] r.kind = "delete" ->
                    IF rows[r.answer].users = {}
                    THEN served(Free) /\ UNCHANGED <<tables, history>>
                    ELSE served([r EXCEPT !.pc = "reply"]) /\ DeleteAnswer(r.answer)
        /\ UNCHANGED <<posts, left, page, typed>>

\* handleAnswerFetch after getAnswers.
AnswersFetched(n) ==
    LET r == net[n]
        anew == /\ r.data # << >>
                /\ \/ user # r.user
                   \/ Cardinality(DOMAIN r.data) # Cardinality(DOMAIN answers)
    IN  /\ r.kind = "get" /\ r.pc = "reply"
        /\ net' = [net EXCEPT ![n] = Free]
        /\ fetched' = r.user /\ answers' = r.data
        /\ IF r.refresh \/ anew
           THEN ShowNewest(r.data)
           ELSE Refiltered(r.data, onlyValid, TRUE)
        /\ UNCHANGED <<server, left, user, onlyValid, typed>>

\* The end of savePoints: the points of the answer selected by now become what
\* the field shows by now.
PointsSaved(n) ==
    LET r == net[n]
        here == [net EXCEPT ![n] = Free]
    IN  /\ r.kind = "put" /\ r.pc = "reply"
        /\ Send(here, IF r.again THEN <<Get(user, FALSE)>> ELSE << >>)
        /\ IF r.update /\ selected # None
           THEN /\ selected' = [selected EXCEPT !.points = points]
                /\ answers' = IF selected.listed
                              THEN [answers EXCEPT ![selected.id].points = points]
                              ELSE answers
           ELSE UNCHANGED <<selected, answers>>
        /\ UNCHANGED <<server, left, user, fetched, filtered, onlyValid, points, typed>>

\* The end of deleteAnswer: the answer at the place of the deleted one in the
\* whole list is selected, or the newest one.
AnswerDeleted(n) ==
    LET r == net[n]
        data == Restrict(answers, DOMAIN answers \ {r.answer})
        shown == Filter(data, onlyValid)
        index == Cardinality({a \in DOMAIN answers : a > r.answer})
        at == {a \in shown : Cardinality({b \in shown : b > a}) = index}
    IN  /\ r.kind = "delete" /\ r.pc = "reply"
        /\ net' = [net EXCEPT ![n] = Free]
        /\ IF r.answer \notin DOMAIN answers
           THEN UNCHANGED <<answers, filtered, selected, points>>
           ELSE /\ answers' = data /\ filtered' = shown
                /\ Select(Object(data, IF at = {} THEN Newest(shown) ELSE Max(at)))
        /\ UNCHANGED <<server, left, user, fetched, onlyValid, typed>>

\* A request fails on its way there or back; a PUT that came from changeAnswerTo
\* is followed by a GET all the same.
RequestFails(n) ==
    LET r == net[n]
        here == [net EXCEPT ![n] = Free]
    IN  /\ r # Free
        /\ Spend("faults")
        /\ Send(here, IF r.kind = "put" /\ r.again THEN <<Get(user, FALSE)>> ELSE << >>)
        /\ UNCHANGED <<server, page, typed>>

-----------------------------------------------------------------------------
Teacher ==
    \/ \E v \in Points \cup {None} : TypePoints(v)
    \/ \E u \in Students : ChangeStudent(u) \/ UserSelected(u) \/ ChangeUser(u)
    \/ \E older \in BOOLEAN : ChangeAnswerTo(older)
    \/ \E a \in Ids : SelectAnswer(a)
    \/ BlurPoints \/ ToggleOnlyValid \/ RefreshPlugin \/ AskDelete \/ CheckUsers

Next ==
    \/ (AnswersNext \/ \E a \in visible : SaveValidity(a)) /\ UNCHANGED <<page, net, typed>>
    \/ Teacher
    \/ \E n \in Slots :
        \/ Serve(n) \/ AnswersFetched(n) \/ PointsSaved(n) \/ AnswerDeleted(n)
        \/ RequestFails(n)

Spec == Init /\ [][Next]_vars

-----------------------------------------------------------------------------
(* Properties                                                               *)

MaybePoints == Points \cup {None}
Lists == UNION {[D -> [points: MaybePoints, valid: BOOLEAN]] : D \in SUBSET Ids}
NetRequests ==
    {Free}
    \cup [kind: {"get"}, pc: {"sent"}, user: Students, refresh: BOOLEAN]
    \cup [kind: {"get"}, pc: {"reply"}, user: Students, refresh: BOOLEAN, data: Lists]
    \cup [kind: {"put"}, pc: {"sent", "reply"}, answer: Ids, points: MaybePoints,
          update: BOOLEAN, again: BOOLEAN]
    \cup [kind: {"delete"}, pc: {"sent", "reply"}, answer: Ids]

\* The tables and the page have their types.
TypeOK ==
    /\ AnswersTypeOK
    /\ user \in Students /\ fetched \in Students \cup {None}
    /\ answers \in Lists /\ filtered \subseteq DOMAIN answers
    /\ onlyValid \in BOOLEAN
    /\ selected \in [id: Ids, points: MaybePoints, listed: BOOLEAN] \cup {None}
    /\ points \in MaybePoints
    /\ net \in [Slots -> NetRequests]
    /\ typed \in [Ids -> SUBSET MaybePoints]

\* The answer that is selected, whose points the field shows and saves, is one
\* that the page lists, and it is an answer of the user whose answers have been
\* fetched last, in whichever order the replies came; so once the page has the
\* answers of the user it shows, it never grades another user's.
Gave(u, a) == u \in rows[a].users \/ a \in touched
OwnAnswerSelected ==
    selected # None => selected.id \in filtered /\ Gave(fetched, selected.id)

\* A request to save points carries what was typed while that very answer was
\* selected, never points shown or typed for another answer or user.
PointsSavedAsTyped ==
    \A n \in Gets("put") : net[n].points \in typed[net[n].answer]
=============================================================================
