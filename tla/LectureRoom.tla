---------------------------- MODULE LectureRoom ----------------------------
(***************************************************************************)
(* Who is in which lecture and the wall of the lectures: the tables        *)
(* lectureusers and message (src/timApp/lecture/routes.py), the lecture    *)
(* that a page takes part in and the messages it shows (this.lecture,      *)
(* lastID and wallMessages of                                              *)
(* static/scripts/tim/lecture/lectureController.ts).                       *)
(*                                                                         *)
(* A request is one transaction at READ COMMITTED: it reads a collection   *)
(* and at its commit deletes and inserts the rows by which the collection  *)
(* it wants differs from the one it has read.  A row to delete that is     *)
(* gone (StaleDataError) or a row to insert that is there (IntegrityError) *)
(* fails the whole request.  A message gets its id from a sequence when it *)
(* is inserted and is visible to others when its transaction commits.      *)
(*                                                                         *)
(* A page has at most one poll and one other request under way: the reply  *)
(* to a poll may find the page in another lecture.                         *)
(***************************************************************************)
EXTENDS Integers, Sequences, FiniteSets, SequencesExt, Functions

CONSTANTS
    Pages,          \* the pages that users have open
    UserOf,         \* [Pages -> users]
    Lectures,
    LecturerPage,   \* the page that ends, extends and starts lectures
    None,
    Capacity,       \* "max_students" of the lectures, or None
    MaxMessages,    \* bound: messages sent
    Instances       \* bounds: which lectures have not started at first (future)
                    \* and who is in which one (in), requests to join (joins),
                    \* requests of the lecturer and ends by the clock (acts),
                    \* failed requests and lost replies (faults), reloads of a
                    \* page (reloads) and messages (messages)

Users == {UserOf[p] : p \in Pages}
States == {"future", "running", "ended"}
Slots == Pages \X {"poll", "act"}
Message == 1..MaxMessages

ASSUME RoomAssumption ==
    /\ DOMAIN UserOf = Pages /\ LecturerPage \in Pages
    /\ None \notin Lectures
    /\ Capacity \in Nat \cup {None}
    /\ MaxMessages \in Nat
    /\ Instances \subseteq [future: SUBSET Lectures, in: SUBSET (Lectures \X Users),
                            joins: Nat, acts: Nat, faults: Nat, reloads: Nat, messages: 0..MaxMessages]

VARIABLES
    members,    \* lectureusers: pairs of a lecture and a user
    state,      \* of a lecture, by its start_time and end_time
    sent,       \* the lecture of every message that has got an id
    inserted,   \* messages whose transaction has not ended
    messages,   \* messages that are committed
    req,        \* the requests that a page has under way
    view,       \* the lecture a page takes part in
    lastID,     \* the last id a page has got
    wall,       \* wallMessages of a page
    left,       \* what is left of the bounds
    due         \* history: the messages that came, in the order of the ids,
                \* to the lecture that a page has taken part in ever since

vars == <<members, state, sent, inserted, messages, req, view, lastID, wall, left, due>>
chat == <<sent, inserted, messages, lastID, wall>>

Idle == [pc |-> "idle"]
Of(l) == {u \in Users : <<l, u>> \in members}
LecturesOf(u) == {l \in Lectures : <<l, u>> \in members}
IsRunning(l) == state[l] = "running"
IsFull(l) == Capacity # None /\ Cardinality(Of(l)) >= Capacity
Owner(s) == UserOf[s[1]]

\* Every page has just been loaded.
Init ==
    /\ left \in Instances
    /\ members = left.in
    /\ state = [l \in Lectures |-> IF l \in left.future THEN "future" ELSE "running"]
    /\ sent = << >> /\ inserted = {} /\ messages = {} /\ due = {}
    /\ req = [s \in Slots |-> Idle]
    /\ view = [p \in Pages |-> None]
    /\ lastID = [p \in Pages |-> -1]
    /\ wall = [p \in Pages |-> << >>]

Spend(what) == left[what] > 0 /\ left' = [left EXCEPT ![what] = @ - 1]
Becomes(s, r) == req' = [req EXCEPT ![s] = r]
Begin(s, r) == req[s] = Idle /\ Becomes(s, r)
Act(p) == <<p, "act">>
Poll(p) == <<p, "poll">>

\* this.lecture: showLectureView and showBasicView.
View(p, l) ==
    /\ view' = [view EXCEPT ![p] = l]
    /\ due' = IF l = view[p] THEN due ELSE {d \in due : d[1] # p}
KeepView == UNCHANGED <<view, due>>

\* The unit of work at a commit: it can be flushed only if every row to delete
\* is there and no row to insert is.
Flushes(dels, adds) == dels \subseteq members /\ adds \cap members = {}
Flush(dels, adds) == members' = (members \ dels) \cup adds

\* Slip: the lecture is added to the user's lectures.
SwitchedToAppend(l, u, olds) == [dels |-> {}, adds |-> {<<l, u>>} \ {<<x, u>> : x \in olds}]

\* switch_to_lecture: u.lectures = [l].
SwitchedTo(l, u, olds) ==
    [dels |-> {<<x, u>> : x \in olds \ {l}},
     adds |-> {<<l, u>>} \ {<<x, u>> : x \in olds}]

-----------------------------------------------------------------------------
(* /joinLecture, /startFutureLecture                                        *)

\* join_lecture, with the right password.
JoinLecture(p, l) ==
    /\ Spend("joins")
    /\ view[p] # l
    /\ Begin(Act(p),
         IF IsRunning(l) /\ ~IsFull(l)
         THEN [pc |-> "joining", l |-> l, olds |-> LecturesOf(UserOf[p]), start |-> FALSE]
         ELSE [pc |-> "joined", l |-> l, running |-> IsRunning(l), full |-> IsFull(l)])
    /\ UNCHANGED <<members, state, chat>> /\ KeepView

\* start_future_lecture: the lecture starts now and the lecturer joins it.
StartFutureLecture(p, l) ==
    /\ p = LecturerPage
    /\ state[l] = "future"
    /\ Spend("acts")
    /\ Begin(Act(p), [pc |-> "joining", l |-> l, olds |-> LecturesOf(UserOf[p]), start |-> TRUE])
    /\ UNCHANGED <<members, state, chat>> /\ KeepView

\* The commit, and the reply: is_full is counted again for it.
JoinCommit(p) ==
    LET r == req[Act(p)]
        work == SwitchedTo(r.l, UserOf[p], r.olds)
    IN  /\ r.pc = "joining"
        /\ IF Flushes(work.dels, work.adds)
           THEN /\ Flush(work.dels, work.adds)
                /\ state' = IF r.start THEN [state EXCEPT ![r.l] = "running"] ELSE state
                /\ Becomes(Act(p),
                     [pc |-> "joined", l |-> r.l, running |-> TRUE,
                      full |-> ~r.start /\ Capacity # None
                               /\ Cardinality({m \in members' : m[1] = r.l}) >= Capacity])
           ELSE Becomes(Act(p), Idle) /\ UNCHANGED <<members, state>>
        /\ UNCHANGED <<chat, left>> /\ KeepView

\* joinLecture and startFutureLecture of the page.
JoinReply(p) ==
    LET r == req[Act(p)]
    IN  /\ r.pc = "joined"
        /\ IF r.running /\ ~r.full THEN View(p, r.l) ELSE KeepView
        /\ Becomes(Act(p), Idle)
        /\ UNCHANGED <<members, state, chat, left>>

-----------------------------------------------------------------------------
(* /leaveLecture, /checkLecture, /endLecture                                *)

\* A request that deletes rows; what the page does after it, and the lecture
\* it ends.
Leaving(dels, next, ended) == [pc |-> "leaving", dels |-> dels, next |-> next, ended |-> ended]

\* leave_lecture; the page then checks where it is.
LeaveLecture(p) ==
    /\ view[p] # None
    /\ Begin(Act(p), Leaving({<<view[p], UserOf[p]>>} \cap members, "check", None))
    /\ UNCHANGED <<members, state, chat, left>> /\ KeepView

\* Slip: the users are taken for the rows.
EmptyingUsers(l, ended) == Leaving(Of(l), "list", ended)

\* empty_lecture: every row of the lecture that the request has read.
Emptying(l, ended) == Leaving({<<l, u>> : u \in Of(l)}, "list", ended)

\* check_lecture, when a page has been loaded or has left a lecture: the first
\* of the user's lectures.
CheckLecture(p) ==
    /\ req[Act(p)].pc = "check" \/ (req[Act(p)] = Idle /\ view[p] = None)
    /\ IF LecturesOf(UserOf[p]) = {}
       THEN Becomes(Act(p), Idle) /\ View(p, None)
       ELSE \E l \in LecturesOf(UserOf[p]) :
                IF IsRunning(l)
                THEN Becomes(Act(p), Idle) /\ View(p, l)
                ELSE Becomes(Act(p), Emptying(l, None)) /\ KeepView
    /\ UNCHANGED <<members, state, chat, left>>

\* end_lecture, of the lecture that the lecturer's page takes part in.
EndLecture(p) ==
    /\ p = LecturerPage /\ view[p] # None
    /\ Spend("acts")
    /\ Begin(Act(p), Emptying(view[p], view[p]))
    /\ UNCHANGED <<members, state, chat>> /\ KeepView

\* The commit of these requests and of a poll that empties a lecture, and their
\* reply: the list of lectures, or nothing that the page uses.
LeaveCommit(s) ==
    LET r == req[s]
        done == Flushes(r.dels, {})
    IN  /\ r.pc = "leaving"
        /\ IF done
           THEN /\ Flush(r.dels, {})
                /\ state' = [l \in Lectures |-> IF l = r.ended THEN "ended" ELSE state[l]]
           ELSE UNCHANGED <<members, state>>
        /\ Becomes(s, CASE r.next = "check" -> [pc |-> "check"]
                        [] r.next = "list" /\ done -> [pc |-> "list"]
                        [] OTHER -> Idle)
        /\ UNCHANGED <<chat, left>> /\ KeepView

\* showBasicView: the page gets the list of lectures, in whichever lecture it
\* takes part by now.
ListReply(s) ==
    /\ req[s].pc = "list"
    /\ View(s[1], None)
    /\ Becomes(s, Idle)
    /\ UNCHANGED <<members, state, chat, left>>

-----------------------------------------------------------------------------
(* /sendMessage, /getUpdates                                                *)

\* send_message, to the lecture the user is in.
SendMessage(p) ==
    /\ Spend("messages")
    /\ view[p] # None
    /\ \E l \in LecturesOf(UserOf[p]) : sent' = Append(sent, l)
    /\ inserted' = inserted \cup {Len(sent) + 1}
    /\ UNCHANGED <<members, state, messages, req, lastID, wall>> /\ KeepView

SendCommit(m) ==
    /\ m \in inserted
    /\ inserted' = inserted \ {m}
    /\ messages' = messages \cup {m}
    /\ due' = IF \E n \in messages : n > m THEN due
              ELSE due \cup {<<p, m>> : p \in {x \in Pages : view[x] = sent[m]}}
    /\ UNCHANGED <<members, state, sent, req, view, lastID, wall, left>>

\* The transaction is rolled back: its id is not given out again.
SendFail(m) ==
    /\ m \in inserted
    /\ Spend("faults")
    /\ inserted' = inserted \ {m}
    /\ UNCHANGED <<members, state, sent, messages, req, lastID, wall>> /\ KeepView

\* Slip: the end of the lecture that the page shows decides.
GetUpdatesShown(p) ==
    LET mine == LecturesOf(UserOf[p])
    IN  /\ view[p] # None
        /\ Cardinality(mine) <= 1
        /\ Begin(Poll(p),
             IF mine = {} THEN [pc |-> "list"]
             ELSE LET l == CHOOSE x \in mine : TRUE
                  IN  IF IsRunning(view[p])
                      THEN [pc |-> "looking", l |-> l, last |-> lastID[p]]
                      ELSE Emptying(l, None))
        /\ UNCHANGED <<members, state, chat, left>> /\ KeepView

\* get_updates: an error when the user is in several lectures; a page whose
\* user is in none, or in one that has ended, gets the list of lectures.
GetUpdates(p) ==
    LET mine == LecturesOf(UserOf[p])
    IN  /\ view[p] # None
        /\ Cardinality(mine) <= 1
        /\ Begin(Poll(p),
             IF mine = {} THEN [pc |-> "list"]
             ELSE LET l == CHOOSE x \in mine : TRUE
                  IN  IF IsRunning(l)
                      THEN [pc |-> "looking", l |-> l, last |-> lastID[p]]
                      ELSE Emptying(l, None))
        /\ UNCHANGED <<members, state, chat, left>> /\ KeepView

\* ".order_by(Message.msg_id.asc())": there is one such order.
ById(ids) ==
    {s \in [1..Cardinality(ids) -> ids] : \A i, j \in DOMAIN s : i < j => s[i] < s[j]}

\* Slip: the last message is sent again.
MessagesFrom(l, last) == ById({m \in messages : sent[m] = l /\ m >= last})

\* The messages of a lecture after client_last_id, in the order of the ids.
MessagesAfter(l, last) == ById({m \in messages : sent[m] = l /\ m > last})

\* The loop of do_get_updates: the first time it looks for messages of the
\* lecture it began with, a long poll then of the one the user is in by now.
\* The reply names the lecture it began with.
LookForMessages(p) ==
    LET r == req[Poll(p)]
        mine == LecturesOf(UserOf[p])
        Finds(l) == \E msgs \in MessagesAfter(l, r.last) :
                        Becomes(Poll(p), [pc |-> "found", l |-> r.l, msgs |-> msgs])
    IN  /\ r.pc = "looking"
        /\ \/ Finds(r.l)
           \/ mine = {} /\ Becomes(Poll(p), [pc |-> "list"])
           \/ Cardinality(mine) = 1 /\ \E l \in mine : Finds(l)
        /\ UNCHANGED <<members, state, chat, left>> /\ KeepView

\* Slip: the last id is the number of messages.
GotCount(p, msgs) ==
    /\ wall' = [wall EXCEPT ![p] = @ \o msgs]
    /\ lastID' = [lastID EXCEPT ![p] = IF msgs = << >> THEN @ ELSE Len(sent)]

\* The messages are added to the wall.
Got(p, msgs) ==
    /\ wall' = [wall EXCEPT ![p] = @ \o msgs]
    /\ lastID' = [lastID EXCEPT ![p] = IF msgs = << >> THEN @ ELSE Last(msgs)]

\* Slip: the reply is used in whichever lecture the page is.
UsedInAny(p, l) == view[p] # None

\* answer.lectureId is the lecture that the page takes part in.
Used(p, l) == view[p] = l

\* pollOnce: a reply about another lecture is dropped, with its messages.
PollOnce(p) ==
    LET r == req[Poll(p)]
    IN  /\ r.pc = "found"
        /\ IF Used(p, r.l) THEN Got(p, r.msgs) ELSE UNCHANGED <<wall, lastID>>
        /\ Becomes(Poll(p), Idle)
        /\ UNCHANGED <<members, state, sent, inserted, messages, left>> /\ KeepView

-----------------------------------------------------------------------------
\* The end_time passes.
TimeEnds(l) ==
    /\ IsRunning(l)
    /\ Spend("acts")
    /\ state' = [state EXCEPT ![l] = "ended"]
    /\ UNCHANGED <<members, req, chat>> /\ KeepView

\* extend_lecture: a new end_time.
ExtendLecture(l) ==
    /\ state[l] = "ended"
    /\ Spend("acts")
    /\ state' = [state EXCEPT ![l] = "running"]
    /\ UNCHANGED <<members, req, chat>> /\ KeepView

\* A request fails or its reply is lost.
Fail(s) ==
    /\ req[s] # Idle
    /\ Spend("faults")
    /\ Becomes(s, Idle)
    /\ UNCHANGED <<members, state, chat>> /\ KeepView

\* The page is loaded again while it has no request under way.
Reload(p) ==
    /\ view[p] # None
    /\ req[Act(p)] = Idle /\ req[Poll(p)] = Idle
    /\ Spend("reloads")
    /\ View(p, None)
    /\ lastID' = [lastID EXCEPT ![p] = -1]
    /\ wall' = [wall EXCEPT ![p] = << >>]
    /\ UNCHANGED <<members, state, sent, inserted, messages, req>>

Next ==
    \/ \E p \in Pages, l \in Lectures :
        JoinLecture(p, l) \/ StartFutureLecture(p, l)
    \/ \E p \in Pages :
        \/ JoinCommit(p) \/ JoinReply(p)
        \/ LeaveLecture(p) \/ CheckLecture(p) \/ EndLecture(p)
        \/ SendMessage(p)
        \/ GetUpdates(p) \/ LookForMessages(p) \/ PollOnce(p)
        \/ Reload(p)
    \/ \E s \in Slots : LeaveCommit(s) \/ ListReply(s) \/ Fail(s)
    \/ \E m \in Message : SendCommit(m) \/ SendFail(m)
    \/ \E l \in Lectures : TimeEnds(l) \/ ExtendLecture(l)

Spec == Init /\ [][Next]_vars

\* A page in a lecture keeps polling (startLongPolling); a request of the
\* server comes to its commit and its reply arrives unless one of the bounded
\* faults stops it.
FairSpec ==
    /\ Spec
    /\ \A p \in Pages :
        /\ WF_vars(GetUpdates(p)) /\ WF_vars(LookForMessages(p)) /\ WF_vars(PollOnce(p))
        /\ WF_vars(JoinCommit(p) \/ JoinReply(p))
        /\ WF_vars(req[Act(p)].pc = "check" /\ CheckLecture(p))
    /\ \A s \in Slots : WF_vars(LeaveCommit(s) \/ ListReply(s))

-----------------------------------------------------------------------------
(* Properties                                                               *)

Pairs == Lectures \X Users
Requests ==
    {Idle, [pc |-> "check"], [pc |-> "list"]}
    \cup [pc: {"joining"}, l: Lectures, olds: SUBSET Lectures, start: BOOLEAN]
    \cup [pc: {"joined"}, l: Lectures, running: BOOLEAN, full: BOOLEAN]
    \cup [pc: {"leaving"}, dels: SUBSET Pairs, next: {"check", "list"},
          ended: Lectures \cup {None}]
    \cup [pc: {"looking"}, l: Lectures, last: Message \cup {-1}]
    \cup [pc: {"found"}, l: Lectures, msgs: Seq(Message)]

\* The tables, the requests and the pages have their types.
TypeOK ==
    /\ members \subseteq Pairs
    /\ state \in [Lectures -> States]
    /\ sent \in Seq(Lectures)
    /\ inserted \subseteq Message /\ messages \subseteq Message
    /\ req \in [Slots -> Requests]
    /\ view \in [Pages -> Lectures \cup {None}]
    /\ lastID \in [Pages -> Message \cup {-1}]
    /\ wall \in [Pages -> Seq(Message)]
    /\ left \in [future: SUBSET Lectures, in: SUBSET Pairs, joins: Nat, acts: Nat,
                faults: Nat, reloads: Nat, messages: Nat]
    /\ due \subseteq Pages \X messages

\* "has joined to multiple lectures which should not be possible": a user is
\* in at most one lecture.
AtMostOneLecture == \A u \in Users : Cardinality(LecturesOf(u)) <= 1

\* A lecture that has ended does not keep a user whose page takes part in a
\* lecture: the pages that poll empty it, whatever requests fail because
\* others empty it or leave it at the same time.
EndedLectureEmpties ==
    \A l \in Lectures, p \in Pages :
        ~<>[](state[l] = "ended" /\ view[p] # None /\ <<l, UserOf[p]>> \in members)

\* A wall shows a message once and the messages in the order of their ids,
\* although a poll whose reply is lost or dropped is repeated and the page
\* goes from a lecture to another one and back.
WallOrdered ==
    \A p \in Pages : \A i, j \in DOMAIN wall[p] : i < j => wall[p][i] < wall[p][j]

\* A message that is committed in the order of the ids to the lecture that a
\* page takes part in gets to its wall if the page and its user stay there: a
\* late reply about another lecture (answer.lectureId) does not make the page
\* ask for later messages only.
PromptMessageShown ==
    \A p \in Pages, m \in Message :
        ~<>[](/\ <<p, m>> \in due /\ m \notin Range(wall[p])
              /\ <<sent[m], UserOf[p]>> \in members /\ IsRunning(sent[m]))
=============================================================================
