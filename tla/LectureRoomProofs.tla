------------------------- MODULE LectureRoomProofs -------------------------
(***************************************************************************)
(* Proofs about LectureRoom, for any users, lectures, messages and         *)
(* failures: nobody is in two lectures, the types, and the walls are in    *)
(* the order of the messages.                                              *)
(***************************************************************************)
EXTENDS LectureRoom, FiniteSetTheorems, SequenceTheorems, TLAPS

\* A user has one page, and is in one lecture at most when the page is loaded.
OnePageEach == \A p, q \in Pages : UserOf[p] = UserOf[q] => p = q
OneLectureAtFirst ==
    \A i \in Instances, u \in Users, l, m \in Lectures :
        <<l, u>> \in i.in /\ <<m, u>> \in i.in => l = m

InOneLecture ==
    \A u \in Users, l, m \in Lectures : <<l, u>> \in members /\ <<m, u>> \in members => l = m

\* A request that joins has read all lectures that its user is in: until it
\* commits others only take the user out of lectures.
OldsAreAll ==
    \A p \in Pages : req[Act(p)].pc = "joining" =>
        /\ req[Act(p)].l \in Lectures
        /\ \A l \in Lectures : <<l, UserOf[p]>> \in members => l \in req[Act(p)].olds

IInv == /\ members \subseteq Lectures \X Users /\ DOMAIN req = Slots
        /\ InOneLecture /\ OldsAreAll

-----------------------------------------------------------------------------
LEMMA PageFacts ==
    ASSUME NEW p \in Pages
    PROVE  Act(p) \in Slots /\ Poll(p) \in Slots /\ UserOf[p] \in Users
  BY DEF Slots, Act, Poll, Users

LEMMA BecomesFacts ==
    ASSUME IInv, NEW s \in Slots, NEW r, Becomes(s, r)
    PROVE  /\ DOMAIN req' = Slots /\ req'[s] = r
           /\ \A x \in Slots \ {s} : req'[x] = req[x]
  BY DEF IInv, Becomes

\* A step in which nobody joins and no request begins to join.
LEMMA NobodyJoins ==
    ASSUME IInv, members' \subseteq members, DOMAIN req' = Slots,
           \A x \in Slots : req'[x] = req[x] \/ req'[x].pc # "joining"
    PROVE  IInv'
  <1>1. InOneLecture'
    BY DEF IInv, InOneLecture
  <1>2. OldsAreAll'
    <2> SUFFICES ASSUME NEW p \in Pages, req'[Act(p)].pc = "joining"
                 PROVE  /\ req'[Act(p)].l \in Lectures
                        /\ \A l \in Lectures :
                             <<l, UserOf[p]>> \in members' => l \in req'[Act(p)].olds
      BY DEF OldsAreAll, Act
    <2>1. req'[Act(p)] = req[Act(p)]
      BY PageFacts
    <2> QED BY <2>1 DEF IInv, OldsAreAll
  <1> QED BY <1>1, <1>2 DEF IInv

\* A request begins to join.
LEMMA JoinBegins ==
    ASSUME IInv, NEW p \in Pages, NEW l \in Lectures, NEW start, UNCHANGED members,
           Becomes(Act(p), [pc |-> "joining", l |-> l, olds |-> LecturesOf(UserOf[p]),
                            start |-> start])
    PROVE  IInv'
  <1> DEFINE r == [pc |-> "joining", l |-> l, olds |-> LecturesOf(UserOf[p]), start |-> start]
  <1>1. /\ DOMAIN req' = Slots /\ req'[Act(p)] = r
        /\ \A x \in Slots \ {Act(p)} : req'[x] = req[x]
    BY PageFacts, BecomesFacts
  <1>2. InOneLecture'
    BY DEF IInv, InOneLecture
  <1>3. OldsAreAll'
    <2> SUFFICES ASSUME NEW q \in Pages, req'[Act(q)].pc = "joining"
                 PROVE  /\ req'[Act(q)].l \in Lectures
                        /\ \A x \in Lectures :
                             <<x, UserOf[q]>> \in members => x \in req'[Act(q)].olds
      BY DEF OldsAreAll, Act
    <2>1. CASE Act(q) = Act(p)
      BY <1>1, <2>1 DEF LecturesOf, Act
    <2>2. CASE Act(q) # Act(p)
      BY <1>1, <2>2, PageFacts DEF IInv, OldsAreAll
    <2> QED BY <2>1, <2>2
  <1> QED BY <1>1, <1>2, <1>3 DEF IInv

LEMMA JoinLectureOK ==
    ASSUME IInv, NEW p \in Pages, NEW l \in Lectures, JoinLecture(p, l)
    PROVE  IInv'
  <1>1. UNCHANGED members
    BY DEF JoinLecture
  <1>2. CASE IsRunning(l) /\ ~IsFull(l)
    BY <1>1, <1>2, JoinBegins DEF JoinLecture, Begin
  <1>3. CASE ~(IsRunning(l) /\ ~IsFull(l))
    <2> DEFINE r == [pc |-> "joined", l |-> l, running |-> IsRunning(l), full |-> IsFull(l)]
    <2>1. Becomes(Act(p), r) /\ r.pc = "joined"
      BY <1>3 DEF JoinLecture, Begin
    <2> HIDE DEF r
    <2> QED BY <1>1, <2>1, PageFacts, BecomesFacts, NobodyJoins
  <1> QED BY <1>2, <1>3

LEMMA StartFutureLectureOK ==
    ASSUME IInv, NEW p \in Pages, NEW l \in Lectures, StartFutureLecture(p, l)
    PROVE  IInv'
  BY JoinBegins DEF StartFutureLecture, Begin

\* switch_to_lecture leaves the user in the lecture that was joined only.
LEMMA JoinCommitOK ==
    ASSUME OnePageEach, IInv, NEW p \in Pages, JoinCommit(p)
    PROVE  IInv'
  <1> DEFINE r == req[Act(p)]
             u == UserOf[p]
             work == SwitchedTo(r.l, u, r.olds)
  <1>1. /\ r.l \in Lectures /\ u \in Users
        /\ \A l \in Lectures : <<l, u>> \in members => l \in r.olds
    BY PageFacts DEF JoinCommit, IInv, OldsAreAll
  <1>2. PICK x : Becomes(Act(p), x) /\ x.pc \in {"joined", "idle"}
    BY DEF JoinCommit, Idle
  <1>3. /\ DOMAIN req' = Slots /\ req'[Act(p)].pc # "joining"
        /\ \A y \in Slots \ {Act(p)} : req'[y] = req[y]
    BY <1>2, PageFacts, BecomesFacts
  <1>4. CASE members' = members
    BY <1>3, <1>4, NobodyJoins
  <1>5. CASE members' = (members \ work.dels) \cup work.adds
    <2>1. /\ work.dels = {<<y, u>> : y \in r.olds \ {r.l}}
          /\ work.adds \subseteq {<<r.l, u>>}
      BY DEF SwitchedTo
    <2>2. members' \subseteq Lectures \X Users
      BY <1>1, <1>5, <2>1 DEF IInv
    <2>3. ASSUME NEW l \in Lectures, <<l, u>> \in members'
          PROVE  l = r.l
      BY <1>1, <1>5, <2>1, <2>3
    <2>4. \A v \in Users \ {u}, l \in Lectures : <<l, v>> \in members' <=> <<l, v>> \in members
      BY <1>5, <2>1
    <2>5. InOneLecture'
      BY <2>3, <2>4 DEF IInv, InOneLecture
    <2>6. OldsAreAll'
      <3> SUFFICES ASSUME NEW q \in Pages, req'[Act(q)].pc = "joining"
                   PROVE  /\ req'[Act(q)].l \in Lectures
                          /\ \A l \in Lectures :
                               <<l, UserOf[q]>> \in members' => l \in req'[Act(q)].olds
        BY DEF OldsAreAll, Act
      <3>1. q # p
        BY <1>3
      <3>2. req'[Act(q)] = req[Act(q)]
        BY <1>3, <3>1, PageFacts DEF Act
      <3>3. UserOf[q] \in Users \ {u}
        BY <3>1, PageFacts DEF OnePageEach
      <3> QED BY <2>4, <3>2, <3>3 DEF IInv, OldsAreAll
    <2> QED BY <1>3, <2>2, <2>5, <2>6 DEF IInv
  <1>6. members' = members \/ members' = (members \ work.dels) \cup work.adds
    BY DEF JoinCommit, Flush
  <1> QED BY <1>4, <1>5, <1>6

\* Requests that join nothing; a page that is told that it is in a lecture is
\* not put into it.
LEMMA OthersOK ==
    ASSUME IInv, NEW p \in Pages,
           \/ JoinReply(p) \/ LeaveLecture(p) \/ CheckLecture(p) \/ EndLecture(p)
           \/ SendMessage(p) \/ PollOnce(p) \/ Reload(p)
    PROVE  IInv'
  <1>1. members' = members
    BY DEF JoinReply, LeaveLecture, CheckLecture, EndLecture, SendMessage, PollOnce, Reload
  <1>2. \/ UNCHANGED req
        \/ Becomes(Act(p), Idle) \/ Becomes(Poll(p), Idle)
        \/ \E dels, next, ended : Becomes(Act(p), Leaving(dels, next, ended))
    <2>1. CASE JoinReply(p) \/ SendMessage(p) \/ PollOnce(p) \/ Reload(p)
      BY <2>1 DEF JoinReply, SendMessage, PollOnce, Reload
    <2>2. CASE LeaveLecture(p)
      BY <2>2 DEF LeaveLecture, Begin
    <2>3. CASE CheckLecture(p)
      BY <2>3 DEF CheckLecture, Emptying
    <2>4. CASE EndLecture(p)
      BY <2>4 DEF EndLecture, Begin, Emptying
    <2> QED BY <2>1, <2>2, <2>3, <2>4
  <1>3. UNCHANGED req \/ \E s \in Slots : \E r : Becomes(s, r) /\ r.pc # "joining"
    <2>1. CASE UNCHANGED req
      BY <2>1
    <2>2. CASE Becomes(Act(p), Idle) \/ Becomes(Poll(p), Idle)
      <3>1. Idle.pc # "joining"
        BY DEF Idle
      <3> QED BY <2>2, <3>1, PageFacts
    <2>3. ASSUME NEW dels, NEW next, NEW ended, Becomes(Act(p), Leaving(dels, next, ended))
          PROVE  \E s \in Slots : \E r : Becomes(s, r) /\ r.pc # "joining"
      <3>1. Leaving(dels, next, ended).pc # "joining"
        BY DEF Leaving
      <3> QED BY <2>3, <3>1, PageFacts
    <2> QED BY <1>2, <2>1, <2>2, <2>3
  <1> QED BY <1>1, <1>3, BecomesFacts, NobodyJoins DEF IInv

LEMMA PollOK ==
    ASSUME IInv, NEW p \in Pages, GetUpdates(p) \/ LookForMessages(p)
    PROVE  IInv'
  <1>1. members' = members
    BY DEF GetUpdates, LookForMessages
  <1>2. \E r : Becomes(Poll(p), r) /\ r.pc # "joining"
    <2>1. CASE GetUpdates(p)
      <3> DEFINE l == CHOOSE x \in LecturesOf(UserOf[p]) : TRUE
      <3>1. \/ Becomes(Poll(p), [pc |-> "list"])
            \/ Becomes(Poll(p), [pc |-> "looking", l |-> l, last |-> lastID[p]])
            \/ Becomes(Poll(p), Emptying(l, None))
        BY <2>1 DEF GetUpdates, Begin
      <3> QED BY <3>1 DEF Emptying, Leaving
    <2>2. CASE LookForMessages(p)
      <3>1. \/ Becomes(Poll(p), [pc |-> "list"])
            \/ \E l, msgs : Becomes(Poll(p), [pc |-> "found", l |-> l, msgs |-> msgs])
        BY <2>2 DEF LookForMessages
      <3>2. [pc |-> "list"].pc # "joining"
            /\ \A l, msgs : [pc |-> "found", l |-> l, msgs |-> msgs].pc # "joining"
        OBVIOUS
      <3> QED BY <3>1, <3>2, Zenon
    <2> QED BY <2>1, <2>2
  <1> QED BY <1>1, <1>2, PageFacts, BecomesFacts, NobodyJoins

LEMMA SlotsOK ==
    ASSUME IInv, NEW s \in Slots, LeaveCommit(s) \/ ListReply(s) \/ Fail(s)
    PROVE  IInv'
  <1>1. members' \subseteq members
    BY DEF LeaveCommit, ListReply, Fail, Flush
  <1>2. \E r : Becomes(s, r) /\ r.pc # "joining"
    BY DEF LeaveCommit, ListReply, Fail, Idle
  <1> QED BY <1>1, <1>2, BecomesFacts, NobodyJoins

LEMMA StaysOK ==
    ASSUME IInv, UNCHANGED <<members, req>>
    PROVE  IInv'
  BY NobodyJoins DEF IInv

-----------------------------------------------------------------------------
\* "has joined to multiple lectures which should not be possible": a user with
\* one page is never in two lectures, whichever lectures the user joins, starts
\* and leaves and whoever empties them meanwhile.
THEOREM OneLecture ==
    ASSUME OnePageEach, OneLectureAtFirst
    PROVE  Spec => []AtMostOneLecture
  <1>1. Init => IInv
    <2> SUFFICES ASSUME Init PROVE IInv
      OBVIOUS
    <2>1. left \in Instances /\ members = left.in
      BY DEF Init
    <2>2. members \subseteq Lectures \X Users
      BY <2>1, RoomAssumption
    <2>3. InOneLecture
      BY <2>1 DEF InOneLecture, OneLectureAtFirst
    <2>4. DOMAIN req = Slots /\ \A s \in Slots : req[s].pc = "idle"
      BY DEF Init, Idle
    <2>5. OldsAreAll
      BY <2>4, PageFacts DEF OldsAreAll
    <2> QED BY <2>2, <2>3, <2>4, <2>5 DEF IInv
  <1>2. IInv /\ [Next]_vars => IInv'
    <2> SUFFICES ASSUME IInv, [Next]_vars PROVE IInv'
      OBVIOUS
    <2>1. CASE UNCHANGED vars
      BY <2>1, StaysOK DEF vars
    <2>2. ASSUME NEW p \in Pages, NEW l \in Lectures,
                 JoinLecture(p, l) \/ StartFutureLecture(p, l)
          PROVE  IInv'
      BY <2>2, JoinLectureOK, StartFutureLectureOK
    <2>3. ASSUME NEW p \in Pages, JoinCommit(p)
          PROVE  IInv'
      BY <2>3, JoinCommitOK
    <2>4. ASSUME NEW p \in Pages,
                 \/ JoinReply(p) \/ LeaveLecture(p) \/ CheckLecture(p) \/ EndLecture(p)
                 \/ SendMessage(p) \/ PollOnce(p) \/ Reload(p)
          PROVE  IInv'
      BY <2>4, OthersOK
    <2>5. ASSUME NEW p \in Pages, GetUpdates(p) \/ LookForMessages(p)
          PROVE  IInv'
      BY <2>5, PollOK
    <2>6. ASSUME NEW s \in Slots, LeaveCommit(s) \/ ListReply(s) \/ Fail(s)
          PROVE  IInv'
      BY <2>6, SlotsOK
    <2>7. ASSUME NEW m, SendCommit(m) \/ SendFail(m)
          PROVE  IInv'
      BY <2>7, StaysOK DEF SendCommit, SendFail
    <2>8. ASSUME NEW l, TimeEnds(l) \/ ExtendLecture(l)
          PROVE  IInv'
      BY <2>8, StaysOK DEF TimeEnds, ExtendLecture
    <2> QED BY <2>1, <2>2, <2>3, <2>4, <2>5, <2>6, <2>7, <2>8 DEF Next
  <1>3. IInv => AtMostOneLecture
    <2> SUFFICES ASSUME IInv, NEW u \in Users
                 PROVE  Cardinality(LecturesOf(u)) <= 1
      BY DEF AtMostOneLecture
    <2>1. ASSUME NEW l \in LecturesOf(u), NEW m \in LecturesOf(u)
          PROVE  l = m
      BY DEF IInv, InOneLecture, LecturesOf
    <2>2. LecturesOf(u) = {} \/ \E l : LecturesOf(u) = {l}
      BY <2>1, Zenon
    <2>3. CASE LecturesOf(u) = {}
      BY <2>3, FS_EmptySet
    <2>4. ASSUME NEW l, LecturesOf(u) = {l} PROVE Cardinality(LecturesOf(u)) <= 1
      <3>1. Cardinality({l}) = 1
        BY FS_Singleton
      <3> QED BY <2>4, <3>1
    <2> QED BY <2>2, <2>3, <2>4, Zenon
  <1> QED BY <1>1, <1>2, <1>3, PTL DEF Spec

-----------------------------------------------------------------------------
(* The types.                                                               *)

\* No message gets an id beyond the bound.
TypeInv == TypeOK /\ Len(sent) + left.messages =< MaxMessages

LEMMA RequestKinds ==
    ASSUME NEW r \in Requests
    PROVE  /\ r.pc = "joining" =>
                r.l \in Lectures /\ r.olds \subseteq Lectures /\ r.start \in BOOLEAN
           /\ r.pc = "joined" => r.l \in Lectures
           /\ r.pc = "leaving" => r.dels \subseteq Pairs /\ r.ended \in Lectures \cup {None}
           /\ r.pc = "looking" => r.l \in Lectures /\ r.last \in Message \cup {-1}
           /\ r.pc = "found" => r.l \in Lectures /\ r.msgs \in Seq(Message)
  BY DEF Requests, Idle

LEMMA RequestTypes ==
    ASSUME TypeOK, NEW s \in Slots, NEW r \in Requests, Becomes(s, r)
    PROVE  req' \in [Slots -> Requests]
  BY DEF TypeOK, Becomes

LEMMA ViewTypes ==
    ASSUME TypeOK, NEW p \in Pages, NEW l \in Lectures \cup {None}, View(p, l)
    PROVE  view' \in [Pages -> Lectures \cup {None}] /\ due' \subseteq Pages \X messages
  BY DEF TypeOK, View

Left == [future: SUBSET Lectures, in: SUBSET Pairs, joins: Nat, acts: Nat,
         faults: Nat, reloads: Nat, messages: Nat]

LEMMA SpendTypes ==
    ASSUME TypeOK, NEW what \in {"joins", "acts", "faults", "reloads", "messages"}, Spend(what)
    PROVE  /\ left' \in Left
           /\ left'.messages = IF what = "messages" THEN left.messages - 1 ELSE left.messages
           /\ left.messages \in Nat
  <1>1. left \in Left /\ left[what] > 0
    BY DEF TypeOK, Spend, Left
  <1>2. CASE what = "joins"
    <2>1. left' = [left EXCEPT !.joins = @ - 1] /\ left.joins > 0
      BY <1>2 DEF Spend
    <2> QED BY <1>1, <1>2, <2>1 DEF Left
  <1>3. CASE what = "acts"
    <2>1. left' = [left EXCEPT !.acts = @ - 1] /\ left.acts > 0
      BY <1>3 DEF Spend
    <2> QED BY <1>1, <1>3, <2>1 DEF Left
  <1>4. CASE what = "faults"
    <2>1. left' = [left EXCEPT !.faults = @ - 1] /\ left.faults > 0
      BY <1>4 DEF Spend
    <2> QED BY <1>1, <1>4, <2>1 DEF Left
  <1>5. CASE what = "reloads"
    <2>1. left' = [left EXCEPT !.reloads = @ - 1] /\ left.reloads > 0
      BY <1>5 DEF Spend
    <2> QED BY <1>1, <1>5, <2>1 DEF Left
  <1>6. CASE what = "messages"
    <2>1. left' = [left EXCEPT !.messages = @ - 1] /\ left.messages > 0
      BY <1>6 DEF Spend
    <2> QED BY <1>1, <1>6, <2>1 DEF Left
  <1> QED BY <1>2, <1>3, <1>4, <1>5, <1>6

\* A step that leaves the wall and the messages alone.
LEMMA QuietTypes ==
    ASSUME TypeInv, UNCHANGED chat, members' \subseteq Pairs, state' \in [Lectures -> States],
           req' \in [Slots -> Requests], view' \in [Pages -> Lectures \cup {None}],
           due' \subseteq Pages \X messages,
           UNCHANGED left \/ \E what \in {"joins", "acts", "faults"} : Spend(what)
    PROVE  TypeInv'
  <1>1. left' \in Left /\ left'.messages = left.messages
    BY SpendTypes DEF TypeInv, TypeOK, Left
  <1> QED BY <1>1 DEF TypeInv, TypeOK, chat, Left

LEMMA JoinTypes ==
    ASSUME TypeInv, NEW p \in Pages, NEW l \in Lectures,
           JoinLecture(p, l) \/ StartFutureLecture(p, l)
    PROVE  TypeInv'
  <1>0. TypeOK /\ Act(p) \in Slots
    BY PageFacts DEF TypeInv
  <1>1. UNCHANGED <<members, state, chat, view, due>>
    BY DEF JoinLecture, StartFutureLecture, KeepView
  <1>2. Spend("joins") \/ Spend("acts")
    BY DEF JoinLecture, StartFutureLecture
  <1>3. \E r \in Requests : Becomes(Act(p), r)
    <2> DEFINE j(start) == [pc |-> "joining", l |-> l, olds |-> LecturesOf(UserOf[p]),
                            start |-> start]
               d == [pc |-> "joined", l |-> l, running |-> IsRunning(l), full |-> IsFull(l)]
    <2>1. j(TRUE) \in Requests /\ j(FALSE) \in Requests
      BY DEF Requests, LecturesOf
    <2>2. d \in Requests
      BY DEF Requests, IsRunning, IsFull
    <2>3. Becomes(Act(p), j(TRUE)) \/ Becomes(Act(p), j(FALSE)) \/ Becomes(Act(p), d)
      BY DEF JoinLecture, StartFutureLecture, Begin
    <2> QED BY <2>1, <2>2, <2>3
  <1>4. req' \in [Slots -> Requests]
    BY <1>0, <1>3, RequestTypes
  <1> QED BY <1>0, <1>1, <1>2, <1>4, QuietTypes DEF TypeOK

LEMMA JoinCommitTypes ==
    ASSUME TypeInv, NEW p \in Pages, JoinCommit(p)
    PROVE  TypeInv'
  <1> DEFINE r == req[Act(p)]
             work == SwitchedTo(r.l, UserOf[p], r.olds)
  <1>0. TypeOK /\ Act(p) \in Slots /\ UserOf[p] \in Users
    BY PageFacts DEF TypeInv
  <1>1. r.pc = "joining" /\ UNCHANGED <<chat, left, view, due>>
    BY DEF JoinCommit, KeepView
  <1>2. r.l \in Lectures /\ r.start \in BOOLEAN
    BY <1>0, <1>1, RequestKinds DEF TypeOK
  <1>3. work.adds \subseteq Pairs
    BY <1>0, <1>2 DEF SwitchedTo, Pairs
  <1>4. members' \subseteq Pairs
    BY <1>0, <1>3 DEF JoinCommit, Flush, TypeOK
  <1>5. state' \in [Lectures -> States]
    BY <1>0, <1>2 DEF JoinCommit, TypeOK, States
  <1>6. \E x \in Requests : Becomes(Act(p), x)
    <2> DEFINE full == ~r.start /\ Capacity # None
                               /\ Cardinality({m \in members' : m[1] = r.l}) >= Capacity
               d == [pc |-> "joined", l |-> r.l, running |-> TRUE, full |-> full]
    <2>1. full \in BOOLEAN
      OBVIOUS
    <2>2. Becomes(Act(p), d) \/ Becomes(Act(p), Idle)
      BY DEF JoinCommit
    <2> HIDE DEF full
    <2>3. d \in Requests /\ Idle \in Requests
      BY <1>2, <2>1 DEF Requests
    <2> QED BY <2>2, <2>3
  <1>7. req' \in [Slots -> Requests]
    BY <1>0, <1>6, RequestTypes
  <1> QED BY <1>0, <1>1, <1>4, <1>5, <1>7, QuietTypes DEF TypeOK

LEMMA EmptyingTypes ==
    ASSUME NEW l \in Lectures, NEW ended \in Lectures \cup {None}
    PROVE  Emptying(l, ended) \in Requests
  <1> DEFINE dels == {<<l, u>> : u \in Of(l)}
  <1>1. dels \in SUBSET Pairs
    <2>1. \A u \in Of(l) : <<l, u>> \in Pairs
      BY DEF Of, Pairs
    <2> QED BY <2>1, Zenon
  <1>2. Emptying(l, ended) = [pc |-> "leaving", dels |-> dels, next |-> "list", ended |-> ended]
    BY DEF Emptying, Leaving
  <1> HIDE DEF dels
  <1> QED BY <1>1, <1>2 DEF Requests

LEMMA PageTypes ==
    ASSUME TypeInv, NEW p \in Pages,
           JoinReply(p) \/ LeaveLecture(p) \/ CheckLecture(p) \/ EndLecture(p)
    PROVE  TypeInv'
  <1>0. TypeOK /\ Act(p) \in Slots /\ UserOf[p] \in Users
    BY PageFacts DEF TypeInv
  <1>1. UNCHANGED <<members, state, chat>> /\ (UNCHANGED left \/ Spend("acts"))
    BY DEF JoinReply, LeaveLecture, CheckLecture, EndLecture
  <1>2. Idle \in Requests
    BY DEF Requests
  <1>3. \A l \in Lectures, ended \in Lectures \cup {None} : Emptying(l, ended) \in Requests
    BY EmptyingTypes
  <1>4. view[p] # None => view[p] \in Lectures
    BY <1>0 DEF TypeOK
  <1>5. (UNCHANGED <<view, due>> \/ \E l \in Lectures \cup {None} : View(p, l))
        /\ \E x \in Requests : Becomes(Act(p), x)
    <2>1. CASE JoinReply(p)
      <3>1. req[Act(p)].l \in Lectures
        BY <1>0, <2>1, RequestKinds DEF JoinReply, TypeOK
      <3> QED BY <1>2, <2>1, <3>1 DEF JoinReply, KeepView
    <2>2. CASE LeaveLecture(p)
      <3>1. Leaving({<<view[p], UserOf[p]>>} \cap members, "check", None) \in Requests
        BY <1>0 DEF Leaving, Requests, TypeOK
      <3> QED BY <2>2, <3>1 DEF LeaveLecture, Begin, KeepView
    <2>3. CASE CheckLecture(p)
      BY <1>2, <1>3, <2>3 DEF CheckLecture, KeepView, LecturesOf
    <2>4. CASE EndLecture(p)
      BY <1>3, <1>4, <2>4 DEF EndLecture, Begin, KeepView
    <2> QED BY <2>1, <2>2, <2>3, <2>4
  <1>6. req' \in [Slots -> Requests]
    BY <1>0, <1>5, RequestTypes
  <1>7. view' \in [Pages -> Lectures \cup {None}] /\ due' \subseteq Pages \X messages
    BY <1>0, <1>5, ViewTypes DEF TypeOK
  <1> QED BY <1>0, <1>1, <1>6, <1>7, QuietTypes DEF TypeOK

LEMMA SlotTypes ==
    ASSUME TypeInv, NEW s \in Slots, LeaveCommit(s) \/ ListReply(s) \/ Fail(s)
    PROVE  TypeInv'
  <1>0. TypeOK /\ s[1] \in Pages
    BY DEF TypeInv, Slots
  <1>1. UNCHANGED chat /\ (UNCHANGED left \/ Spend("faults"))
    BY DEF LeaveCommit, ListReply, Fail
  <1>2. members' \subseteq Pairs
    BY <1>0 DEF LeaveCommit, ListReply, Fail, Flush, TypeOK
  <1>3. state' \in [Lectures -> States]
    BY <1>0 DEF LeaveCommit, ListReply, Fail, TypeOK, States
  <1>4. \E x \in Requests : Becomes(s, x)
    <2>1. Idle \in Requests /\ [pc |-> "check"] \in Requests /\ [pc |-> "list"] \in Requests
      BY DEF Requests
    <2> QED BY <2>1 DEF LeaveCommit, ListReply, Fail
  <1>5. req' \in [Slots -> Requests]
    BY <1>0, <1>4, RequestTypes
  <1>6. view' \in [Pages -> Lectures \cup {None}] /\ due' \subseteq Pages \X messages
    BY <1>0, ViewTypes DEF TypeOK, LeaveCommit, ListReply, Fail, KeepView
  <1> QED BY <1>0, <1>1, <1>2, <1>3, <1>5, <1>6, QuietTypes DEF TypeOK

\* What a poll finds is a sequence of messages in the order of their ids.
LEMMA FoundMessages ==
    ASSUME TypeOK, NEW l, NEW last, NEW msgs \in MessagesAfter(l, last)
    PROVE  /\ msgs \in Seq(Message)
           /\ \A i, j \in DOMAIN msgs : i < j => msgs[i] < msgs[j]
           /\ \A i \in DOMAIN msgs : msgs[i] > last
  <1> DEFINE ids == {m \in messages : sent[m] = l /\ m > last}
  <1>1. messages \subseteq Message /\ MaxMessages \in Nat
    BY RoomAssumption DEF TypeOK
  <1>2. IsFiniteSet(ids)
    <2>1. IsFiniteSet(Message)
      BY <1>1, FS_Interval DEF Message
    <2> QED BY <1>1, <2>1, FS_Subset
  <1>3. Cardinality(ids) \in Nat
    BY <1>2, FS_CardinalityType
  <1>4. /\ msgs \in [1..Cardinality(ids) -> ids]
        /\ \A i, j \in DOMAIN msgs : i < j => msgs[i] < msgs[j]
    BY DEF MessagesAfter, ById
  <1>5. msgs \in Seq(Message)
    BY <1>1, <1>3, <1>4, SeqDef
  <1> QED BY <1>4, <1>5

LEMMA PollTypes ==
    ASSUME TypeInv, NEW p \in Pages, GetUpdates(p) \/ LookForMessages(p)
    PROVE  TypeInv'
  <1>0. TypeOK /\ Poll(p) \in Slots
    BY PageFacts DEF TypeInv
  <1>1. UNCHANGED <<members, state, chat, left, view, due>>
    BY DEF GetUpdates, LookForMessages, KeepView
  <1>2. \E x \in Requests : Becomes(Poll(p), x)
    <2>0. [pc |-> "list"] \in Requests
      BY DEF Requests
    <2>1. CASE GetUpdates(p)
      <3> DEFINE mine == LecturesOf(UserOf[p])
                 l == CHOOSE x \in mine : TRUE
      <3>1. mine # {} => l \in Lectures
        BY DEF LecturesOf
      <3>2. mine # {} => [pc |-> "looking", l |-> l, last |-> lastID[p]] \in Requests
        BY <1>0, <3>1 DEF Requests, TypeOK
      <3>3. mine # {} => Emptying(l, None) \in Requests
        BY <3>1, EmptyingTypes
      <3>4. \/ Becomes(Poll(p), [pc |-> "list"])
            \/ /\ mine # {}
               /\ \/ Becomes(Poll(p), [pc |-> "looking", l |-> l, last |-> lastID[p]])
                  \/ Becomes(Poll(p), Emptying(l, None))
        BY <2>1 DEF GetUpdates, Begin
      <3> QED BY <2>0, <3>2, <3>3, <3>4
    <2>2. CASE LookForMessages(p)
      <3>1. req[Poll(p)].l \in Lectures
        BY <1>0, <2>2, RequestKinds DEF LookForMessages, TypeOK
      <3>2. ASSUME NEW l, NEW msgs \in MessagesAfter(l, req[Poll(p)].last)
            PROVE  [pc |-> "found", l |-> req[Poll(p)].l, msgs |-> msgs] \in Requests
        BY <1>0, <3>1, FoundMessages DEF Requests
      <3>3. \/ Becomes(Poll(p), [pc |-> "list"])
            \/ \E l : \E msgs \in MessagesAfter(l, req[Poll(p)].last) :
                 Becomes(Poll(p), [pc |-> "found", l |-> req[Poll(p)].l, msgs |-> msgs])
        BY <2>2 DEF LookForMessages
      <3> QED BY <2>0, <3>2, <3>3
    <2> QED BY <2>1, <2>2
  <1>3. req' \in [Slots -> Requests]
    BY <1>0, <1>2, RequestTypes
  <1> QED BY <1>0, <1>1, <1>3, QuietTypes DEF TypeOK

LEMMA SendMessageTypes ==
    ASSUME TypeInv, NEW p \in Pages, SendMessage(p)
    PROVE  TypeInv'
  <1>0. TypeOK
    BY DEF TypeInv
  <1>1. left' \in Left /\ left'.messages = left.messages - 1 /\ left.messages \in Nat
    BY <1>0, SpendTypes DEF SendMessage
  <1>2. left'.messages \in Nat
    BY <1>1 DEF Left
  <1>3. PICK l \in Lectures : sent' = Append(sent, l)
    BY DEF SendMessage, LecturesOf
  <1>4. sent' \in Seq(Lectures) /\ Len(sent') = Len(sent) + 1 /\ Len(sent) \in Nat
    BY <1>0, <1>3 DEF TypeOK
  <1>5. Len(sent') + left'.messages =< MaxMessages /\ MaxMessages \in Nat
    BY <1>1, <1>4, RoomAssumption DEF TypeInv
  <1>6. Len(sent) + 1 \in Message
    BY <1>2, <1>4, <1>5 DEF Message
  <1>7. inserted' \subseteq Message
    BY <1>0, <1>6 DEF SendMessage, TypeOK
  <1>8. UNCHANGED <<members, state, messages, req, lastID, wall, view, due>>
    BY DEF SendMessage, KeepView
  <1>9. TypeOK'
    BY <1>0, <1>1, <1>4, <1>7, <1>8 DEF TypeOK, Left
  <1> QED BY <1>5, <1>9 DEF TypeInv

LEMMA SendEndsTypes ==
    ASSUME TypeInv, NEW m \in Message, SendCommit(m) \/ SendFail(m)
    PROVE  TypeInv'
  <1>0. TypeOK
    BY DEF TypeInv
  <1>1. left' \in Left /\ left'.messages = left.messages
    <2>1. CASE SendCommit(m)
      BY <1>0, <2>1 DEF SendCommit, TypeOK, Left
    <2>2. CASE SendFail(m)
      BY <1>0, <2>2, SpendTypes DEF SendFail
    <2> QED BY <2>1, <2>2
  <1>2. /\ inserted' \subseteq Message /\ messages' \subseteq Message
        /\ messages \subseteq messages'
    BY <1>0 DEF SendCommit, SendFail, TypeOK
  <1>3. due' \subseteq Pages \X messages'
    <2>1. CASE due' = due
      BY <1>0, <1>2, <2>1 DEF TypeOK
    <2>2. CASE SendCommit(m) /\ due' # due
      <3> DEFINE to == {x \in Pages : view[x] = sent[m]}
                 new == {<<p, m>> : p \in to}
      <3>1. due' = due \cup new /\ m \in messages'
        BY <2>2 DEF SendCommit
      <3>2. \A p \in to : <<p, m>> \in Pages \X messages'
        BY <3>1
      <3>3. new \subseteq Pages \X messages'
        BY <3>2, Zenon
      <3> HIDE DEF new
      <3> QED BY <1>0, <1>2, <3>1, <3>3 DEF TypeOK
    <2> QED BY <2>1, <2>2 DEF SendFail, KeepView
  <1>4. UNCHANGED <<members, state, sent, req, view, lastID, wall>>
    BY DEF SendCommit, SendFail, KeepView
  <1>5. TypeOK'
    BY <1>0, <1>1, <1>2, <1>3, <1>4 DEF TypeOK, Left
  <1> QED BY <1>1, <1>4, <1>5 DEF TypeInv

LEMMA PollOnceTypes ==
    ASSUME TypeInv, NEW p \in Pages, PollOnce(p)
    PROVE  TypeInv'
  <1> DEFINE msgs == req[Poll(p)].msgs
  <1>0. TypeOK /\ Poll(p) \in Slots
    BY PageFacts DEF TypeInv
  <1>1. msgs \in Seq(Message)
    BY <1>0, RequestKinds DEF PollOnce, TypeOK
  <1>2. msgs # << >> => Last(msgs) \in Message
    <2> SUFFICES ASSUME msgs # << >> PROVE Last(msgs) \in Message
      OBVIOUS
    <2>1. Len(msgs) \in 1..Len(msgs)
      BY <1>1
    <2> QED BY <1>1, <2>1 DEF Last
  <1>3. wall' \in [Pages -> Seq(Message)]
    <2>1. wall[p] \o msgs \in Seq(Message)
      BY <1>0, <1>1, ConcatProperties DEF TypeOK
    <2>2. wall' = [wall EXCEPT ![p] = wall[p] \o msgs] \/ wall' = wall
      BY DEF PollOnce, Got
    <2> QED BY <1>0, <2>1, <2>2 DEF TypeOK
  <1>4. lastID' \in [Pages -> Message \cup {-1}]
    BY <1>0, <1>2 DEF PollOnce, Got, TypeOK
  <1>5. req' \in [Slots -> Requests]
    <2>1. Idle \in Requests /\ Becomes(Poll(p), Idle)
      BY DEF Requests, PollOnce
    <2> QED BY <1>0, <2>1, RequestTypes
  <1>6. UNCHANGED <<members, state, sent, inserted, messages, left, view, due>>
    BY DEF PollOnce, KeepView
  <1>7. TypeOK'
    BY <1>0, <1>3, <1>4, <1>5, <1>6 DEF TypeOK
  <1> QED BY <1>6, <1>7 DEF TypeInv

LEMMA ReloadTypes ==
    ASSUME TypeInv, NEW p \in Pages, Reload(p)
    PROVE  TypeInv'
  <1>0. TypeOK
    BY DEF TypeInv
  <1>1. view' \in [Pages -> Lectures \cup {None}] /\ due' \subseteq Pages \X messages
    BY <1>0, ViewTypes DEF Reload
  <1>2. left' \in Left /\ left'.messages = left.messages
    BY <1>0, SpendTypes DEF Reload
  <1>3. << >> \in Seq(Message)
    OBVIOUS
  <1>4. lastID' \in [Pages -> Message \cup {-1}] /\ wall' \in [Pages -> Seq(Message)]
    BY <1>0, <1>3 DEF Reload, TypeOK
  <1>5. UNCHANGED <<members, state, sent, inserted, messages, req>>
    BY DEF Reload
  <1>6. TypeOK'
    BY <1>0, <1>1, <1>2, <1>4, <1>5 DEF TypeOK, Left
  <1> QED BY <1>2, <1>5, <1>6 DEF TypeInv

LEMMA ClockTypes ==
    ASSUME TypeInv, NEW l \in Lectures, TimeEnds(l) \/ ExtendLecture(l)
    PROVE  TypeInv'
  <1>0. TypeOK
    BY DEF TypeInv
  <1>1. UNCHANGED <<members, req, chat, view, due>> /\ Spend("acts")
    BY DEF TimeEnds, ExtendLecture, KeepView
  <1>2. state' \in [Lectures -> States]
    BY <1>0 DEF TimeEnds, ExtendLecture, TypeOK, States
  <1> QED BY <1>0, <1>1, <1>2, QuietTypes DEF TypeOK

LEMMA InitTypes ==
    ASSUME Init
    PROVE  TypeInv
  <1>1. /\ left \in Left /\ left.in \subseteq Pairs
        /\ left.messages =< MaxMessages /\ MaxMessages \in Nat
    <2>1. left \in [future: SUBSET Lectures, in: SUBSET (Lectures \X Users), joins: Nat,
                    acts: Nat, faults: Nat, reloads: Nat, messages: 0..MaxMessages]
      BY RoomAssumption DEF Init
    <2> QED BY <2>1, RoomAssumption DEF Left, Pairs
  <1>2. sent = << >> /\ inserted = {} /\ messages = {} /\ due = {} /\ members = left.in
    BY DEF Init
  <1>3. state \in [Lectures -> States]
    BY DEF Init, States
  <1>4. req \in [Slots -> Requests]
    BY DEF Init, Requests
  <1>5. view \in [Pages -> Lectures \cup {None}] /\ lastID \in [Pages -> Message \cup {-1}]
    BY DEF Init
  <1>6. wall \in [Pages -> Seq(Message)]
    <2>1. << >> \in Seq(Message)
      OBVIOUS
    <2> QED BY <2>1 DEF Init
  <1>7. sent \in Seq(Lectures) /\ Len(sent) = 0 /\ left.messages \in Nat
    BY <1>1, <1>2 DEF Left
  <1>8. TypeOK
    BY <1>1, <1>2, <1>3, <1>4, <1>5, <1>6, <1>7 DEF TypeOK, Left
  <1> QED BY <1>1, <1>7, <1>8 DEF TypeInv

LEMMA StepTypes ==
    ASSUME TypeInv, [Next]_vars
    PROVE  TypeInv'
  <1>1. CASE UNCHANGED vars
    BY <1>1, QuietTypes DEF vars, chat, TypeInv, TypeOK
  <1>2. ASSUME NEW p \in Pages, NEW l \in Lectures,
               JoinLecture(p, l) \/ StartFutureLecture(p, l)
        PROVE  TypeInv'
    BY <1>2, JoinTypes
  <1>3. ASSUME NEW p \in Pages, JoinCommit(p)
        PROVE  TypeInv'
    BY <1>3, JoinCommitTypes
  <1>4. ASSUME NEW p \in Pages,
               JoinReply(p) \/ LeaveLecture(p) \/ CheckLecture(p) \/ EndLecture(p)
        PROVE  TypeInv'
    BY <1>4, PageTypes
  <1>5. ASSUME NEW p \in Pages, SendMessage(p) \/ PollOnce(p) \/ Reload(p)
        PROVE  TypeInv'
    BY <1>5, SendMessageTypes, PollOnceTypes, ReloadTypes
  <1>6. ASSUME NEW p \in Pages, GetUpdates(p) \/ LookForMessages(p)
        PROVE  TypeInv'
    BY <1>6, PollTypes
  <1>7. ASSUME NEW s \in Slots, LeaveCommit(s) \/ ListReply(s) \/ Fail(s)
        PROVE  TypeInv'
    BY <1>7, SlotTypes
  <1>8. ASSUME NEW m \in Message, SendCommit(m) \/ SendFail(m)
        PROVE  TypeInv'
    BY <1>8, SendEndsTypes
  <1>9. ASSUME NEW l \in Lectures, TimeEnds(l) \/ ExtendLecture(l)
        PROVE  TypeInv'
    BY <1>9, ClockTypes
  <1> QED BY <1>1, <1>2, <1>3, <1>4, <1>5, <1>6, <1>7, <1>8, <1>9 DEF Next

\* The tables, the requests and the pages always have their types: the ids of
\* the messages, those a page has got and those a poll asks after included.
THEOREM TypeCorrect == Spec => []TypeOK
  <1>1. TypeInv => TypeOK
    BY DEF TypeInv
  <1> QED BY <1>1, InitTypes, StepTypes, PTL DEF Spec

-----------------------------------------------------------------------------
(* The order of the wall.                                                   *)

Ascending(s) == \A i, j \in DOMAIN s : i < j => s[i] < s[j]

\* A wall is in order up to the last id its page has got; a poll under way asks
\* after that id and brings later messages only.
WallInv ==
    \A p \in Pages :
        LET r == req[Poll(p)]
        IN  /\ Ascending(wall[p]) /\ \A i \in DOMAIN wall[p] : wall[p][i] =< lastID[p]
            /\ r.pc = "looking" => r.last = lastID[p]
            /\ r.pc = "found" => /\ Ascending(r.msgs)
                                 /\ \A i \in DOMAIN r.msgs : r.msgs[i] > lastID[p]

\* A step in which no page gets messages and no poll begins or finds any.
LEMMA QuietWall ==
    ASSUME WallInv, UNCHANGED <<wall, lastID>>,
           \A p \in Pages : \/ req'[Poll(p)] = req[Poll(p)]
                            \/ req'[Poll(p)].pc \notin {"looking", "found"}
    PROVE  WallInv'
  <1> SUFFICES ASSUME NEW p \in Pages
               PROVE  LET r == req'[Poll(p)]
                      IN  /\ Ascending(wall[p]) /\ \A i \in DOMAIN wall[p] : wall[p][i] =< lastID[p]
                          /\ r.pc = "looking" => r.last = lastID[p]
                          /\ r.pc = "found" => /\ Ascending(r.msgs)
                                               /\ \A i \in DOMAIN r.msgs : r.msgs[i] > lastID[p]
    BY DEF WallInv, Poll, Ascending
  <1>1. CASE req'[Poll(p)] = req[Poll(p)]
    BY <1>1 DEF WallInv
  <1>2. CASE req'[Poll(p)].pc \notin {"looking", "found"}
    BY <1>2 DEF WallInv
  <1> QED BY <1>1, <1>2

\* A step of the other request of a page.
LEMMA ActWall ==
    ASSUME TypeOK, WallInv, UNCHANGED <<wall, lastID>>, NEW p \in Pages,
           UNCHANGED req \/ \E x : Becomes(Act(p), x)
    PROVE  WallInv'
  <1>1. \A q \in Pages : Poll(q) # Act(p) /\ Poll(q) \in Slots
    BY PageFacts DEF Poll, Act
  <1>2. \A q \in Pages : req'[Poll(q)] = req[Poll(q)]
    BY <1>1 DEF Becomes, TypeOK
  <1> QED BY <1>2, QuietWall

\* A step of a request that is no poll for messages after it.
LEMMA SlotWall ==
    ASSUME TypeOK, WallInv, UNCHANGED <<wall, lastID>>, NEW s \in Slots,
           NEW x, Becomes(s, x), x.pc \notin {"looking", "found"}
    PROVE  WallInv'
  <1>1. \A q \in Pages : Poll(q) \in Slots
    BY PageFacts
  <1>2. req'[s] = x /\ \A y \in Slots \ {s} : req'[y] = req[y]
    BY DEF Becomes, TypeOK
  <1>3. \A q \in Pages : \/ req'[Poll(q)] = req[Poll(q)]
                         \/ req'[Poll(q)].pc \notin {"looking", "found"}
    BY <1>1, <1>2
  <1> QED BY <1>3, QuietWall

LEMMA PageWall ==
    ASSUME TypeOK, WallInv, NEW p \in Pages,
           \/ \E l \in Lectures : JoinLecture(p, l) \/ StartFutureLecture(p, l)
           \/ JoinCommit(p) \/ JoinReply(p) \/ LeaveLecture(p) \/ CheckLecture(p)
           \/ EndLecture(p) \/ SendMessage(p)
    PROVE  WallInv'
  <1>1. UNCHANGED <<wall, lastID>>
    BY DEF JoinLecture, StartFutureLecture, JoinCommit, JoinReply, LeaveLecture,
           CheckLecture, EndLecture, SendMessage, chat
  <1>2. UNCHANGED req \/ \E x : Becomes(Act(p), x)
    BY DEF JoinLecture, StartFutureLecture, JoinCommit, JoinReply, LeaveLecture,
           CheckLecture, EndLecture, SendMessage, Begin
  <1> QED BY <1>1, <1>2, ActWall

LEMMA LeaveWall ==
    ASSUME TypeOK, WallInv, NEW s \in Slots, LeaveCommit(s) \/ ListReply(s) \/ Fail(s)
    PROVE  WallInv'
  <1>1. UNCHANGED <<wall, lastID>>
    BY DEF LeaveCommit, ListReply, Fail, chat
  <1>2. \E x : Becomes(s, x) /\ x.pc \notin {"looking", "found"}
    BY DEF LeaveCommit, ListReply, Fail, Idle
  <1> QED BY <1>1, <1>2, SlotWall

\* A poll asks after the last id, and brings the messages after it.
LEMMA PollWall ==
    ASSUME TypeOK, WallInv, NEW p \in Pages, GetUpdates(p) \/ LookForMessages(p)
    PROVE  WallInv'
  <1> DEFINE s == Poll(p)
  <1>0. s \in Slots
    BY PageFacts
  <1>1. UNCHANGED <<wall, lastID>>
    BY DEF GetUpdates, LookForMessages, chat
  <1>2. PICK x : /\ Becomes(s, x)
                 /\ x.pc = "looking" => x.last = lastID[p]
                 /\ x.pc = "found" => /\ Ascending(x.msgs)
                                      /\ \A i \in DOMAIN x.msgs : x.msgs[i] > lastID[p]
    <2>0. \A y : y = [pc |-> "list"] => y.pc = "list"
      OBVIOUS
    <2>1. CASE GetUpdates(p)
      <3> DEFINE l == CHOOSE y \in LecturesOf(UserOf[p]) : TRUE
      <3>1. \/ Becomes(s, [pc |-> "list"])
            \/ Becomes(s, [pc |-> "looking", l |-> l, last |-> lastID[p]])
            \/ Becomes(s, Emptying(l, None))
        BY <2>1 DEF GetUpdates, Begin
      <3>2. Emptying(l, None).pc = "leaving"
        BY DEF Emptying, Leaving
      <3> QED BY <3>1, <3>2
    <2>2. CASE LookForMessages(p)
      <3>1. req[s].last = lastID[p]
        BY <2>2 DEF LookForMessages, WallInv
      <3>2. \/ Becomes(s, [pc |-> "list"])
            \/ \E l : \E msgs \in MessagesAfter(l, lastID[p]) :
                 Becomes(s, [pc |-> "found", l |-> req[s].l, msgs |-> msgs])
        BY <2>2, <3>1 DEF LookForMessages
      <3>3. ASSUME NEW l, NEW msgs \in MessagesAfter(l, lastID[p])
            PROVE  /\ Ascending(msgs)
                   /\ \A i \in DOMAIN msgs : msgs[i] > lastID[p]
        BY FoundMessages DEF Ascending
      <3>4. CASE Becomes(s, [pc |-> "list"])
        BY <3>4
      <3>5. ASSUME NEW l, NEW msgs \in MessagesAfter(l, lastID[p]),
                   Becomes(s, [pc |-> "found", l |-> req[s].l, msgs |-> msgs])
            PROVE  \E x : /\ Becomes(s, x)
                          /\ x.pc = "looking" => x.last = lastID[p]
                          /\ x.pc = "found" => /\ Ascending(x.msgs)
                                               /\ \A i \in DOMAIN x.msgs : x.msgs[i] > lastID[p]
        <4> DEFINE y == [pc |-> "found", l |-> req[s].l, msgs |-> msgs]
        <4>1. y.pc = "found" /\ y.msgs = msgs
          OBVIOUS
        <4> HIDE DEF y
        <4>2. Becomes(s, y)
          BY <3>5 DEF y
        <4> QED BY <3>3, <4>1, <4>2
      <3> QED BY <3>2, <3>4, <3>5
    <2> QED BY <2>1, <2>2
  <1>3. req'[s] = x /\ \A y \in Slots \ {s} : req'[y] = req[y]
    BY <1>0, <1>2 DEF Becomes, TypeOK
  <1> SUFFICES ASSUME NEW q \in Pages
               PROVE  LET r == req'[Poll(q)]
                      IN  /\ Ascending(wall[q]) /\ \A i \in DOMAIN wall[q] : wall[q][i] =< lastID[q]
                          /\ r.pc = "looking" => r.last = lastID[q]
                          /\ r.pc = "found" => /\ Ascending(r.msgs)
                                               /\ \A i \in DOMAIN r.msgs : r.msgs[i] > lastID[q]
    BY <1>1 DEF WallInv, Poll, Ascending
  <1>4. CASE q = p
    BY <1>2, <1>3, <1>4 DEF WallInv
  <1>5. CASE q # p
    <2>1. Poll(q) \in Slots \ {s}
      BY <1>5, PageFacts DEF Poll
    <2> QED BY <1>3, <2>1 DEF WallInv
  <1> QED BY <1>4, <1>5

\* A sequence in order, followed by one in order whose elements are greater.
LEMMA AscendingConcat ==
    ASSUME NEW S \in SUBSET Int, NEW a \in Seq(S), NEW b \in Seq(S), NEW n \in Int,
           Ascending(a), Ascending(b),
           \A i \in DOMAIN a : a[i] =< n, \A i \in DOMAIN b : b[i] > n
    PROVE  /\ Ascending(a \o b)
           /\ b # << >> => \A i \in DOMAIN (a \o b) : (a \o b)[i] =< Last(b)
  <1> DEFINE c == a \o b
  <1>1. /\ Len(a) \in Nat /\ Len(b) \in Nat /\ Len(c) = Len(a) + Len(b)
        /\ DOMAIN a = 1..Len(a) /\ DOMAIN b = 1..Len(b) /\ DOMAIN c = 1..Len(c)
    BY ConcatProperties
  <1>2. (\A i \in DOMAIN a : a[i] \in Int) /\ (\A j \in DOMAIN b : b[j] \in Int)
    <2>1. (\A i \in 1..Len(a) : a[i] \in S) /\ (\A j \in 1..Len(b) : b[j] \in S)
      BY ElementOfSeq
    <2> QED BY <1>1, <2>1
  <1>3. ASSUME NEW i \in DOMAIN c
        PROVE  \/ i \in DOMAIN a /\ c[i] = a[i]
               \/ i - Len(a) \in DOMAIN b /\ c[i] = b[i - Len(a)] /\ i > Len(a)
    BY <1>1, ConcatProperties
  <1> HIDE DEF c
  <1>4. ASSUME NEW i \in DOMAIN c, NEW j \in DOMAIN c, i < j
        PROVE  c[i] < c[j]
    <2>0. i \in Int /\ j \in Int
      BY <1>1
    <2>1. CASE j \in DOMAIN a /\ c[j] = a[j]
      <3>1. i \in DOMAIN a /\ ~(i > Len(a))
        BY <1>1, <1>4, <2>0, <2>1
      <3>2. c[i] = a[i]
        BY <1>3, <3>1
      <3> QED BY <1>4, <2>1, <3>1, <3>2 DEF Ascending
    <2>2. CASE j - Len(a) \in DOMAIN b /\ c[j] = b[j - Len(a)] /\ j > Len(a)
      <3>1. CASE i \in DOMAIN a /\ c[i] = a[i]
        <4>1. a[i] =< n /\ b[j - Len(a)] > n /\ a[i] \in Int /\ b[j - Len(a)] \in Int
          BY <1>2, <2>2, <3>1
        <4> QED BY <2>2, <3>1, <4>1
      <3>2. CASE i - Len(a) \in DOMAIN b /\ c[i] = b[i - Len(a)] /\ i > Len(a)
        <4>1. i - Len(a) < j - Len(a)
          BY <1>1, <1>4, <2>0
        <4> QED BY <2>2, <3>2, <4>1 DEF Ascending
      <3> QED BY <1>3, <3>1, <3>2
    <2> QED BY <1>3, <2>1, <2>2
  <1>5. ASSUME b # << >>, NEW i \in DOMAIN c
        PROVE  c[i] =< Last(b)
    <2>1. Last(b) = b[Len(b)] /\ Len(b) \in DOMAIN b
      BY <1>1, <1>5 DEF Last
    <2>2. b[Len(b)] > n /\ b[Len(b)] \in Int
      BY <1>2, <2>1
    <2>3. CASE i \in DOMAIN a /\ c[i] = a[i]
      <3>1. a[i] =< n /\ a[i] \in Int
        BY <1>2, <2>3
      <3> QED BY <2>1, <2>2, <2>3, <3>1
    <2>4. CASE i - Len(a) \in DOMAIN b /\ c[i] = b[i - Len(a)]
      <3> DEFINE k == i - Len(a)
      <3>1. k \in 1..Len(b) /\ b[k] \in Int
        BY <1>1, <1>2, <2>4
      <3>2. k = Len(b) \/ k < Len(b)
        BY <1>1, <3>1
      <3>3. b[k] =< b[Len(b)]
        BY <1>1, <2>1, <2>2, <3>1, <3>2 DEF Ascending
      <3> QED BY <2>1, <2>4, <3>3
    <2> QED BY <1>3, <1>5, <2>3, <2>4
  <1> QED BY <1>4, <1>5 DEF Ascending, c

\* The messages of a reply go after those on the wall; a reply that is dropped
\* leaves the wall and the last id.
LEMMA GotWall ==
    ASSUME TypeOK, WallInv, NEW p \in Pages, PollOnce(p)
    PROVE  WallInv'
  <1> DEFINE s == Poll(p)
             msgs == req[s].msgs
  <1>0. s \in Slots /\ Message \subseteq Int /\ Idle.pc = "idle"
    BY PageFacts DEF Message, Idle
  <1>1. req[s].pc = "found" /\ Becomes(s, Idle)
    BY DEF PollOnce
  <1>2. CASE UNCHANGED <<wall, lastID>>
    BY <1>0, <1>1, <1>2, SlotWall
  <1>3. CASE Got(p, msgs)
    <2>1. /\ wall[p] \in Seq(Message) /\ msgs \in Seq(Message)
          /\ lastID[p] \in Int
      <3>1. lastID[p] \in Message \cup {-1}
        BY DEF TypeOK
      <3>2. msgs \in Seq(Message)
        BY <1>0, <1>1, RequestKinds DEF TypeOK
      <3>3. wall[p] \in Seq(Message)
        BY DEF TypeOK
      <3>4. -1 \in Int
        OBVIOUS
      <3> QED BY <1>0, <3>1, <3>2, <3>3, <3>4, Zenon
    <2>2. /\ Ascending(wall[p]) /\ \A i \in DOMAIN wall[p] : wall[p][i] =< lastID[p]
          /\ Ascending(msgs) /\ \A i \in DOMAIN msgs : msgs[i] > lastID[p]
      BY <1>1 DEF WallInv
    <2>3. /\ wall'[p] = wall[p] \o msgs
          /\ lastID'[p] = IF msgs = << >> THEN lastID[p] ELSE Last(msgs)
          /\ \A q \in Pages \ {p} : wall'[q] = wall[q] /\ lastID'[q] = lastID[q]
      BY <1>3 DEF Got, TypeOK
    <2>4. /\ Ascending(wall'[p])
          /\ \A i \in DOMAIN wall'[p] : wall'[p][i] =< lastID'[p]
      <3>1. CASE msgs = << >>
        <4>1. wall[p] \o msgs = wall[p]
          BY <2>1, <3>1, ConcatEmptySeq
        <4> QED BY <2>2, <2>3, <3>1, <4>1
      <3>2. CASE msgs # << >>
        <4>1. /\ Ascending(wall[p] \o msgs)
              /\ \A i \in DOMAIN (wall[p] \o msgs) : (wall[p] \o msgs)[i] =< Last(msgs)
          BY <1>0, <2>1, <2>2, <3>2, AscendingConcat
        <4> QED BY <2>3, <3>2, <4>1
      <3> QED BY <3>1, <3>2
    <2>5. req'[s].pc = "idle" /\ \A q \in Pages \ {p} : req'[Poll(q)] = req[Poll(q)]
      <3>1. \A q \in Pages \ {p} : Poll(q) \in Slots \ {s}
        BY PageFacts DEF Poll
      <3> QED BY <1>0, <1>1, <3>1 DEF Becomes, TypeOK
    <2> SUFFICES ASSUME NEW q \in Pages
                 PROVE  LET r == req'[Poll(q)]
                        IN  /\ Ascending(wall'[q])
                            /\ \A i \in DOMAIN wall'[q] : wall'[q][i] =< lastID'[q]
                            /\ r.pc = "looking" => r.last = lastID'[q]
                            /\ r.pc = "found" => /\ Ascending(r.msgs)
                                                 /\ \A i \in DOMAIN r.msgs : r.msgs[i] > lastID'[q]
      BY DEF WallInv, Poll, Ascending
    <2>6. CASE q = p
      BY <2>4, <2>5, <2>6
    <2>7. CASE q # p
      BY <2>3, <2>5, <2>7 DEF WallInv
    <2> QED BY <2>6, <2>7
  <1> QED BY <1>2, <1>3 DEF PollOnce

LEMMA ReloadWall ==
    ASSUME TypeOK, WallInv, NEW p \in Pages, Reload(p)
    PROVE  WallInv'
  <1>1. /\ req[Poll(p)].pc = "idle" /\ UNCHANGED req
        /\ wall' = [wall EXCEPT ![p] = << >>] /\ lastID' = [lastID EXCEPT ![p] = -1]
    BY DEF Reload, Idle
  <1>2. /\ wall'[p] = << >>
        /\ \A q \in Pages \ {p} : wall'[q] = wall[q] /\ lastID'[q] = lastID[q]
    BY <1>1 DEF TypeOK
  <1>3. Ascending(wall'[p]) /\ DOMAIN wall'[p] = {}
    BY <1>2 DEF Ascending
  <1> SUFFICES ASSUME NEW q \in Pages
               PROVE  LET r == req[Poll(q)]
                      IN  /\ Ascending(wall'[q])
                          /\ \A i \in DOMAIN wall'[q] : wall'[q][i] =< lastID'[q]
                          /\ r.pc = "looking" => r.last = lastID'[q]
                          /\ r.pc = "found" => /\ Ascending(r.msgs)
                                               /\ \A i \in DOMAIN r.msgs : r.msgs[i] > lastID'[q]
    BY <1>1 DEF WallInv, Poll, Ascending
  <1>4. CASE q = p
    BY <1>1, <1>3, <1>4
  <1>5. CASE q # p
    BY <1>2, <1>5 DEF WallInv
  <1> QED BY <1>4, <1>5

LEMMA StepWall ==
    ASSUME TypeOK, WallInv, [Next]_vars
    PROVE  WallInv'
  <1>0. ASSUME UNCHANGED <<wall, lastID, req>>
        PROVE  WallInv'
    BY <1>0, QuietWall
  <1>1. CASE UNCHANGED vars
    BY <1>0, <1>1 DEF vars
  <1>2. ASSUME NEW p \in Pages,
               \/ \E l \in Lectures : JoinLecture(p, l) \/ StartFutureLecture(p, l)
               \/ JoinCommit(p) \/ JoinReply(p) \/ LeaveLecture(p) \/ CheckLecture(p)
               \/ EndLecture(p) \/ SendMessage(p)
        PROVE  WallInv'
    BY <1>2, PageWall
  <1>3. ASSUME NEW p \in Pages,
               GetUpdates(p) \/ LookForMessages(p) \/ PollOnce(p) \/ Reload(p)
        PROVE  WallInv'
    BY <1>3, PollWall, GotWall, ReloadWall
  <1>4. ASSUME NEW s \in Slots, LeaveCommit(s) \/ ListReply(s) \/ Fail(s)
        PROVE  WallInv'
    BY <1>4, LeaveWall
  <1>5. ASSUME NEW m, SendCommit(m) \/ SendFail(m)
        PROVE  WallInv'
    BY <1>0, <1>5 DEF SendCommit, SendFail
  <1>6. ASSUME NEW l, TimeEnds(l) \/ ExtendLecture(l)
        PROVE  WallInv'
    BY <1>0, <1>6 DEF TimeEnds, ExtendLecture, chat
  <1> QED BY <1>1, <1>2, <1>3, <1>4, <1>5, <1>6 DEF Next

\* A wall shows a message once and the messages in the order of their ids, for
\* any pages, lectures and messages, whatever polls fail, are repeated or bring
\* their reply after the page has gone to another lecture.
THEOREM WallInOrder == Spec => []WallOrdered
  <1>1. Init => WallInv
    <2> SUFFICES ASSUME Init, NEW p \in Pages
                 PROVE  req[Poll(p)].pc = "idle" /\ wall[p] = << >>
      BY DEF WallInv, Ascending
    <2> QED BY PageFacts DEF Init, Idle
  <1>2. TypeOK /\ WallInv /\ [Next]_vars => WallInv'
    BY StepWall
  <1>3. WallInv => WallOrdered
    BY DEF WallInv, WallOrdered, Ascending
  <1> QED BY <1>1, <1>2, <1>3, TypeCorrect, PTL DEF Spec
=============================================================================
