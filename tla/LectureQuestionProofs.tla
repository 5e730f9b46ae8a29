----------------------- MODULE LectureQuestionProofs -----------------------
(***************************************************************************)
(* Proofs about LectureQuestion, for any students, pages, questions and    *)
(* answers, any time limit and any number of failures.                     *)
(***************************************************************************)
EXTENDS LectureQuestion, SequenceTheorems, TLAPS

Answered(u, q) == HasActivity("Useranswered", u, q)
Holding == {"noticed", "saving", "shown"}
Answering == {"answering", "saving"}

\* What a request adds before its commit, other than an answer, marks nobody as
\* having answered.
AddsNoMark ==
    \A s \in Slots : req[s].pc \in {"noticed", "shown"} =>
        \A u \in Users, q \in Questions : <<"Useranswered", u, q>> \notin req[s].adds

\* An answer that a request has found is still there.
RowFound ==
    \A s \in Slots : req[s].pc \in Answering /\ Owner(s) \in Students =>
        req[s].row = 0 \/ rows[Owner(s)][req[s].q] # << >>

\* A request that saves an answer has seen no mark, and the lock keeps it so.
SavingUnmarked ==
    \A s \in Slots : req[s].pc = "saving" => ~Answered(Owner(s), req[s].q)

Control == LockHeld /\ AddsNoMark /\ RowFound /\ SavingUnmarked
IInv == TypeOK /\ AnsweredHasAnswer /\ Control

-----------------------------------------------------------------------------
(* Types                                                                    *)

LEMMA SlotsType ==
    ASSUME NEW s \in Slots
    PROVE  Owner(s) \in Users /\ s # None
  BY ConstantsAssumption DEF Slots, Owner, Users

\* What a request holds at each of its steps.
LEMMA RequestShapes ==
    ASSUME NEW r \in Requests
    PROVE  /\ r.pc = "polled" => r \in
                [pc: {"polled"}, manual: BOOLEAN, rq: Questions \cup {None},
                 end: Ends \cup {None}, cur: Questions \cup {None}, pts: Questions \cup {None}]
           /\ r.pc = "noticed" => r \in [pc: {"noticed"}, adds: SUBSET Activities, reply: Replies]
           /\ r.pc = "reply" => r \in [pc: {"reply"}, reply: Replies]
           /\ r.pc = "closing" => r \in [pc: {"closing"}, q: Questions]
           /\ r.pc \in Answering => r \in
                [pc: {"answering", "saving"}, q: Questions, text: Texts, row: Nat]
           /\ r.pc = "asking" => r \in
                [pc: {"asking"}, q: Questions, dels: SUBSET Activities,
                 olds: SUBSET Questions, sps: SUBSET Questions, end: Ends]
           /\ r.pc = "ending" => r \in
                [pc: {"ending"}, q: Questions, end: Ends, dels: SUBSET Activities]
           /\ r.pc = "showing" => r \in
                [pc: {"showing"}, manual: {FALSE}, q: Questions, sps: SUBSET Questions,
                 rq: Questions \cup {None}, end: Ends \cup {None}, cur: Questions, pts: {None}]
           /\ r.pc = "shown" => r \in
                [pc: {"shown"}, q: Questions, sps: SUBSET Questions, adds: SUBSET Activities]
  <1> USE DEF Answering
  <1>1. \/ r \in {Idle, [pc |-> "answered"]}
        \/ r \in [pc: {"polled"}, manual: BOOLEAN, rq: Questions \cup {None},
                  end: Ends \cup {None}, cur: Questions \cup {None}, pts: Questions \cup {None}]
        \/ r \in [pc: {"noticed"}, adds: SUBSET Activities, reply: Replies]
        \/ r \in [pc: {"reply"}, reply: Replies]
        \/ r \in [pc: {"closing"}, q: Questions]
        \/ r \in [pc: {"answering", "saving"}, q: Questions, text: Texts, row: Nat]
        \/ r \in [pc: {"asking"}, q: Questions, dels: SUBSET Activities,
                  olds: SUBSET Questions, sps: SUBSET Questions, end: Ends]
        \/ r \in [pc: {"ending"}, q: Questions, end: Ends, dels: SUBSET Activities]
        \/ r \in [pc: {"showing"}, manual: {FALSE}, q: Questions, sps: SUBSET Questions,
                  rq: Questions \cup {None}, end: Ends \cup {None}, cur: Questions, pts: {None}]
        \/ r \in [pc: {"shown"}, q: Questions, sps: SUBSET Questions, adds: SUBSET Activities]
    BY DEF Requests
  <1>2. r \in {Idle, [pc |-> "answered"]} => r.pc \in {"idle", "answered"}
    BY DEF Idle
  <1> QED BY <1>1, <1>2

LEMMA AnsweringType ==
    ASSUME TypeOK, NEW s \in Slots, req[s].pc \in Answering
    PROVE  req[s] \in [pc: {"answering", "saving"}, q: Questions, text: Texts, row: Nat]
  <1>1. req[s] \in Requests
    BY DEF TypeOK
  <1> QED BY <1>1, RequestShapes

LEMMA BecomesType ==
    ASSUME req \in [Slots -> Requests], NEW s \in Slots, NEW r \in Requests, Becomes(s, r)
    PROVE  /\ req' \in [Slots -> Requests]
           /\ req'[s] = r
           /\ \A x \in Slots \ {s} : req'[x] = req[x]
  BY DEF Becomes

LEMMA SpendType ==
    ASSUME TypeOK, NEW what, Spend(what)
    PROVE  left' \in [{"acts", "answers", "faults", "reloads", "manual"} -> Nat]
  <1>1. \A w \in {"acts", "answers", "faults", "reloads", "manual"} :
            left[w] > 0 => left[w] - 1 \in Nat
    BY DEF TypeOK
  <1> QED BY <1>1 DEF Spend, TypeOK

\* The end time of a running question.
LEMMA RunningType ==
    ASSUME TypeOK, NEW q \in DOMAIN running
    PROVE  q \in Questions /\ running[q] \in Ends
  BY DEF TypeOK, Range

-----------------------------------------------------------------------------
(* The lock, for the three ways in which requests use it                    *)

NoNewMark == \A u \in Users, q \in Questions : Answered(u, q)' => Answered(u, q)
Elsewhere(s) == \A x \in Slots \ {s} : req'[x] = req[x]

\* A step that leaves the lock alone.
LEMMA QuietStep ==
    ASSUME IInv, NEW s \in Slots, Elsewhere(s), NoNewMark,
           UNCHANGED <<lock, rows>>,
           \/ req'[s] = req[s]
           \/ req[s].pc \notin Holding /\ req'[s].pc \notin Holding \cup {"answering"}
    PROVE  AnsweredHasAnswer' /\ Control'
  <1> USE DEF IInv, Control
  <1>1. LockHeld'
    BY DEF LockHeld, Elsewhere, Holding
  <1>2. AddsNoMark'
    BY DEF AddsNoMark, Elsewhere, Holding
  <1>3. RowFound'
    BY DEF RowFound, Elsewhere, Holding, Answering
  <1>4. SavingUnmarked'
    <2> SUFFICES ASSUME NEW x \in Slots, req'[x].pc = "saving"
                 PROVE  <<"Useranswered", Owner(x), req'[x].q>> \notin activity'
      BY DEF SavingUnmarked, Answered, HasActivity
    <2>1. req'[x] = req[x]
      BY DEF Elsewhere, Holding
    <2>2. Owner(x) \in Users /\ req[x].q \in Questions
      BY <2>1, SlotsType, AnsweringType DEF Answering
    <2>3. <<"Useranswered", Owner(x), req[x].q>> \notin activity
      BY <2>1 DEF SavingUnmarked, Answered, HasActivity
    <2> QED BY <2>1, <2>2, <2>3 DEF NoNewMark, Answered, HasActivity
  <1>5. AnsweredHasAnswer'
    BY DEF AnsweredHasAnswer, NoNewMark, Answered, HasActivity, Users
  <1> QED BY <1>1, <1>2, <1>3, <1>4, <1>5

\* A step that ends a transaction.
LEMMA ReleaseStep ==
    ASSUME IInv, NEW s \in Slots, Elsewhere(s), NoNewMark, Release(s), rows' = rows,
           req'[s].pc \notin Holding \cup {"answering"}
    PROVE  AnsweredHasAnswer' /\ Control'
  <1> USE DEF IInv, Control
  <1>1. LockHeld'
    <2>1. \A x \in Slots \ {s} : lock'[Owner(x)] = x <=> lock[Owner(x)] = x
      BY SlotsType DEF Release
    <2>2. lock'[Owner(s)] # s
      BY SlotsType DEF Release
    <2>3. \A u \in Users : lock'[u] # None => lock'[u] = lock[u]
      BY DEF Release
    <2> QED BY <2>1, <2>2, <2>3 DEF LockHeld, Elsewhere, Holding
  <1>2. AddsNoMark'
    BY DEF AddsNoMark, Elsewhere, Holding
  <1>3. RowFound'
    BY DEF RowFound, Elsewhere, Holding, Answering
  <1>4. SavingUnmarked'
    <2> SUFFICES ASSUME NEW x \in Slots, req'[x].pc = "saving"
                 PROVE  <<"Useranswered", Owner(x), req'[x].q>> \notin activity'
      BY DEF SavingUnmarked, Answered, HasActivity
    <2>1. req'[x] = req[x]
      BY DEF Elsewhere, Holding
    <2>2. Owner(x) \in Users /\ req[x].q \in Questions
      BY <2>1, SlotsType, AnsweringType DEF Answering
    <2>3. <<"Useranswered", Owner(x), req[x].q>> \notin activity
      BY <2>1 DEF SavingUnmarked, Answered, HasActivity
    <2> QED BY <2>1, <2>2, <2>3 DEF NoNewMark, Answered, HasActivity
  <1>5. AnsweredHasAnswer'
    BY DEF AnsweredHasAnswer, NoNewMark, Answered, HasActivity, Users
  <1> QED BY <1>1, <1>2, <1>3, <1>4, <1>5

\* A step that takes the lock and writes nothing.
LEMMA AcquireStep ==
    ASSUME IInv, NEW s \in Slots, Elsewhere(s), Acquire(s), UNCHANGED <<activity, rows>>,
           req'[s].pc \in Holding,
           req'[s].pc \in {"noticed", "shown"} =>
               \A u \in Users, q \in Questions : <<"Useranswered", u, q>> \notin req'[s].adds,
           req'[s].pc = "saving" =>
               /\ req[s].pc = "answering"
               /\ req'[s].q = req[s].q /\ req'[s].row = req[s].row
               /\ ~Answered(Owner(s), req[s].q)
    PROVE  AnsweredHasAnswer' /\ Control'
  <1> USE DEF IInv, Control
  <1>1. LockHeld'
    <2>1. lock' = [lock EXCEPT ![Owner(s)] = s] /\ lock[Owner(s)] = None
      BY DEF Acquire
    <2>2. \A x \in Slots : Owner(x) \in Users /\ x # None
      BY SlotsType
    <2>3. lock \in [Users -> Slots \cup {None}]
      BY DEF TypeOK
    <2>4. ASSUME NEW x \in Slots
          PROVE  req'[x].pc \in Holding <=> lock'[Owner(x)] = x
      <3>1. CASE x = s
        BY <3>1, <2>1, <2>2, <2>3
      <3>2. CASE x # s
        <4>1. req'[x] = req[x] /\ lock'[Owner(x)] = x <=> lock[Owner(x)] = x
          BY <3>2, <2>1, <2>2, <2>3 DEF Elsewhere
        <4>2. req'[x] = req[x]
          BY <3>2 DEF Elsewhere
        <4>3. lock'[Owner(x)] = x <=> lock[Owner(x)] = x
          BY <3>2, <2>1, <2>2, <2>3
        <4> QED BY <4>2, <4>3 DEF LockHeld, Holding
      <3> QED BY <3>1, <3>2
    <2>5. \A u \in Users : lock'[u] # None => Owner(lock'[u]) = u
      BY <2>1, <2>2, <2>3 DEF LockHeld
    <2> QED BY <2>4, <2>5 DEF LockHeld, Holding
  <1>2. AddsNoMark'
    BY DEF AddsNoMark, Elsewhere
  <1>3. RowFound'
    BY DEF RowFound, Elsewhere, Holding, Answering
  <1>4. SavingUnmarked'
    BY DEF SavingUnmarked, Elsewhere, Answered, HasActivity
  <1>5. AnsweredHasAnswer'
    BY DEF AnsweredHasAnswer, HasActivity
  <1> QED BY <1>1, <1>2, <1>3, <1>4, <1>5
\* A step that changes no request and no table.
LEMMA StillStep ==
    ASSUME IInv, UNCHANGED <<lock, rows, activity, req>>
    PROVE  AnsweredHasAnswer' /\ Control'
  BY DEF IInv, Control, LockHeld, AddsNoMark, RowFound, SavingUnmarked, Answered, HasActivity,
     AnsweredHasAnswer

-----------------------------------------------------------------------------
(* The actions                                                              *)

LEMMA StudentSlots ==
    ASSUME NEW t \in StudentTabs
    PROVE  /\ <<t, "poll">> \in Slots /\ <<t, "act">> \in Slots
           /\ Owner(<<t, "poll">>) = UserOf[t] /\ Owner(<<t, "act">>) = UserOf[t]
           /\ UserOf[t] \in Students
  BY ConstantsAssumption DEF Slots, Owner

LEMMA LecturerSlots ==
    ASSUME NEW t \in LecturerTabs
    PROVE  <<t, "act">> \in Slots
  BY DEF Slots

\* Requests that begin hold no lock yet.
LEMMA BeginStep ==
    ASSUME IInv, NEW s \in Slots, NEW r \in Requests, Begin(s, r),
           UNCHANGED <<lock, rows, activity>>, r.pc \notin Holding \cup {"answering"}
    PROVE  AnsweredHasAnswer' /\ Control' /\ req' \in [Slots -> Requests]
  <1>1. req' \in [Slots -> Requests] /\ req'[s] = r /\ Elsewhere(s)
    BY BecomesType DEF Begin, IInv, TypeOK, Elsewhere
  <1>2. req[s].pc = "idle"
    BY DEF Begin, Idle
  <1>3. NoNewMark
    BY DEF NoNewMark, Answered, HasActivity
  <1> QED BY <1>1, <1>2, <1>3, QuietStep DEF Holding

LEMMA TickOK ==
    ASSUME IInv, Tick
    PROVE  IInv'
  <1>1. TypeOK'
    BY ConstantsAssumption DEF IInv, TypeOK, Tick, tables, page
  <1>2. AnsweredHasAnswer' /\ Control'
    BY StillStep DEF Tick, tables
  <1> QED BY <1>1, <1>2 DEF IInv

\* A question read from the running ones, and its end.
LEMMA AnyRunning ==
    ASSUME TypeOK, NEW rq \in AnyOf(DOMAIN running)
    PROVE  rq \in Questions \cup {None} /\ EndOf(rq) \in Ends \cup {None}
  <1>1. CASE rq = None
    BY <1>1 DEF EndOf
  <1>2. CASE rq # None
    <2>1. rq \in DOMAIN running
      BY <1>2 DEF AnyOf
    <2> QED BY <1>2, <2>1, RunningType DEF EndOf
  <1> QED BY <1>1, <1>2

LEMMA CurrentType ==
    ASSUME TypeOK, NEW t \in StudentTabs, NEW result
    PROVE  CurrentId(t, result) \in Questions \cup {None}
  BY DEF TypeOK, CurrentId

LEMMA GetUpdatesOK ==
    ASSUME IInv, NEW t \in StudentTabs, GetUpdates(t)
    PROVE  IInv'
  <1>0. TypeOK /\ <<t, "poll">> \in Slots
    BY StudentSlots DEF IInv
  <1>1. PICK rq \in AnyOf(DOMAIN running) :
            \/ Begin(<<t, "poll">>, [pc |-> "reply", reply |-> [kind |-> "pointsclosed"]])
            \/ Begin(<<t, "poll">>, [pc |-> "polled", manual |-> FALSE, rq |-> rq,
                      end |-> EndOf(rq), cur |-> CurrentId(t, FALSE), pts |-> CurrentId(t, TRUE)])
    BY DEF GetUpdates
  <1>2. UNCHANGED <<now, tables, lock, page, left>>
    BY DEF GetUpdates
  <1>3. AnsweredHasAnswer' /\ Control' /\ req' \in [Slots -> Requests]
    <2>1. [pc |-> "reply", reply |-> [kind |-> "pointsclosed"]] \in Requests
      BY DEF Requests, Replies
    <2>2. [pc |-> "polled", manual |-> FALSE, rq |-> rq, end |-> EndOf(rq),
           cur |-> CurrentId(t, FALSE), pts |-> CurrentId(t, TRUE)] \in Requests
      BY <1>0, AnyRunning, CurrentType DEF Requests
    <2> QED BY <1>0, <1>1, <1>2, <2>1, <2>2, BeginStep DEF tables, Holding
  <1>4. TypeOK'
    BY <1>0, <1>2, <1>3 DEF TypeOK, tables, page
  <1> QED BY <1>3, <1>4 DEF IInv
LEMMA GetQuestionManuallyOK ==
    ASSUME IInv, NEW t \in StudentTabs, GetQuestionManually(t)
    PROVE  IInv'
  <1>0. TypeOK /\ <<t, "act">> \in Slots
    BY StudentSlots DEF IInv
  <1>1. PICK rq \in AnyOf(DOMAIN running) :
            Begin(<<t, "act">>, [pc |-> "polled", manual |-> TRUE, rq |-> rq,
                                 end |-> EndOf(rq), cur |-> None, pts |-> None])
    BY DEF GetQuestionManually
  <1>2. UNCHANGED <<now, tables, lock, page>> /\ Spend("manual")
    BY DEF GetQuestionManually
  <1>3. [pc |-> "polled", manual |-> TRUE, rq |-> rq, end |-> EndOf(rq),
         cur |-> None, pts |-> None] \in Requests
    BY <1>0, AnyRunning DEF Requests
  <1>4. AnsweredHasAnswer' /\ Control' /\ req' \in [Slots -> Requests]
    BY <1>0, <1>1, <1>2, <1>3, BeginStep DEF tables, Holding
  <1>5. TypeOK'
    BY <1>0, <1>2, <1>4, SpendType DEF TypeOK, tables, page
  <1> QED BY <1>4, <1>5 DEF IInv

\* get_new_question notes and announces questions, and marks nobody as having
\* answered.
LEMMA NewQuestionType ==
    ASSUME TypeOK, NEW u \in Users, NEW points \in Questions \cup {None}, NEW r,
           r.rq \in Questions \cup {None}
    PROVE  /\ NewQuestion(u, r, points).adds \in SUBSET Activities
           /\ NewQuestion(u, r, points).reply \in Replies
           /\ \A v \in Users, q \in Questions :
                  <<"Useranswered", v, q>> \notin NewQuestion(u, r, points).adds
  <1> DEFINE stored(x) == u \in Students /\ rows[u][x] # << >>
             news(kind, x, reply) == [adds |-> {<<kind, u, x>>}, reply |-> reply]
             good(n) == /\ n.adds \in SUBSET Activities /\ n.reply \in Replies
                        /\ \A v \in Users, q \in Questions : <<"Useranswered", v, q>> \notin n.adds
  <1>1. ASSUME NEW kind \in {"Usershown", "Pointsshown"}, NEW x \in Questions, NEW reply \in Replies
        PROVE  good(news(kind, x, reply))
    BY <1>1 DEF Activities, Kinds
  <1>2. ASSUME NEW kind \in {"question", "result"}, NEW x \in Questions
        PROVE  Data(kind, x) \in Replies
    BY <1>2 DEF Data, Replies, TypeOK
  <1>3. Nothing \in Replies
    BY DEF Replies
  <1>4. good(news("Usershown", r.rq, IF stored(r.rq) THEN Nothing ELSE Data("question", r.rq)))
        \/ r.rq = None
    BY <1>1, <1>2, <1>3
  <1>5. good(news("Pointsshown", points, IF stored(points) THEN Data("result", points) ELSE Nothing))
        \/ points = None
    BY <1>1, <1>2, <1>3
  <1>6. good([adds |-> {}, reply |-> Nothing])
    BY <1>3
  <1>7. \/ /\ NewQuestion(u, r, points)
              = news("Usershown", r.rq, IF stored(r.rq) THEN Nothing ELSE Data("question", r.rq))
           /\ r.rq # None
        \/ /\ NewQuestion(u, r, points)
              = news("Pointsshown", points, IF stored(points) THEN Data("result", points) ELSE Nothing)
           /\ points # None
        \/ NewQuestion(u, r, points) = [adds |-> {}, reply |-> Nothing]
    BY DEF NewQuestion
  <1> QED BY <1>4, <1>5, <1>6, <1>7

LEMMA AcquireType ==
    ASSUME TypeOK, NEW s \in Slots, Acquire(s)
    PROVE  lock' \in [Users -> Slots \cup {None}]
  BY DEF TypeOK, Acquire

LEMMA ReleaseType ==
    ASSUME TypeOK, NEW s \in Slots, Release(s)
    PROVE  lock' \in [Users -> Slots \cup {None}]
  BY DEF TypeOK, Release

LEMMA AnyPoints ==
    ASSUME TypeOK, NEW points \in AnyOf(shown)
    PROVE  points \in Questions \cup {None}
  BY DEF TypeOK, AnyOf

LEMMA GetNewQuestionOK ==
    ASSUME IInv, NEW s \in Slots, GetNewQuestion(s)
    PROVE  IInv'
  <1>0. TypeOK /\ req[s] \in Requests /\ req[s].pc = "polled" /\ Owner(s) \in Users
    BY SlotsType DEF IInv, TypeOK, GetNewQuestion
  <1>1. req[s].rq \in Questions \cup {None} /\ req[s].manual \in BOOLEAN
    BY <1>0, RequestShapes
  <1>2. PICK points \in AnyOf(shown) :
          LET new == NewQuestion(Owner(s), req[s], points)
          IN  IF req[s].manual
              THEN /\ lock[Owner(s)] = None
                   /\ Becomes(s, [pc |-> "reply", reply |-> new.reply])
                   /\ UNCHANGED lock
              ELSE /\ Acquire(s)
                   /\ Becomes(s, [pc |-> "noticed", adds |-> new.adds, reply |-> new.reply])
    BY DEF GetNewQuestion
  <1> DEFINE new == NewQuestion(Owner(s), req[s], points)
  <1>3. /\ new.adds \in SUBSET Activities /\ new.reply \in Replies
        /\ \A v \in Users, q \in Questions : <<"Useranswered", v, q>> \notin new.adds
    BY <1>0, <1>1, AnyPoints, NewQuestionType
  <1>4. UNCHANGED <<now, tables, page, left>>
    BY DEF GetNewQuestion
  <1>5. CASE req[s].manual
    <2>1. [pc |-> "reply", reply |-> new.reply] \in Requests
      BY <1>3 DEF Requests
    <2>2. req' \in [Slots -> Requests] /\ req'[s].pc = "reply" /\ Elsewhere(s)
      BY <1>0, <1>2, <1>5, <2>1, BecomesType DEF TypeOK, Elsewhere
    <2>3. AnsweredHasAnswer' /\ Control'
      BY <1>0, <1>2, <1>4, <1>5, <2>2, QuietStep
         DEF tables, NoNewMark, Answered, HasActivity, Holding
    <2>4. TypeOK'
      BY <1>0, <1>2, <1>4, <1>5, <2>2 DEF TypeOK, tables, page
    <2> QED BY <2>3, <2>4 DEF IInv
  <1>6. CASE ~req[s].manual
    <2>1. [pc |-> "noticed", adds |-> new.adds, reply |-> new.reply] \in Requests
      BY <1>3 DEF Requests
    <2>2. /\ req' \in [Slots -> Requests] /\ Elsewhere(s)
          /\ req'[s].pc = "noticed" /\ req'[s].adds = new.adds
      BY <1>0, <1>2, <1>6, <2>1, BecomesType DEF TypeOK, Elsewhere
    <2>3. AnsweredHasAnswer' /\ Control'
      BY <1>2, <1>3, <1>4, <1>6, <2>2, AcquireStep DEF tables, Holding
    <2>4. TypeOK'
      BY <1>0, <1>2, <1>4, <1>6, <2>2, AcquireType DEF TypeOK, tables, page
    <2> QED BY <2>3, <2>4 DEF IInv
  <1> QED BY <1>5, <1>6

LEMMA GetUpdatesCommitOK ==
    ASSUME IInv, NEW s \in Slots, GetUpdatesCommit(s)
    PROVE  IInv'
  <1>0. TypeOK /\ req[s] \in Requests /\ req[s].pc = "noticed"
    BY DEF IInv, TypeOK, GetUpdatesCommit
  <1>1. req[s].adds \in SUBSET Activities /\ req[s].reply \in Replies
    BY <1>0, RequestShapes
  <1>2. [pc |-> "reply", reply |-> req[s].reply] \in Requests
    BY <1>1 DEF Requests
  <1>3. req' \in [Slots -> Requests] /\ req'[s].pc = "reply" /\ Elsewhere(s)
    BY <1>0, <1>2, BecomesType DEF TypeOK, Elsewhere, GetUpdatesCommit
  <1>4. NoNewMark
    BY <1>0 DEF IInv, Control, AddsNoMark, NoNewMark, Answered, HasActivity, GetUpdatesCommit
  <1>5. AnsweredHasAnswer' /\ Control'
    BY <1>3, <1>4, ReleaseStep DEF GetUpdatesCommit, Holding
  <1>6. TypeOK'
    BY <1>0, <1>1, <1>3, ReleaseType DEF TypeOK, GetUpdatesCommit, page
  <1> QED BY <1>5, <1>6 DEF IInv
Dialogs == [q: Questions, ask: Nat, result: BOOLEAN] \cup {None}

LEMMA SetDialogType ==
    ASSUME TypeOK, NEW t, NEW d \in Dialogs, NEW stored \in Questions \cup {None},
           SetDialog(t, d, stored)
    PROVE  /\ dialog' \in [StudentTabs -> Dialogs]
           /\ storage' \in [Browsers -> Questions \cup {None}]
  BY DEF TypeOK, SetDialog, Dialogs

LEMMA CloseDialogType ==
    ASSUME TypeOK, NEW t, CloseDialog(t)
    PROVE  /\ dialog' \in [StudentTabs -> Dialogs]
           /\ storage' \in [Browsers -> Questions \cup {None}]
  <1>1. None \in Dialogs
    BY DEF Dialogs
  <1> QED BY <1>1, SetDialogType DEF CloseDialog

LEMMA ShowQuestionType ==
    ASSUME TypeOK, NEW t,
           NEW data \in [kind: {"question", "result"}, q: Questions, ask: Nat],
           ShowQuestion(t, data)
    PROVE  /\ dialog' \in [StudentTabs -> Dialogs]
           /\ storage' \in [Browsers -> Questions \cup {None}]
  <1> DEFINE same == /\ dialog[t] # None
                     /\ dialog[t].q = data.q /\ dialog[t].ask = data.ask
             result == data.kind = "result" \/ (same /\ dialog[t].result)
  <1>1. result \in BOOLEAN
    OBVIOUS
  <1>2. [q |-> data.q, ask |-> data.ask, result |-> result] \in Dialogs
    <2> HIDE DEF result
    <2> QED BY <1>1 DEF Dialogs
  <1> QED BY <1>2, SetDialogType DEF ShowQuestion

LEMMA PollOnceOK ==
    ASSUME IInv, NEW s \in Slots, PollOnce(s)
    PROVE  IInv'
  <1>0. TypeOK /\ req[s] \in Requests /\ req[s].pc = "reply"
    BY DEF IInv, TypeOK, PollOnce
  <1>1. req[s].reply \in Replies
    BY <1>0, RequestShapes
  <1>2. Idle \in Requests
    BY DEF Requests
  <1>3. req' \in [Slots -> Requests] /\ req'[s].pc = "idle" /\ Elsewhere(s)
    BY <1>0, <1>2, BecomesType DEF TypeOK, Elsewhere, PollOnce, Idle
  <1>4. AnsweredHasAnswer' /\ Control'
    BY <1>0, <1>3, QuietStep
       DEF PollOnce, tables, NoNewMark, Answered, HasActivity, Holding
  <1>5. dialog' \in [StudentTabs -> Dialogs] /\ storage' \in [Browsers -> Questions \cup {None}]
    <2>1. \/ UNCHANGED page
          \/ CloseDialog(s[1])
          \/ req[s].reply.kind \in {"question", "result"} /\ ShowQuestion(s[1], req[s].reply)
      BY DEF PollOnce
    <2>2. req[s].reply.kind \in {"question", "result"} =>
              req[s].reply \in [kind: {"question", "result"}, q: Questions, ask: Nat]
      BY <1>1 DEF Replies, Nothing
    <2> QED BY <1>0, <2>1, <2>2, CloseDialogType, ShowQuestionType DEF page, TypeOK, Dialogs
  <1>6. TypeOK'
    BY <1>0, <1>3, <1>5 DEF TypeOK, PollOnce, tables, Dialogs
  <1> QED BY <1>4, <1>6 DEF IInv

LEMMA CloseOK ==
    ASSUME IInv, NEW t \in StudentTabs, Close(t)
    PROVE  IInv'
  <1>0. TypeOK /\ <<t, "act">> \in Slots
    BY StudentSlots DEF IInv
  <1>1. dialog[t] \in [q: Questions, ask: Nat, result: BOOLEAN]
    BY <1>0 DEF TypeOK, Close
  <1>2. [pc |-> "closing", q |-> dialog[t].q] \in Requests
    BY <1>1 DEF Requests
  <1>3. AnsweredHasAnswer' /\ Control' /\ req' \in [Slots -> Requests]
    <2>1. CASE dialog[t].result
      BY <1>0, <1>2, <2>1, BeginStep DEF Close, tables, Holding
    <2>2. CASE ~dialog[t].result
      BY <1>0, <2>2, StillStep DEF Close, tables, TypeOK
    <2> QED BY <2>1, <2>2
  <1>4. TypeOK'
    BY <1>0, <1>3, CloseDialogType DEF TypeOK, Close, tables, Dialogs
  <1> QED BY <1>3, <1>4 DEF IInv

LEMMA ClosePointsOK ==
    ASSUME IInv, NEW s \in Slots, ClosePoints(s)
    PROVE  IInv'
  <1>0. TypeOK /\ req[s] \in Requests /\ req[s].pc = "closing" /\ Owner(s) \in Users
    BY SlotsType DEF IInv, TypeOK, ClosePoints
  <1>1. req[s].q \in Questions /\ Idle \in Requests
    BY <1>0, RequestShapes DEF Requests
  <1>2. req' \in [Slots -> Requests] /\ req'[s].pc = "idle" /\ Elsewhere(s)
    BY <1>0, <1>1, BecomesType DEF TypeOK, Elsewhere, ClosePoints, Idle
  <1>3. NoNewMark
    BY DEF ClosePoints, NoNewMark, Answered, HasActivity
  <1>4. AnsweredHasAnswer' /\ Control'
    BY <1>0, <1>2, <1>3, QuietStep DEF ClosePoints, Holding
  <1>5. activity' \subseteq Activities
    BY <1>0, <1>1 DEF ClosePoints, TypeOK, Activities, Kinds
  <1>6. TypeOK'
    BY <1>0, <1>2, <1>5 DEF TypeOK, ClosePoints, page
  <1> QED BY <1>4, <1>6 DEF IInv

LEMMA ReloadOK ==
    ASSUME IInv, NEW t \in StudentTabs, Reload(t)
    PROVE  IInv'
  <1>1. AnsweredHasAnswer' /\ Control'
    BY StillStep DEF Reload, tables
  <1>2. TypeOK'
    BY SpendType DEF IInv, TypeOK, Reload, tables
  <1> QED BY <1>1, <1>2 DEF IInv

LEMMA AnswerReplyOK ==
    ASSUME IInv, NEW t \in StudentTabs, AnswerReply(t)
    PROVE  IInv'
  <1>0. TypeOK /\ <<t, "act">> \in Slots /\ Idle \in Requests
    BY StudentSlots DEF IInv, Requests
  <1>1. req' \in [Slots -> Requests] /\ req'[<<t, "act">>].pc = "idle" /\ Elsewhere(<<t, "act">>)
    BY <1>0, BecomesType DEF TypeOK, Elsewhere, AnswerReply, Idle
  <1>2. AnsweredHasAnswer' /\ Control'
    BY <1>0, <1>1, QuietStep
       DEF AnswerReply, tables, NoNewMark, Answered, HasActivity, Holding
  <1>3. dialog' \in [StudentTabs -> Dialogs] /\ storage' \in [Browsers -> Questions \cup {None}]
    BY <1>0, CloseDialogType DEF AnswerReply, page, TypeOK, Dialogs
  <1>4. TypeOK'
    BY <1>0, <1>1, <1>3 DEF TypeOK, AnswerReply, tables, Dialogs
  <1> QED BY <1>2, <1>4 DEF IInv
LEMMA AnswerToQuestionOK ==
    ASSUME IInv, NEW t \in StudentTabs, AnswerToQuestion(t)
    PROVE  IInv'
  <1> DEFINE s == <<t, "act">>
             q == dialog[t].q
             mine == rows[UserOf[t]][q]
  <1>0. TypeOK /\ s \in Slots /\ Owner(s) = UserOf[t] /\ UserOf[t] \in Students
    BY StudentSlots DEF IInv
  <1>1. q \in Questions
    BY <1>0 DEF TypeOK, AnswerToQuestion
  <1>2. PICK text \in Texts, row \in (IF mine = << >> THEN {0} ELSE DOMAIN mine) :
            Begin(s, [pc |-> "answering", q |-> q, text |-> text, row |-> row])
    BY DEF AnswerToQuestion
  <1>3. UNCHANGED <<now, tables, lock, page>> /\ Spend("answers")
    BY DEF AnswerToQuestion
  <1>4. row \in Nat /\ (row = 0 \/ mine # << >>)
    <2>1. mine \in Seq(Texts)
      BY <1>0, <1>1 DEF TypeOK
    <2>2. DOMAIN mine = 1..Len(mine) /\ Len(mine) \in Nat
      BY <2>1
    <2> QED BY <2>2
  <1>5. [pc |-> "answering", q |-> q, text |-> text, row |-> row] \in Requests
    BY <1>1, <1>4 DEF Requests
  <1>6. /\ req' \in [Slots -> Requests] /\ Elsewhere(s) /\ req[s].pc = "idle"
        /\ req'[s] = [pc |-> "answering", q |-> q, text |-> text, row |-> row]
    BY <1>0, <1>2, <1>5, BecomesType DEF TypeOK, Elsewhere, Begin, Idle
  <1>7. LockHeld'
    BY <1>3, <1>6 DEF IInv, Control, LockHeld, Elsewhere
  <1>8. AddsNoMark'
    <2>1. \A x \in Slots : req'[x].pc \in {"noticed", "shown"} => req'[x] = req[x]
      BY <1>6 DEF Elsewhere
    <2> QED BY <2>1 DEF IInv, Control, AddsNoMark
  <1>9. RowFound'
    <2> SUFFICES ASSUME NEW x \in Slots, req'[x].pc \in Answering, Owner(x) \in Students
                 PROVE  req'[x].row = 0 \/ rows[Owner(x)][req'[x].q] # << >>
      BY <1>3 DEF RowFound, tables
    <2>1. CASE x = s
      BY <2>1, <1>0, <1>4, <1>6
    <2>2. CASE x # s
      BY <2>2, <1>6 DEF IInv, Control, RowFound, Elsewhere
    <2> QED BY <2>1, <2>2
  <1>10. SavingUnmarked'
    <2>1. \A x \in Slots : req'[x].pc = "saving" => req'[x] = req[x]
      BY <1>6 DEF Elsewhere
    <2> QED BY <2>1, <1>3 DEF IInv, Control, SavingUnmarked, Answered, HasActivity, tables
  <1>11. AnsweredHasAnswer'
    BY <1>3 DEF IInv, AnsweredHasAnswer, HasActivity, tables
  <1>12. TypeOK'
    BY <1>0, <1>3, <1>6, SpendType DEF TypeOK, tables, page
  <1> QED BY <1>7, <1>8, <1>9, <1>10, <1>11, <1>12 DEF IInv, Control

LEMMA AnswerUnderLockOK ==
    ASSUME IInv, NEW s \in Slots, AnswerUnderLock(s)
    PROVE  IInv'
  <1>0. TypeOK /\ req[s] \in Requests /\ req[s].pc = "answering"
    BY DEF IInv, TypeOK, AnswerUnderLock
  <1>1. req[s] \in [pc: {"answering", "saving"}, q: Questions, text: Texts, row: Nat]
    BY <1>0, AnsweringType DEF Answering
  <1>2. UNCHANGED <<now, tables, page, left>>
    BY DEF AnswerUnderLock
  <1>3. CASE Refused(s)
    <2>1. [pc |-> "answered"] \in Requests
      BY DEF Requests
    <2>2. req' \in [Slots -> Requests] /\ req'[s].pc = "answered" /\ Elsewhere(s) /\ lock' = lock
      BY <1>0, <1>3, <2>1, BecomesType DEF TypeOK, Elsewhere, AnswerUnderLock
    <2>3. AnsweredHasAnswer' /\ Control'
      BY <1>0, <1>2, <2>2, QuietStep DEF tables, NoNewMark, Answered, HasActivity, Holding
    <2>4. TypeOK'
      BY <1>0, <1>2, <2>2 DEF TypeOK, tables, page
    <2> QED BY <2>3, <2>4 DEF IInv
  <1>4. CASE ~Refused(s)
    <2>1. [req[s] EXCEPT !.pc = "saving"] \in Requests
      BY <1>1 DEF Requests
    <2>2. /\ req' \in [Slots -> Requests] /\ Elsewhere(s) /\ Acquire(s)
          /\ req'[s] = [req[s] EXCEPT !.pc = "saving"]
      BY <1>0, <1>4, <2>1, BecomesType DEF TypeOK, Elsewhere, AnswerUnderLock
    <2>3. req'[s].pc = "saving" /\ req'[s].q = req[s].q /\ req'[s].row = req[s].row
      BY <1>1, <2>2
    <2>4. ~Answered(Owner(s), req[s].q)
      BY <1>4 DEF Refused, Answered
    <2>5. AnsweredHasAnswer' /\ Control'
      BY <1>0, <1>2, <2>2, <2>3, <2>4, AcquireStep DEF tables, Holding
    <2>6. TypeOK'
      BY <1>0, <1>2, <2>2, AcquireType DEF TypeOK, tables, page
    <2> QED BY <2>5, <2>6 DEF IInv
  <1> QED BY <1>3, <1>4

\* The rows of a user for a question after an answer.
Saved(mine, r) == IF r.row = 0 THEN Append(mine, r.text) ELSE [mine EXCEPT ![r.row] = r.text]

LEMMA SavedType ==
    ASSUME NEW mine \in Seq(Texts),
           NEW r \in [pc: {"answering", "saving"}, q: Questions, text: Texts, row: Nat],
           r.row = 0 \/ mine # << >>
    PROVE  Saved(mine, r) \in Seq(Texts) /\ Saved(mine, r) # << >>
  <1>0. r.text \in Texts
    OBVIOUS
  <1>1. CASE r.row = 0
    <2>1. Append(mine, r.text) \in Seq(Texts) /\ Len(Append(mine, r.text)) = Len(mine) + 1
          /\ Len(mine) \in Nat
      BY <1>0
    <2>2. Append(mine, r.text) # << >>
      BY <2>1
    <2> QED BY <1>1, <2>1, <2>2 DEF Saved
  <1>2. CASE r.row # 0
    <2> DEFINE m == [mine EXCEPT ![r.row] = r.text]
    <2>1. mine \in [1..Len(mine) -> Texts] /\ Len(mine) \in Nat \ {0}
      BY <1>2, EmptySeq
    <2>2. m \in [1..Len(mine) -> Texts]
      BY <1>0, <2>1
    <2>3. m \in Seq(Texts)
      <3> HIDE DEF m
      <3> QED BY <2>1, <2>2, SeqDef
    <2>4. 1 \in DOMAIN m
      BY <2>1, <2>2
    <2>5. m # << >>
      BY <2>4
    <2> QED BY <1>2, <2>3, <2>5 DEF Saved
  <1> QED BY <1>1, <1>2

\* What a saved answer changes: one cell of the table.
LEMMA AnswerCommitRows ==
    ASSUME IInv, NEW s \in Slots, AnswerCommit(s)
    PROVE  /\ req[s] \in [pc: {"answering", "saving"}, q: Questions, text: Texts, row: Nat]
           /\ \A u \in Students, q \in Questions :
                rows'[u][q] = IF u = Owner(s) /\ q = req[s].q
                              THEN Saved(rows[u][q], req[s]) ELSE rows[u][q]
           /\ \A u \in Students, q \in Questions :
                /\ rows'[u][q] \in Seq(Texts)
                /\ rows[u][q] # << >> \/ <<u, q>> = <<Owner(s), req[s].q>> => rows'[u][q] # << >>
           /\ DOMAIN rows' = Students /\ \A u \in Students : DOMAIN rows'[u] = Questions
  <1>0. TypeOK /\ req[s].pc = "saving"
    BY DEF IInv, AnswerCommit
  <1>1. req[s] \in [pc: {"answering", "saving"}, q: Questions, text: Texts, row: Nat]
    BY <1>0, AnsweringType DEF Answering
  <1> DEFINE cell(mine) == Saved(mine, req[s])
  <1>2. rows' = [rows EXCEPT ![Owner(s)][req[s].q] = Saved(@, req[s])]
    BY DEF AnswerCommit, Saved
  <1>3. rows \in [Students -> [Questions -> Seq(Texts)]]
    BY <1>0 DEF TypeOK
  <1>4. \A u \in Students, q \in Questions :
          rows'[u][q] = IF u = Owner(s) /\ q = req[s].q
                        THEN Saved(rows[u][q], req[s]) ELSE rows[u][q]
    BY <1>1, <1>2, <1>3
  <1>5. DOMAIN rows' = Students /\ \A u \in Students : DOMAIN rows'[u] = Questions
    BY <1>2, <1>3
  <1>6. ASSUME NEW u \in Students, NEW q \in Questions
        PROVE  /\ rows'[u][q] \in Seq(Texts)
               /\ rows[u][q] # << >> \/ <<u, q>> = <<Owner(s), req[s].q>> => rows'[u][q] # << >>
    <2>1. CASE u = Owner(s) /\ q = req[s].q
      <3>1. req[s].row = 0 \/ rows[u][q] # << >>
        BY <1>0, <2>1 DEF IInv, Control, RowFound, Answering
      <3>2. rows'[u][q] = Saved(rows[u][q], req[s]) /\ rows[u][q] \in Seq(Texts)
        BY <1>3, <1>4, <2>1
      <3> QED BY <1>1, <3>1, <3>2, SavedType
    <2>2. CASE ~(u = Owner(s) /\ q = req[s].q)
      BY <1>3, <1>4, <2>2
    <2> QED BY <2>1, <2>2
  <1> QED BY <1>1, <1>4, <1>5, <1>6

\* The lock keeps another answer of the same student from being saved.
LEMMA AnswerCommitOK ==
    ASSUME IInv, NEW s \in Slots, AnswerCommit(s)
    PROVE  IInv'
  <1> DEFINE u == Owner(s)
             q == req[s].q
  <1>0. TypeOK /\ LockHeld /\ req[s].pc = "saving" /\ u \in Users
    BY SlotsType DEF IInv, Control, AnswerCommit
  <1>1. req[s] \in [pc: {"answering", "saving"}, q: Questions, text: Texts, row: Nat]
        /\ q \in Questions /\ req[s].text \in Texts
    BY <1>0, AnsweringType DEF Answering
  <1>2. [pc |-> "answered"] \in Requests
    BY DEF Requests
  <1>3. req' \in [Slots -> Requests] /\ req'[s].pc = "answered" /\ Elsewhere(s)
    BY <1>0, <1>2, BecomesType DEF TypeOK, Elsewhere, AnswerCommit
  <1>4. activity' = activity \cup {<<"Useranswered", u, q>>} /\ Release(s)
        /\ UNCHANGED <<now, running, asks, shown, page, left>>
        /\ first' = [first EXCEPT ![u][q] = IF @ = None THEN req[s].text ELSE @]
    BY DEF AnswerCommit
  <1>5. \A x \in Slots : req'[x].pc \in {"noticed", "shown", "saving", "answering"} =>
                            x # s /\ req'[x] = req[x]
    BY <1>3 DEF Elsewhere
  <1>6. LockHeld'
    <2>1. \A x \in Slots \ {s} : lock'[Owner(x)] = x <=> lock[Owner(x)] = x
      BY <1>4, SlotsType DEF Release
    <2>2. lock'[u] # s
      BY <1>4, SlotsType DEF Release
    <2>3. \A v \in Users : lock'[v] # None => lock'[v] = lock[v]
      BY <1>4 DEF Release
    <2>4. ASSUME NEW x \in Slots
          PROVE  req'[x].pc \in {"noticed", "saving", "shown"} <=> lock'[Owner(x)] = x
      <3>1. CASE x = s
        BY <3>1, <2>2, <1>3
      <3>2. CASE x # s
        BY <3>2, <2>1, <1>0, <1>3 DEF LockHeld, Elsewhere
      <3> QED BY <3>1, <3>2
    <2>5. ASSUME NEW v \in Users, lock'[v] # None
          PROVE  Owner(lock'[v]) = v
      BY <2>3, <2>5, <1>0 DEF LockHeld
    <2> QED BY <2>4, <2>5 DEF LockHeld
  <1>7. AddsNoMark'
    BY <1>5 DEF IInv, Control, AddsNoMark
  <1>8. RowFound'
    <2> SUFFICES ASSUME NEW x \in Slots, req'[x].pc \in Answering, Owner(x) \in Students
                 PROVE  req'[x].row = 0 \/ rows'[Owner(x)][req'[x].q] # << >>
      BY DEF RowFound
    <2>1. req'[x] = req[x]
      BY <1>5 DEF Answering
    <2>2. req[x].q \in Questions
      BY <1>0, <2>1, AnsweringType
    <2>3. req[x].row = 0 \/ rows[Owner(x)][req[x].q] # << >>
      BY <2>1 DEF IInv, Control, RowFound
    <2> QED BY <2>1, <2>2, <2>3, AnswerCommitRows
  <1>9. SavingUnmarked'
    <2> SUFFICES ASSUME NEW x \in Slots, req'[x].pc = "saving"
                 PROVE  <<"Useranswered", Owner(x), req'[x].q>> \notin activity'
      BY DEF SavingUnmarked, Answered, HasActivity
    <2>1. x # s /\ req'[x] = req[x]
      BY <1>5
    <2>2. Owner(x) # u
      BY <1>0, <2>1 DEF LockHeld
    <2>3. <<"Useranswered", Owner(x), req[x].q>> \notin activity
      BY <2>1 DEF IInv, Control, SavingUnmarked, Answered, HasActivity
    <2> QED BY <1>4, <2>1, <2>2, <2>3
  <1>10. AnsweredHasAnswer'
    <2> SUFFICES ASSUME NEW v \in Students, NEW x \in Questions,
                        <<"Useranswered", v, x>> \in activity'
                 PROVE  rows'[v][x] # << >>
      BY DEF AnsweredHasAnswer, HasActivity
    <2>1. CASE <<v, x>> = <<u, q>>
      BY <2>1, AnswerCommitRows
    <2>2. CASE <<v, x>> # <<u, q>>
      <3>1. <<"Useranswered", v, x>> \in activity
        BY <2>2, <1>4
      <3>2. rows[v][x] # << >>
        BY <3>1 DEF IInv, AnsweredHasAnswer, HasActivity
      <3> QED BY <3>2, AnswerCommitRows
    <2> QED BY <2>1, <2>2
  <1>11. activity' \subseteq Activities
    BY <1>0, <1>1, <1>4 DEF TypeOK, Activities, Kinds
  <1>12. rows' \in [Students -> [Questions -> Seq(Texts)]]
    <2>1. rows' \in [Students -> [Questions -> Seq(Texts)]]
          <=> \A v \in Students : rows'[v] \in [Questions -> Seq(Texts)]
      BY <1>0 DEF TypeOK, AnswerCommit
    <2>2. ASSUME NEW v \in Students
          PROVE  rows'[v] \in [Questions -> Seq(Texts)]
      <3>1. rows'[v] = [x \in Questions |-> rows'[v][x]]
        BY <1>0, <1>1 DEF TypeOK, AnswerCommit
      <3>2. \A x \in Questions : rows'[v][x] \in Seq(Texts)
        BY AnswerCommitRows
      <3> QED BY <3>1, <3>2
    <2> QED BY <2>1, <2>2
  <1>13. first' \in [Students -> [Questions -> Texts \cup {None}]]
    BY <1>0, <1>1, <1>4 DEF TypeOK
  <1>14. TypeOK'
    BY <1>0, <1>3, <1>4, <1>11, <1>12, <1>13, ReleaseType DEF TypeOK, page
  <1> QED BY <1>6, <1>7, <1>8, <1>9, <1>10, <1>14 DEF IInv, Control

LEMMA AskQuestionOK ==
    ASSUME IInv, NEW s \in Slots, AskQuestion(s)
    PROVE  IInv'
  <1>0. TypeOK
    BY DEF IInv
  <1> DEFINE end == IF TimeLimit = Forever THEN Forever ELSE now + TimeLimit
  <1>1. PICK q \in Questions :
          Begin(s, [pc |-> "asking", q |-> q, dels |-> About(q, Kinds),
                    olds |-> DOMAIN running, sps |-> shown, end |-> end])
    BY DEF AskQuestion
  <1>2. UNCHANGED <<now, tables, lock, page>> /\ Spend("acts")
    BY DEF AskQuestion
  <1>3. end \in Ends
    BY <1>0, ConstantsAssumption DEF TypeOK, Ends
  <1>4. [pc |-> "asking", q |-> q, dels |-> About(q, Kinds),
         olds |-> DOMAIN running, sps |-> shown, end |-> end] \in Requests
    <2> HIDE DEF end
    <2> QED BY <1>0, <1>3 DEF Requests, TypeOK, About
  <1>5. AnsweredHasAnswer' /\ Control' /\ req' \in [Slots -> Requests]
    BY <1>0, <1>1, <1>2, <1>4, BeginStep DEF tables, Holding
  <1>6. TypeOK'
    BY <1>0, <1>2, <1>5, SpendType DEF TypeOK, tables, page
  <1> QED BY <1>5, <1>6 DEF IInv

LEMMA AskCommitOK ==
    ASSUME IInv, NEW s \in Slots, AskCommit(s)
    PROVE  IInv'
  <1> DEFINE r == req[s]
             kept == DOMAIN running \ r.olds
             asked == [x \in kept \cup {r.q} |-> IF x = r.q THEN r.end ELSE running[x]]
  <1>0. TypeOK /\ req[s] \in Requests /\ req[s].pc = "asking" /\ Idle \in Requests
    BY DEF IInv, TypeOK, AskCommit, Requests
  <1>1. r.q \in Questions /\ r.end \in Ends
    BY <1>0, RequestShapes
  <1>2. req' \in [Slots -> Requests] /\ req'[s].pc = "idle" /\ Elsewhere(s)
    BY <1>0, BecomesType DEF TypeOK, Elsewhere, AskCommit, Idle
  <1>3. UNCHANGED <<now, lock, page, left, rows>>
    BY DEF AskCommit, tables
  <1>4. activity' \subseteq activity
    BY DEF AskCommit, tables
  <1>5. AnsweredHasAnswer' /\ Control'
    BY <1>0, <1>2, <1>3, <1>4, QuietStep DEF NoNewMark, Answered, HasActivity, Holding
  <1>6. \/ UNCHANGED <<running, asks, shown, first>>
        \/ /\ running' = asked
           /\ asks' = [asks EXCEPT ![r.q] = @ + 1]
           /\ shown' = shown \ r.sps
           /\ first' = [u \in Students |-> [first[u] EXCEPT ![r.q] = None]]
    BY DEF AskCommit, tables
  <1>7. DOMAIN running' \subseteq Questions /\ Range(running') \subseteq Ends
    <2>1. CASE running' = running
      BY <1>0, <2>1 DEF TypeOK, Range
    <2>2. CASE running' = asked
      <3>1. \A x \in DOMAIN running : x \in Questions /\ running[x] \in Ends
        BY <1>0, RunningType
      <3>2. DOMAIN asked = kept \cup {r.q} /\ kept \subseteq DOMAIN running
        OBVIOUS
      <3>3. \A x \in DOMAIN asked : x \in Questions /\ asked[x] \in Ends
        BY <1>1, <3>1
      <3> HIDE DEF asked
      <3> QED BY <2>2, <3>3 DEF Range
    <2> QED BY <1>6, <2>1, <2>2
  <1>8. /\ asks' \in [Questions -> Nat] /\ shown' \subseteq Questions
        /\ first' \in [Students -> [Questions -> Texts \cup {None}]]
    <2>1. /\ asks' = asks \/ asks' = [asks EXCEPT ![r.q] = @ + 1]
          /\ shown' \subseteq shown
          /\ first' = first \/ first' = [u \in Students |-> [first[u] EXCEPT ![r.q] = None]]
      BY <1>6
    <2>3. asks' \in [Questions -> Nat]
      BY <1>0, <1>1, <2>1 DEF TypeOK
    <2>2. ASSUME first' = [u \in Students |-> [first[u] EXCEPT ![r.q] = None]]
          PROVE  first' \in [Students -> [Questions -> Texts \cup {None}]]
      BY <1>0, <2>2 DEF TypeOK
    <2> QED BY <1>0, <2>1, <2>2, <2>3 DEF TypeOK
  <1>9. TypeOK'
    BY <1>0, <1>2, <1>3, <1>4, <1>7, <1>8 DEF TypeOK, page
  <1> QED BY <1>5, <1>9 DEF IInv

LEMMA EndingType ==
    ASSUME TypeOK, NEW q \in Questions, NEW end \in Ends, NEW dels \in SUBSET Activities
    PROVE  [pc |-> "ending", q |-> q, end |-> end, dels |-> dels] \in Requests
  BY DEF Requests

LEMMA StopQuestionOK ==
    ASSUME IInv, NEW s \in Slots, StopQuestion(s)
    PROVE  IInv'
  <1>0. TypeOK
    BY DEF IInv
  <1>1. PICK q \in DOMAIN running :
          Begin(s, [pc |-> "ending", q |-> q, end |-> now,
                    dels |-> About(q, {"Usershown", "Useranswered"})])
    BY DEF StopQuestion
  <1>2. UNCHANGED <<now, tables, lock, page>> /\ Spend("acts")
    BY DEF StopQuestion
  <1>3. now \in Ends /\ About(q, {"Usershown", "Useranswered"}) \in SUBSET Activities
    BY <1>0, ConstantsAssumption DEF TypeOK, Ends, About
  <1>4. AnsweredHasAnswer' /\ Control' /\ req' \in [Slots -> Requests]
    BY <1>0, <1>1, <1>2, <1>3, RunningType, EndingType, BeginStep DEF tables, Holding
  <1>5. TypeOK'
    BY <1>0, <1>2, <1>4, SpendType DEF TypeOK, tables, page
  <1> QED BY <1>4, <1>5 DEF IInv

LEMMA ExtendQuestionOK ==
    ASSUME IInv, NEW s \in Slots, ExtendQuestion(s)
    PROVE  IInv'
  <1>0. TypeOK
    BY DEF IInv
  <1>1. PICK q \in DOMAIN running :
          /\ running[q] # Forever
          /\ Begin(s, [pc |-> "ending", q |-> q, end |-> running[q] + Extension, dels |-> {}])
    BY DEF ExtendQuestion
  <1>2. UNCHANGED <<now, tables, lock, page>> /\ Spend("acts")
    BY DEF ExtendQuestion
  <1>3. running[q] + Extension \in Ends
    BY <1>0, <1>1, RunningType, ConstantsAssumption DEF Ends
  <1>4. AnsweredHasAnswer' /\ Control' /\ req' \in [Slots -> Requests]
    BY <1>0, <1>1, <1>2, <1>3, RunningType, EndingType, BeginStep DEF tables, Holding
  <1>5. TypeOK'
    BY <1>0, <1>2, <1>4, SpendType DEF TypeOK, tables, page
  <1> QED BY <1>4, <1>5 DEF IInv

LEMMA EndTimeCommitOK ==
    ASSUME IInv, NEW s \in Slots, EndTimeCommit(s)
    PROVE  IInv'
  <1>0. TypeOK /\ req[s] \in Requests /\ req[s].pc = "ending" /\ Idle \in Requests
    BY DEF IInv, TypeOK, EndTimeCommit, Requests
  <1>1. req[s].q \in Questions /\ req[s].end \in Ends
    BY <1>0, RequestShapes
  <1>2. req' \in [Slots -> Requests] /\ req'[s].pc = "idle" /\ Elsewhere(s)
    BY <1>0, BecomesType DEF TypeOK, Elsewhere, EndTimeCommit, Idle
  <1>3. UNCHANGED <<now, asks, rows, shown, lock, page, left, first>> /\ activity' \subseteq activity
    BY DEF EndTimeCommit
  <1>4. AnsweredHasAnswer' /\ Control'
    BY <1>0, <1>2, <1>3, QuietStep DEF NoNewMark, Answered, HasActivity, Holding
  <1>5. DOMAIN running' \subseteq Questions /\ Range(running') \subseteq Ends
    BY <1>0, <1>1 DEF EndTimeCommit, TypeOK, Range
  <1>6. TypeOK'
    BY <1>0, <1>2, <1>3, <1>5 DEF TypeOK, page
  <1> QED BY <1>4, <1>6 DEF IInv

LEMMA ShowPointsOK ==
    ASSUME IInv, NEW s \in Slots, ShowPoints(s)
    PROVE  IInv'
  <1>0. TypeOK
    BY DEF IInv
  <1>1. PICK q \in {x \in Questions : asks[x] > 0}, rq \in AnyOf(DOMAIN running) :
          Begin(s, [pc |-> "showing", manual |-> FALSE, q |-> q, sps |-> shown,
                    rq |-> rq, end |-> EndOf(rq), cur |-> q, pts |-> None])
    BY DEF ShowPoints
  <1>2. UNCHANGED <<now, tables, lock, page>> /\ Spend("acts")
    BY DEF ShowPoints
  <1>3. [pc |-> "showing", manual |-> FALSE, q |-> q, sps |-> shown,
         rq |-> rq, end |-> EndOf(rq), cur |-> q, pts |-> None] \in Requests
    BY <1>0, AnyRunning DEF Requests, TypeOK
  <1>4. AnsweredHasAnswer' /\ Control' /\ req' \in [Slots -> Requests]
    BY <1>0, <1>1, <1>2, <1>3, BeginStep DEF tables, Holding
  <1>5. TypeOK'
    BY <1>0, <1>2, <1>4, SpendType DEF TypeOK, tables, page
  <1> QED BY <1>4, <1>5 DEF IInv

LEMMA ShowUnderLockOK ==
    ASSUME IInv, NEW s \in Slots, ShowUnderLock(s)
    PROVE  IInv'
  <1>0. TypeOK /\ req[s] \in Requests /\ req[s].pc = "showing" /\ Lecturer \in Users
    BY DEF IInv, TypeOK, ShowUnderLock, Users
  <1>1. req[s].q \in Questions /\ req[s].sps \subseteq Questions
        /\ req[s].rq \in Questions \cup {None}
    BY <1>0, RequestShapes
  <1>2. PICK points \in {req[s].q} \cup (shown \ req[s].sps) :
          Becomes(s, [pc |-> "shown", q |-> req[s].q, sps |-> req[s].sps,
                      adds |-> NewQuestion(Lecturer, req[s], points).adds])
    BY DEF ShowUnderLock
  <1> DEFINE adds == NewQuestion(Lecturer, req[s], points).adds
  <1>3. points \in Questions \cup {None}
    BY <1>0, <1>1 DEF TypeOK
  <1>4. /\ adds \in SUBSET Activities
        /\ \A v \in Users, q \in Questions : <<"Useranswered", v, q>> \notin adds
    BY <1>0, <1>1, <1>3, NewQuestionType
  <1>5. [pc |-> "shown", q |-> req[s].q, sps |-> req[s].sps, adds |-> adds] \in Requests
    BY <1>1, <1>4 DEF Requests
  <1>6. /\ req' \in [Slots -> Requests] /\ Elsewhere(s)
        /\ req'[s].pc = "shown" /\ req'[s].adds = adds
    BY <1>0, <1>2, <1>5, BecomesType DEF TypeOK, Elsewhere
  <1>7. UNCHANGED <<now, tables, page, left>> /\ Acquire(s)
    BY DEF ShowUnderLock
  <1>8. AnsweredHasAnswer' /\ Control'
    BY <1>4, <1>6, <1>7, AcquireStep DEF tables, Holding
  <1>9. TypeOK'
    BY <1>0, <1>6, <1>7, AcquireType DEF TypeOK, tables, page
  <1> QED BY <1>8, <1>9 DEF IInv

LEMMA ShowCommitOK ==
    ASSUME IInv, NEW s \in Slots, ShowCommit(s)
    PROVE  IInv'
  <1>0. TypeOK /\ req[s] \in Requests /\ req[s].pc = "shown" /\ Idle \in Requests
    BY DEF IInv, TypeOK, ShowCommit, Requests
  <1>1. req[s].q \in Questions /\ req[s].adds \in SUBSET Activities
    BY <1>0, RequestShapes
  <1>2. req' \in [Slots -> Requests] /\ req'[s].pc = "idle" /\ Elsewhere(s)
    BY <1>0, BecomesType DEF TypeOK, Elsewhere, ShowCommit, Idle
  <1>3. activity' \subseteq activity \cup req[s].adds /\ shown' \subseteq shown \cup {req[s].q}
    BY DEF ShowCommit
  <1>4. NoNewMark
    BY <1>0, <1>3 DEF IInv, Control, AddsNoMark, NoNewMark, Answered, HasActivity
  <1>5. AnsweredHasAnswer' /\ Control'
    BY <1>2, <1>4, ReleaseStep DEF ShowCommit, Holding
  <1>6. TypeOK'
    BY <1>0, <1>1, <1>2, <1>3, ReleaseType DEF TypeOK, ShowCommit, page
  <1> QED BY <1>5, <1>6 DEF IInv

LEMMA FailOK ==
    ASSUME IInv, NEW s \in Slots, Fail(s)
    PROVE  IInv'
  <1>0. TypeOK /\ Idle \in Requests
    BY DEF IInv, Requests
  <1>1. req' \in [Slots -> Requests] /\ req'[s].pc = "idle" /\ Elsewhere(s)
    BY <1>0, BecomesType DEF TypeOK, Elsewhere, Fail, Idle
  <1>2. AnsweredHasAnswer' /\ Control'
    BY <1>1, ReleaseStep DEF Fail, tables, NoNewMark, Answered, HasActivity, Holding
  <1>3. TypeOK'
    BY <1>0, <1>1, ReleaseType, SpendType DEF TypeOK, Fail, tables, page
  <1> QED BY <1>2, <1>3 DEF IInv

-----------------------------------------------------------------------------
(* The invariant                                                            *)

LEMMA InitOK ==
    ASSUME Init
    PROVE  IInv
  <1>1. TypeOK
    <2>1. /\ now \in 0..MaxTime
          /\ left \in [{"acts", "answers", "faults", "reloads", "manual"} -> Nat]
      BY ConstantsAssumption DEF Init
    <2>2. /\ lock \in [Users -> Slots \cup {None}]
          /\ dialog \in [StudentTabs -> [q: Questions, ask: Nat, result: BOOLEAN] \cup {None}]
          /\ storage \in [Browsers -> Questions \cup {None}]
          /\ first \in [Students -> [Questions -> Texts \cup {None}]]
          /\ asks \in [Questions -> Nat]
          /\ activity \subseteq Activities /\ shown \subseteq Questions
      BY DEF Init
    <2>3. rows \in [Students -> [Questions -> Seq(Texts)]]
      BY EmptySeq DEF Init
    <2>4. req \in [Slots -> Requests]
      BY DEF Init, Requests
    <2>5. DOMAIN running \subseteq Questions /\ Range(running) \subseteq Ends
      BY DEF Init, Range
    <2> QED BY <2>1, <2>2, <2>3, <2>4, <2>5 DEF TypeOK
  <1>2. AnsweredHasAnswer
    BY DEF AnsweredHasAnswer, HasActivity, Init
  <1>3. \A s \in Slots : req[s].pc = "idle"
    BY DEF Init, Idle
  <1>4. LockHeld
    BY <1>3, SlotsType DEF LockHeld, Init
  <1>5. AddsNoMark /\ RowFound /\ SavingUnmarked
    BY <1>3 DEF AddsNoMark, RowFound, SavingUnmarked, Answering
  <1> QED BY <1>1, <1>2, <1>4, <1>5 DEF IInv, Control

LEMMA NextOK ==
    ASSUME IInv, Next
    PROVE  IInv'
  <1>1. CASE Tick
    BY <1>1, TickOK
  <1>2. ASSUME NEW t \in StudentTabs,
               \/ GetUpdates(t) \/ GetQuestionManually(t) \/ Close(t)
               \/ AnswerToQuestion(t) \/ AnswerReply(t) \/ Reload(t)
        PROVE  IInv'
    BY <1>2, GetUpdatesOK, GetQuestionManuallyOK, CloseOK, AnswerToQuestionOK,
       AnswerReplyOK, ReloadOK
  <1>3. ASSUME NEW t \in LecturerTabs,
               \/ AskQuestion(<<t, "act">>) \/ StopQuestion(<<t, "act">>)
               \/ ExtendQuestion(<<t, "act">>) \/ ShowPoints(<<t, "act">>)
        PROVE  IInv'
    BY <1>3, LecturerSlots, AskQuestionOK, StopQuestionOK, ExtendQuestionOK, ShowPointsOK
  <1>4. ASSUME NEW s \in Slots,
               \/ GetNewQuestion(s) \/ GetUpdatesCommit(s) \/ PollOnce(s) \/ ClosePoints(s)
               \/ AnswerUnderLock(s) \/ AnswerCommit(s)
        PROVE  IInv'
    BY <1>4, GetNewQuestionOK, GetUpdatesCommitOK, PollOnceOK, ClosePointsOK,
       AnswerUnderLockOK, AnswerCommitOK
  <1>5. ASSUME NEW s \in Slots,
               \/ AskCommit(s) \/ EndTimeCommit(s) \/ ShowUnderLock(s) \/ ShowCommit(s)
               \/ Fail(s)
        PROVE  IInv'
    BY <1>5, AskCommitOK, EndTimeCommitOK, ShowUnderLockOK, ShowCommitOK, FailOK
  <1> QED BY <1>1, <1>2, <1>3, <1>4, <1>5 DEF Next

\* Every step of every request of every page keeps the inductive invariant.
THEOREM Invariance == Spec => []IInv
  <1>1. Init => IInv
    BY InitOK
  <1>2. IInv /\ [Next]_vars => IInv'
    <2>1. ASSUME IInv, UNCHANGED vars
          PROVE  IInv'
      <3>1. AnsweredHasAnswer' /\ Control'
        BY <2>1, StillStep DEF vars
      <3>2. TypeOK'
        BY <2>1 DEF IInv, TypeOK, vars
      <3> QED BY <3>1, <3>2 DEF IInv
    <2> QED BY <2>1, NextOK
  <1> QED BY <1>1, <1>2, PTL DEF Spec

\* The tables, the requests and the pages keep their types.
THEOREM TypeCorrect == Spec => []TypeOK
  <1>1. IInv => TypeOK
    BY DEF IInv
  <1> QED BY <1>1, Invariance, PTL

\* user_activity_lock: the lock of a user is held by exactly the one request of
\* that user that has taken it and has not ended.
THEOREM LockHeldByOne == Spec => []LockHeld
  <1>1. IInv => LockHeld
    BY DEF IInv, Control
  <1> QED BY <1>1, Invariance, PTL

\* answer_to_question: nobody is marked as having answered without an answer,
\* whatever fails.
THEOREM MarkedHaveAnswered == Spec => []AnsweredHasAnswer
  <1>1. IInv => AnsweredHasAnswer
    BY DEF IInv
  <1> QED BY <1>1, Invariance, PTL

\* Only the commit of an answer writes answers.
LEMMA OnlyAnswersWriteRows ==
    ASSUME [Next]_vars, rows' # rows
    PROVE  \E s \in Slots : AnswerCommit(s)
  <1>1. CASE UNCHANGED vars
    BY <1>1 DEF vars
  <1>2. CASE Tick
    BY <1>2 DEF Tick, tables
  <1>3. ASSUME NEW t \in StudentTabs,
               \/ GetUpdates(t) \/ GetQuestionManually(t) \/ Close(t)
               \/ AnswerToQuestion(t) \/ AnswerReply(t) \/ Reload(t)
        PROVE  FALSE
    BY <1>3 DEF GetUpdates, GetQuestionManually, Close, AnswerToQuestion, AnswerReply, Reload, tables
  <1>4. ASSUME NEW s,
               \/ AskQuestion(s) \/ StopQuestion(s) \/ ExtendQuestion(s) \/ ShowPoints(s)
        PROVE  FALSE
    BY <1>4 DEF AskQuestion, StopQuestion, ExtendQuestion, ShowPoints, tables
  <1>5. ASSUME NEW s \in Slots,
               \/ GetNewQuestion(s) \/ GetUpdatesCommit(s) \/ PollOnce(s) \/ ClosePoints(s)
               \/ AnswerUnderLock(s)
        PROVE  FALSE
    BY <1>5 DEF GetNewQuestion, GetUpdatesCommit, PollOnce, ClosePoints, AnswerUnderLock, tables
  <1>6. ASSUME NEW s \in Slots,
               \/ AskCommit(s) \/ EndTimeCommit(s) \/ ShowUnderLock(s) \/ ShowCommit(s)
               \/ Fail(s)
        PROVE  FALSE
    BY <1>6 DEF AskCommit, EndTimeCommit, ShowUnderLock, ShowCommit, Fail, tables
  <1> QED BY <1>1, <1>2, <1>3, <1>4, <1>5, <1>6 DEF Next

\* answer_to_question: while a student is marked as having answered, no request
\* from any page changes what is stored of the student, however late it comes.
THEOREM SecondAnswers == Spec => SecondAnswerChangesNothing
  <1> DEFINE Kept == \A u \in Students, q \in Questions :
                       HasActivity("Useranswered", u, q) => rows'[u][q] = rows[u][q]
  <1>1. IInv /\ [Next]_vars => [Kept]_vars
    <2> SUFFICES ASSUME IInv, [Next]_vars, NEW u \in Students, NEW q \in Questions,
                        HasActivity("Useranswered", u, q), rows' # rows
                 PROVE  rows'[u][q] = rows[u][q]
      OBVIOUS
    <2>1. PICK s \in Slots : AnswerCommit(s)
      BY OnlyAnswersWriteRows
    <2>2. req[s].pc = "saving"
      BY <2>1 DEF AnswerCommit
    <2>3. <<u, q>> # <<Owner(s), req[s].q>>
      BY <2>2 DEF IInv, Control, SavingUnmarked, Answered
    <2> QED BY <2>1, <2>3, AnswerCommitRows
  <1> QED BY <1>1, Invariance, PTL DEF Spec, SecondAnswerChangesNothing
=============================================================================
