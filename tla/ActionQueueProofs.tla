------------------------- MODULE ActionQueueProofs -------------------------
(***************************************************************************)
(* Proofs about ActionQueue, for any requests, tasks and subjects and any  *)
(* number of failures: the inductive invariant, and that no action is lost *)
(* or forgotten, takes effect twice or out of order.                       *)
(***************************************************************************)
EXTENDS ActionQueueInv, SequenceTheorems, FiniteSetTheorems, TLAPS

Request == [pc : RequestPCs, right : BOOLEAN, name : Nat, file : Registrants \cup {None}]
Task == [pc : TaskPCs, todo : SUBSET Nat, batch : SUBSET Entries]

THEOREM InitOK == Init => IInv
  <1> SUFFICES ASSUME Init PROVE IInv
    OBVIOUS
  <1>1. queue = << >> /\ DOMAIN queue = {}
    BY DEF Init
  <1>2. \A r \in Registrants : reg[r] = NewRequest
    BY DEF Init
  <1>3. \A t \in Tasks : task[t] = IdleTask
    BY DEF Init
  <1>4. TypeOK
    BY <1>1 DEF Init, TypeOK, NewRequest, IdleTask, RequestPCs, TaskPCs
  <1>5. LocksOK
    BY <1>2, <1>3, QueueAssumption
    DEF Init, LocksOK, NewRequest, IdleTask, Processing, Batched
  <1>6. FilesOK
    BY <1>1, <1>2, QueueAssumption DEF FilesOK, NewRequest
  <1>7. OwnFile
    BY <1>2 DEF OwnFile, NewRequest, Opened, Written
  <1>8. BatchOK
    BY <1>3 DEF BatchOK, IdleTask, Batched
  <1> QED BY <1>4, <1>5, <1>6, <1>7, <1>8 DEF IInv

\* What Goes and Moves leave alone.
LEMMA GoesFields ==
    ASSUME TypeOK, NEW r \in Registrants, NEW pc \in RequestPCs, Goes(r, pc)
    PROVE  /\ reg' \in [Registrants -> Request]
           /\ \A x \in Registrants :
                /\ reg'[x].pc = IF x = r THEN pc ELSE reg[x].pc
                /\ reg'[x].name = reg[x].name
                /\ reg'[x].file = reg[x].file
                /\ reg'[x].right = reg[x].right
  BY DEF TypeOK, Goes, Request

LEMMA MovesFields ==
    ASSUME TypeOK, NEW t \in Tasks, NEW pc \in TaskPCs, Moves(t, pc)
    PROVE  /\ task' \in [Tasks -> Task]
           /\ \A u \in Tasks :
                /\ task'[u].pc = IF u = t THEN pc ELSE task[u].pc
                /\ task'[u].todo = task[u].todo
                /\ task'[u].batch = task[u].batch
  BY DEF TypeOK, Moves, Task

\* A step of a task that touches neither the directory nor its batch.
LEMMA QuietTask ==
    ASSUME IInv, NEW t \in Tasks, NEW pc \in TaskPCs, Moves(t, pc),
           UNCHANGED <<queue, requests, handled, faults>>,
           spawned' \in Nat, clock' \in Nat,
           {queue_lock', processing_lock'} \subseteq {queue_lock, processing_lock, t, None},
           pc \in Batched => task[t].pc \in Batched,
           pc \in {"reading", "purging"} => task[t].pc = pc,
           LocksOK'
    PROVE  IInv'
  <1>0. TypeOK /\ FilesOK /\ OwnFile /\ BatchOK  BY DEF IInv
  <1>1. TypeOK'
    BY <1>0, MovesFields DEF TypeOK, requests, Task
  <1>2. FilesOK' /\ OwnFile'
    BY <1>0 DEF FilesOK, OwnFile, requests
  <1>3. BatchOK'
    BY <1>0, MovesFields DEF BatchOK, requests
  <1> QED BY <1>1, <1>2, <1>3 DEF IInv

\* A step of a request that touches neither the directory nor its name.
LEMMA QuietRequest ==
    ASSUME IInv, NEW r \in Registrants, NEW pc \in RequestPCs, Goes(r, pc),
           UNCHANGED <<queue, task, handled, clashed, seen, clock>>,
           spawned' \in Nat, faults' \in Nat,
           {queue_lock', processing_lock'} \subseteq {queue_lock, processing_lock, r, None},
           pc \in {"new", "named", "absent"} => reg[r].pc \in {"new", "named", "absent"},
           pc \in Opened => pc \in Written /\ reg[r].pc \in Written,
           LocksOK'
    PROVE  IInv'
  <1>0. TypeOK /\ FilesOK /\ OwnFile /\ BatchOK  BY DEF IInv
  <1>1. TypeOK'
    BY <1>0, GoesFields DEF TypeOK, Request
  <1>2. FilesOK'
    <2>1. \A n \in DOMAIN queue : queue[n] \in Files
      BY <1>0 DEF TypeOK
    <2> QED BY <1>0, <2>1, GoesFields DEF FilesOK, Files
  <1>3. OwnFile'
    BY <1>0, GoesFields DEF OwnFile, Opened, Written
  <1>4. BatchOK'
    <2>1. \A t \in Tasks : task[t].batch \subseteq Entries
      BY <1>0 DEF TypeOK
    <2> QED BY <1>0, <2>1, GoesFields DEF BatchOK, Entries
  <1> QED BY <1>1, <1>2, <1>3, <1>4 DEF IInv

\* The locks after a step of a task, given which of them it holds then.
LEMMA TaskLocks ==
    ASSUME IInv, NEW t \in Tasks, NEW pc \in TaskPCs, UNCHANGED reg,
           \A u \in Tasks : task'[u].pc = IF u = t THEN pc ELSE task[u].pc,
           IF pc \in {"queued", "holding"}
           THEN queue_lock' = t /\ queue_lock \in {t, None}
           ELSE queue_lock' = IF queue_lock = t THEN None ELSE queue_lock,
           IF pc \in Processing
           THEN processing_lock' = t /\ processing_lock \in {t, None}
           ELSE processing_lock' = IF processing_lock = t THEN None ELSE processing_lock
    PROVE  LocksOK'
  <1>0. TypeOK /\ LocksOK  BY DEF IInv
  <1>1. \A u \in Tasks : queue_lock' = u <=> task'[u].pc \in {"queued", "holding"}
    BY <1>0, QueueAssumption DEF LocksOK
  <1>2. \A r \in Registrants : queue_lock' = r <=> reg'[r].pc = "checking"
    BY <1>0, QueueAssumption DEF LocksOK
  <1>3. \A u \in Tasks : processing_lock' = u <=> task'[u].pc \in Processing
    BY <1>0, QueueAssumption DEF LocksOK
  <1>4. processing_lock' \notin Registrants
    BY <1>0, QueueAssumption DEF LocksOK
  <1> QED BY <1>1, <1>2, <1>3, <1>4 DEF LocksOK

LEMMA RequestLocks ==
    ASSUME IInv, NEW r \in Registrants, NEW pc \in RequestPCs, UNCHANGED task,
           \A x \in Registrants : reg'[x].pc = IF x = r THEN pc ELSE reg[x].pc,
           IF pc = "checking"
           THEN queue_lock' = r /\ queue_lock \in {r, None}
           ELSE queue_lock' = IF queue_lock = r THEN None ELSE queue_lock,
           UNCHANGED processing_lock
    PROVE  LocksOK'
  <1>0. TypeOK /\ LocksOK  BY DEF IInv
  <1>1. \A u \in Tasks : queue_lock' = u <=> task'[u].pc \in {"queued", "holding"}
    BY <1>0, QueueAssumption DEF LocksOK
  <1>2. \A x \in Registrants : queue_lock' = x <=> reg'[x].pc = "checking"
    BY <1>0, QueueAssumption DEF LocksOK
  <1> QED BY <1>0, <1>1, <1>2 DEF LocksOK

\* Who is in a section holds its lock, and nobody else is in it.
LEMMA Sections ==
    ASSUME IInv, NEW t \in Tasks
    PROVE  /\ task[t].pc \in {"queued", "holding"} => queue_lock = t
           /\ task[t].pc \notin {"queued", "holding"} => queue_lock # t
           /\ task[t].pc \in Processing => processing_lock = t
           /\ task[t].pc \notin Processing => processing_lock # t
  BY DEF IInv, LocksOK

LEMMA StartTaskOK == ASSUME IInv, NEW t \in Tasks, StartTask(t) PROVE IInv'
  <1>1. TypeOK  BY DEF IInv
  <1>2. "started" \in TaskPCs /\ Moves(t, "started")
    BY DEF StartTask, TaskPCs
  <1>3. LocksOK'
    BY <1>1, <1>2, MovesFields, Sections, TaskLocks
    DEF StartTask, In, locks, requests, Processing, Batched
  <1>4. spawned' \in Nat
    BY <1>1 DEF StartTask, TypeOK
  <1> QED
    BY <1>1, <1>2, <1>3, <1>4, QuietTask
    DEF StartTask, locks, history, Batched, TypeOK

LEMMA AcquireQueueOK == ASSUME IInv, NEW t \in Tasks, AcquireQueue(t) PROVE IInv'
  <1>1. TypeOK  BY DEF IInv
  <1>2. "queued" \in TaskPCs /\ Moves(t, "queued")
    BY DEF AcquireQueue, TaskPCs
  <1>3. LocksOK'
    BY <1>1, <1>2, MovesFields, Sections, TaskLocks
    DEF AcquireQueue, In, requests, Processing, Batched
  <1> QED
    BY <1>1, <1>2, <1>3, QuietTask DEF AcquireQueue, history, Batched, TypeOK

LEMMA AcquireProcessingOK == ASSUME IInv, NEW t \in Tasks, AcquireProcessing(t) PROVE IInv'
  <1>1. TypeOK  BY DEF IInv
  <1>2. "holding" \in TaskPCs /\ Moves(t, "holding")
    BY DEF AcquireProcessing, TaskPCs
  <1>3. LocksOK'
    BY <1>1, <1>2, MovesFields, Sections, TaskLocks
    DEF AcquireProcessing, In, requests, Processing, Batched
  <1> QED
    BY <1>1, <1>2, <1>3, QuietTask DEF AcquireProcessing, history, Batched, TypeOK

LEMMA ReleaseQueueOK == ASSUME IInv, NEW t \in Tasks, ReleaseQueue(t) PROVE IInv'
  <1>1. TypeOK  BY DEF IInv
  <1>2. "listing" \in TaskPCs /\ Moves(t, "listing")
    BY DEF ReleaseQueue, TaskPCs
  <1>3. LocksOK'
    BY <1>1, <1>2, MovesFields, Sections, TaskLocks
    DEF ReleaseQueue, In, requests, Processing, Batched
  <1> QED
    BY <1>1, <1>2, <1>3, QuietTask DEF ReleaseQueue, history, Batched, TypeOK

LEMMA AllReadOK == ASSUME IInv, NEW t \in Tasks, AllRead(t) PROVE IInv'
  <1>1. TypeOK  BY DEF IInv
  <1> DEFINE pc == IF task[t].batch = {} THEN "ending" ELSE "applying"
  <1>2. pc \in TaskPCs /\ Moves(t, pc)
    BY DEF AllRead, TaskPCs
  <1>3. pc \in {"ending", "applying"} /\ In(t, "reading")
    BY DEF AllRead
  <1>4. LocksOK'
    BY <1>1, <1>2, <1>3, MovesFields, Sections, TaskLocks
    DEF AllRead, In, locks, requests, Processing, Batched
  <1> QED
    BY <1>1, <1>2, <1>3, <1>4, QuietTask DEF AllRead, In, locks, history, Batched, TypeOK

LEMMA ApplyGroupActionsOK == ASSUME IInv, NEW t \in Tasks, ApplyGroupActions(t) PROVE IInv'
  <1>1. TypeOK  BY DEF IInv
  <1>2. "distributing" \in TaskPCs /\ Moves(t, "distributing") /\ In(t, "applying")
    BY DEF ApplyGroupActions, TaskPCs
  <1>3. UNCHANGED <<queue, locks, spawned, requests, clock, handled, faults>>
    BY DEF ApplyGroupActions
  <1>4. LocksOK'
    BY <1>1, <1>2, <1>3, MovesFields, Sections, TaskLocks
    DEF In, locks, requests, Processing, Batched
  <1> QED
    BY <1>1, <1>2, <1>3, <1>4, QuietTask DEF In, locks, Batched, TypeOK

LEMMA AllPurgedOK == ASSUME IInv, NEW t \in Tasks, AllPurged(t) PROVE IInv'
  <1>1. TypeOK  BY DEF IInv
  <1>2. "ending" \in TaskPCs /\ Moves(t, "ending")
    BY DEF AllPurged, TaskPCs
  <1>3. LocksOK'
    BY <1>1, <1>2, MovesFields, Sections, TaskLocks
    DEF AllPurged, In, locks, requests, Processing, Batched
  <1> QED
    BY <1>1, <1>2, <1>3, QuietTask DEF AllPurged, locks, history, Batched, TypeOK

LEMMA FinishOK == ASSUME IInv, NEW t \in Tasks, Finish(t) PROVE IInv'
  <1>1. TypeOK  BY DEF IInv
  <1>2. "idle" \in TaskPCs /\ Moves(t, "idle")
    BY DEF Finish, TaskPCs
  <1>3. LocksOK'
    BY <1>1, <1>2, MovesFields, Sections, TaskLocks
    DEF Finish, In, requests, Processing, Batched
  <1> QED
    BY <1>1, <1>2, <1>3, QuietTask DEF Finish, history, Batched, TypeOK

LEMMA CheckLockAcquiredOK == ASSUME IInv, NEW r \in Registrants, CheckLockAcquired(r) PROVE IInv'
  <1>1. TypeOK  BY DEF IInv
  <1>2. UNCHANGED <<queue, processing_lock, spawned, task, clock, history, clashed, seen, faults>>
    BY DEF CheckLockAcquired
  <1>3. reg[r].pc = "written" /\ queue_lock # r
    BY DEF CheckLockAcquired, At, IInv, LocksOK
  <1>4. CASE queue_lock = None
    <2>1. "checking" \in RequestPCs /\ Goes(r, "checking") /\ queue_lock' = r
      BY <1>4 DEF CheckLockAcquired, RequestPCs
    <2>2. LocksOK'
      BY <1>1, <1>2, <1>4, <2>1, GoesFields, RequestLocks
    <2> QED
      BY <1>1, <1>2, <1>3, <2>1, <2>2, QuietRequest DEF TypeOK, history, Opened, Written
  <1>5. CASE queue_lock # None
    <2>1. "done" \in RequestPCs /\ Goes(r, "done") /\ UNCHANGED queue_lock
      BY <1>5 DEF CheckLockAcquired, RequestPCs
    <2>2. LocksOK'
      BY <1>1, <1>2, <1>3, <2>1, GoesFields, RequestLocks
    <2> QED
      BY <1>1, <1>2, <1>3, <2>1, <2>2, QuietRequest DEF TypeOK, history, Opened, Written
  <1> QED BY <1>4, <1>5

LEMMA ReleaseCheckedOK == ASSUME IInv, NEW r \in Registrants, ReleaseChecked(r) PROVE IInv'
  <1>1. TypeOK  BY DEF IInv
  <1>2. UNCHANGED <<queue, processing_lock, spawned, task, clock, history, clashed, seen, faults>>
    BY DEF ReleaseChecked
  <1>3. reg[r].pc = "checking" /\ queue_lock = r /\ queue_lock' = None
    BY DEF ReleaseChecked, At, IInv, LocksOK
  <1>4. "released" \in RequestPCs /\ Goes(r, "released")
    BY DEF ReleaseChecked, RequestPCs
  <1>5. LocksOK'
    BY <1>1, <1>2, <1>3, <1>4, GoesFields, RequestLocks
  <1> QED
    BY <1>1, <1>2, <1>3, <1>4, <1>5, QuietRequest DEF TypeOK, history, Opened, Written

LEMMA DelayOK == ASSUME IInv, NEW r \in Registrants, Delay(r) PROVE IInv'
  <1>1. TypeOK  BY DEF IInv
  <1>2. UNCHANGED <<queue, locks, task, clock, history, clashed, seen, faults>>
    BY DEF Delay
  <1>3. reg[r].pc = "released" /\ queue_lock # r /\ spawned' \in Nat
    BY <1>1 DEF Delay, At, IInv, LocksOK, TypeOK
  <1>4. "done" \in RequestPCs /\ Goes(r, "done")
    BY DEF Delay, RequestPCs
  <1>5. LocksOK'
    BY <1>1, <1>2, <1>3, <1>4, GoesFields, RequestLocks DEF locks
  <1> QED
    BY <1>1, <1>2, <1>3, <1>4, <1>5, QuietRequest DEF TypeOK, locks, history, Opened, Written

LEMMA RequestFailsOK == ASSUME IInv, NEW r \in Registrants, RequestFails(r) PROVE IInv'
  <1>1. TypeOK  BY DEF IInv
  <1>2. UNCHANGED <<queue, spawned, task, clock, history, clashed, seen>>
    BY DEF RequestFails
  <1>3. /\ queue_lock' = IF queue_lock = r THEN None ELSE queue_lock
        /\ UNCHANGED processing_lock
    BY DEF RequestFails, ReleaseAll, IInv, LocksOK
  <1>4. "failed" \in RequestPCs /\ Goes(r, "failed")
    BY DEF RequestFails, RequestPCs
  <1>5. LocksOK'
    BY <1>1, <1>2, <1>3, <1>4, GoesFields, RequestLocks
  <1>6. faults' \in Nat
    BY <1>1 DEF RequestFails, TypeOK
  <1> QED
    BY <1>1, <1>2, <1>3, <1>4, <1>5, <1>6, QuietRequest
    DEF TypeOK, history, Opened, Written

\* A step of a request that has not opened its file yet.
LEMMA EarlyRequest ==
    ASSUME IInv, NEW r \in Registrants, NEW q \in Request,
           reg[r].pc \in {"new", "named", "absent"},
           q.pc \in {"named", "absent"}, q.file = None,
           reg' = [reg EXCEPT ![r] = q],
           UNCHANGED <<queue, locks, task, spawned, handled, clashed, faults>>,
           clock' \in Nat, seen' \in [Registrants -> SUBSET Registrants]
    PROVE  IInv'
  <1>0. TypeOK /\ LocksOK /\ FilesOK /\ OwnFile /\ BatchOK  BY DEF IInv
  <1>1. /\ reg' \in [Registrants -> Request]
        /\ reg'[r] = q
        /\ \A x \in Registrants : x # r => reg'[x] = reg[x]
    BY <1>0 DEF TypeOK, Request
  <1>2. TypeOK'
    BY <1>0, <1>1 DEF TypeOK, locks, Request
  <1>3. LocksOK'
    BY <1>0, <1>1 DEF LocksOK, locks
  <1>4. reg[r].file = None /\ None \notin Registrants
    BY <1>0, QueueAssumption DEF FilesOK
  <1>5. \A n \in DOMAIN queue : queue[n] \in Files
    BY <1>0 DEF TypeOK
  <1>6. FilesOK'
    BY <1>0, <1>1, <1>4, <1>5 DEF FilesOK, Files
  <1>7. OwnFile'
    BY <1>0, <1>1 DEF OwnFile, Opened, Written
  <1>8. BatchOK'
    <2>1. \A t \in Tasks : task[t].batch \subseteq Entries
      BY <1>0 DEF TypeOK
    <2> QED BY <1>0, <1>1, <1>4, <1>5, <2>1 DEF BatchOK, Files, Entries
  <1> QED BY <1>2, <1>3, <1>6, <1>7, <1>8 DEF IInv

LEMMA RegisterActionOK == ASSUME IInv, NEW r \in Registrants, RegisterAction(r) PROVE IInv'
  <1>1. TypeOK  BY DEF IInv
  <1>2. clock' \in Nat
    BY <1>1 DEF RegisterAction, TypeOK
  <1>3. PICK right \in BOOLEAN :
            reg' = [reg EXCEPT ![r] = [pc |-> "named", right |-> right,
                                       name |-> clock', file |-> None]]
    BY DEF RegisterAction
  <1>4. seen' \in [Registrants -> SUBSET Registrants]
    BY <1>1 DEF RegisterAction, TypeOK
  <1>5. [pc |-> "named", right |-> right, name |-> clock', file |-> None] \in Request
    BY <1>2 DEF Request, RequestPCs
  <1>6. reg[r].pc = "new" /\ UNCHANGED <<queue, locks, task, spawned, handled, clashed, faults>>
    BY DEF RegisterAction, At, history
  <1> QED BY <1>2, <1>3, <1>4, <1>5, <1>6, EarlyRequest

LEMMA ProbeOK == ASSUME IInv, NEW r \in Registrants, Probe(r) PROVE IInv'
  <1>1. TypeOK /\ FilesOK  BY DEF IInv
  <1>2. reg[r] \in Request /\ reg[r].pc = "named" /\ reg[r].file = None
    BY <1>1 DEF TypeOK, Request, FilesOK, Probe, At
  <1>3. PICK q \in {[reg[r] EXCEPT !.name = @ + 1], [reg[r] EXCEPT !.pc = "absent"]} :
            reg' = [reg EXCEPT ![r] = q]
    BY DEF Probe, Goes
  <1>4. q \in Request /\ q.pc \in {"named", "absent"} /\ q.file = None
    BY <1>2, <1>3 DEF Request, RequestPCs
  <1>5. /\ UNCHANGED <<queue, locks, task, spawned, handled, clashed, faults, seen, clock>>
        /\ clock \in Nat /\ seen \in [Registrants -> SUBSET Registrants]
    BY <1>1 DEF Probe, history, TypeOK
  <1> QED BY <1>2, <1>3, <1>4, <1>5, EarlyRequest

\* The directory after a file has been put into it.
LEMMA PutFile ==
    ASSUME TypeOK, NEW name \in Nat, NEW f \in Files,
           queue' = Put(name, f)
    PROVE  /\ DOMAIN queue' = DOMAIN queue \cup {name}
           /\ queue' \in [DOMAIN queue' -> Files]
           /\ queue'[name] = f
           /\ \A n \in DOMAIN queue : n # name => queue'[n] = queue[n]
  BY DEF TypeOK, Put

LEMMA OpenFileOK == ASSUME IInv, NEW r \in Registrants, OpenFile(r) PROVE IInv'
  <1> DEFINE name == reg[r].name
             file == IF Exists(name) THEN queue[name].file ELSE r
  <1>0. TypeOK /\ LocksOK /\ FilesOK /\ OwnFile /\ BatchOK  BY DEF IInv
  <1>1. \A n \in DOMAIN queue : queue[n] \in Files
    BY <1>0 DEF TypeOK
  <1>2. name \in Nat /\ file \in Registrants
    BY <1>0, <1>1 DEF TypeOK, Files, Exists
  <1>3. reg[r].pc = "absent" /\ reg[r].file = None /\ None \notin Registrants
    BY <1>0, QueueAssumption DEF OpenFile, At, FilesOK
  <1>4. /\ UNCHANGED <<locks, spawned, task, clock, history, seen, faults>>
        /\ queue' = Put(name, [file |-> file, action |-> None])
        /\ reg' = [reg EXCEPT ![r].pc = "opened", ![r].file = file]
    BY DEF OpenFile
  <1>5. /\ DOMAIN queue' = DOMAIN queue \cup {name}
        /\ queue' \in [DOMAIN queue' -> Files]
        /\ queue'[name] = [file |-> file, action |-> None]
        /\ \A n \in DOMAIN queue : n # name => queue'[n] = queue[n]
    <2>1. [file |-> file, action |-> None] \in Files
      BY <1>2 DEF Files
    <2> QED BY <1>0, <1>2, <1>4, <2>1, PutFile
  <1>6. /\ reg' \in [Registrants -> Request]
        /\ reg'[r].pc = "opened" /\ reg'[r].file = file /\ reg'[r].name = name
        /\ \A x \in Registrants : x # r => reg'[x] = reg[x]
    BY <1>0, <1>2, <1>4 DEF TypeOK, Request, RequestPCs
  <1>7. /\ clashed \subseteq clashed' /\ clashed' \subseteq Registrants
        /\ name \in DOMAIN queue => /\ file = queue[name].file
                                   /\ r \in clashed' /\ file \in clashed' /\ file # r
        /\ name \notin DOMAIN queue => file = r
    BY <1>0, <1>2, <1>3 DEF OpenFile, TypeOK, FilesOK, Exists
  <1>8. TypeOK'
    BY <1>0, <1>2, <1>4, <1>5, <1>6, <1>7 DEF TypeOK, locks, history, Request
  <1>9. LocksOK'
    BY <1>0, <1>3, <1>4, <1>6 DEF LocksOK, locks
  <1>10. FilesOK'
    <2>1. \A x \in Registrants : reg'[x].pc \in {"new", "named", "absent"} => reg'[x].file = None
      BY <1>0, <1>6 DEF FilesOK
    <2>2. ASSUME NEW n \in DOMAIN queue'
          PROVE  /\ reg'[queue'[n].file].file = queue'[n].file
                 /\ reg'[queue'[n].file].name = n
                 /\ queue'[n].action # None =>
                     /\ reg'[queue'[n].action].file = queue'[n].file
                     /\ reg'[queue'[n].action].name = n
      <3>1. CASE n = name
        BY <1>0, <1>2, <1>5, <1>6, <1>7, <3>1 DEF FilesOK
      <3>2. CASE n # name
        BY <1>0, <1>1, <1>3, <1>5, <1>6, <3>2 DEF FilesOK, Files
      <3> QED BY <3>1, <3>2
    <2>3. ASSUME NEW x \in Registrants, NEW y \in Registrants,
                 x \notin clashed', reg'[y].file = x
          PROVE  y = x
      BY <1>0, <1>6, <1>7, <2>3 DEF FilesOK
    <2> QED BY <2>1, <2>2, <2>3 DEF FilesOK
  <1>11. OwnFile'
    <2> SUFFICES ASSUME NEW x \in Registrants,
                        reg'[x].pc \in Opened, x \notin clashed' \cup handled
                 PROVE  /\ reg'[x].name \in DOMAIN queue'
                        /\ queue'[reg'[x].name].file = x /\ reg'[x].file = x
                        /\ queue'[reg'[x].name].action =
                                IF reg'[x].pc = "opened" THEN None ELSE x
      BY <1>4 DEF OwnFile, history
    <2>1. CASE x = r
      BY <1>5, <1>6, <1>7, <2>1
    <2>2. CASE x # r
      BY <1>0, <1>5, <1>6, <1>7, <2>2 DEF OwnFile
    <2> QED BY <2>1, <2>2
  <1>12. BatchOK'
    <2>1. \A t \in Tasks : task[t].batch \subseteq Entries
      BY <1>0 DEF TypeOK
    <2>2. \A n \in DOMAIN queue : n \in DOMAIN queue' /\ queue'[n].file = queue[n].file
      BY <1>5, <1>7
    <2>3. \A t \in Tasks : task[t].pc \in Batched => \A e \in task[t].batch : e.action # r
      BY <1>0, <1>1, <1>3, <2>1 DEF BatchOK, Files
    <2> QED BY <1>0, <1>4, <1>6, <2>1, <2>2, <2>3 DEF BatchOK, Entries, history
  <1> QED BY <1>8, <1>9, <1>10, <1>11, <1>12 DEF IInv

LEMMA WriteFileOK == ASSUME IInv, NEW r \in Registrants, WriteFile(r) PROVE IInv'
  <1> DEFINE name == reg[r].name
  <1>0. TypeOK /\ LocksOK /\ FilesOK /\ OwnFile /\ BatchOK  BY DEF IInv
  <1>1. \A n \in DOMAIN queue : queue[n] \in Files
    BY <1>0 DEF TypeOK
  <1>2. /\ UNCHANGED <<locks, spawned, task, clock, history, clashed, seen, faults>>
        /\ reg[r].pc = "opened" /\ Goes(r, "written") /\ "written" \in RequestPCs
    BY DEF WriteFile, At, RequestPCs
  <1>3. /\ reg' \in [Registrants -> Request]
        /\ \A x \in Registrants :
             /\ reg'[x].pc = IF x = r THEN "written" ELSE reg[x].pc
             /\ reg'[x].name = reg[x].name
             /\ reg'[x].file = reg[x].file
    BY <1>0, <1>2, GoesFields
  <1>4. /\ DOMAIN queue' = DOMAIN queue /\ queue' \in [DOMAIN queue -> Files]
        /\ \A n \in DOMAIN queue :
             /\ queue'[n].file = queue[n].file
             /\ queue'[n].action = IF n = name /\ queue[n].file = reg[r].file
                                   THEN r ELSE queue[n].action
    BY <1>0, <1>1 DEF WriteFile, Exists, Files, TypeOK
  <1>5. TypeOK'
    BY <1>0, <1>2, <1>3, <1>4 DEF TypeOK, locks, history, Request
  <1>6. LocksOK'
    BY <1>0, <1>2, <1>3 DEF LocksOK, locks
  <1>7. FilesOK'
    <2>1. \A x \in Registrants : reg'[x].pc \in {"new", "named", "absent"} => reg'[x].file = None
      BY <1>0, <1>3 DEF FilesOK
    <2>2. ASSUME NEW n \in DOMAIN queue'
          PROVE  /\ reg'[queue'[n].file].file = queue'[n].file
                 /\ reg'[queue'[n].file].name = n
                 /\ queue'[n].action # None =>
                     /\ reg'[queue'[n].action].file = queue'[n].file
                     /\ reg'[queue'[n].action].name = n
      BY <1>0, <1>1, <1>3, <1>4 DEF FilesOK, Files
    <2>3. \A x, y \in Registrants : x \notin clashed' /\ reg'[y].file = x => y = x
      BY <1>0, <1>2, <1>3 DEF FilesOK
    <2> QED BY <2>1, <2>2, <2>3 DEF FilesOK
  <1>8. OwnFile'
    <2> SUFFICES ASSUME NEW x \in Registrants,
                        reg'[x].pc \in Opened, x \notin clashed \cup handled
                 PROVE  /\ reg'[x].name \in DOMAIN queue'
                        /\ queue'[reg'[x].name].file = x /\ reg'[x].file = x
                        /\ queue'[reg'[x].name].action =
                                IF reg'[x].pc = "opened" THEN None ELSE x
      BY <1>2 DEF OwnFile, history
    <2>1. reg[x].pc \in Opened
      BY <1>2, <1>3 DEF Opened
    <2>2. x # r => queue[reg[x].name].file # reg[r].file
      BY <1>0, <2>1 DEF OwnFile, FilesOK
    <2> QED BY <1>0, <1>2, <1>3, <1>4, <2>1, <2>2 DEF OwnFile
  <1>9. BatchOK'
    <2>1. \A t \in Tasks : task[t].batch \subseteq Entries
      BY <1>0 DEF TypeOK
    <2> QED BY <1>0, <1>2, <1>3, <1>4, <2>1 DEF BatchOK, Entries, history
  <1> QED BY <1>5, <1>6, <1>7, <1>8, <1>9 DEF IInv

\* A step of a task that changes its files and its batch but no request.
LEMMA BatchTask ==
    ASSUME IInv, NEW t \in Tasks, task' \in [Tasks -> Task],
           \A u \in Tasks : u # t => task'[u] = task[u],
           UNCHANGED <<queue, requests>>, handled \subseteq handled', handled' \subseteq Registrants,
           spawned' \in Nat, clock' \in Nat, faults' \in Nat,
           LocksOK',
           {queue_lock', processing_lock'} \subseteq {queue_lock, processing_lock, t, None},
           task'[t].pc \in Batched =>
                /\ task'[t].pc = "reading" => task'[t].todo \subseteq DOMAIN queue
                /\ \A e, f \in task'[t].batch : e.name = f.name => e = f
                /\ \A e \in task'[t].batch :
                    /\ e.name \in DOMAIN queue
                    /\ reg[e.action].file = queue[e.name].file
                    /\ reg[e.action].name = e.name
                    /\ task'[t].pc = "reading" => e.name \notin task'[t].todo
                    /\ task'[t].pc = "purging" => e.action \in handled'
    PROVE  IInv'
  <1>0. TypeOK /\ FilesOK /\ OwnFile /\ BatchOK  BY DEF IInv
  <1>1. TypeOK'
    BY <1>0 DEF TypeOK, requests, Task
  <1>2. FilesOK' /\ OwnFile'
    BY <1>0 DEF FilesOK, OwnFile, requests
  <1>3. BatchOK'
    BY <1>0 DEF BatchOK, requests
  <1> QED BY <1>1, <1>2, <1>3 DEF IInv

LEMMA ListActionsOK == ASSUME IInv, NEW t \in Tasks, ListActions(t) PROVE IInv'
  <1>1. TypeOK  BY DEF IInv
  <1>2. /\ task' = [task EXCEPT ![t] = [pc |-> "reading", todo |-> DOMAIN queue, batch |-> {}]]
        /\ task[t].pc = "listing"
        /\ UNCHANGED <<queue, locks, spawned, requests, history, faults>>
    BY DEF ListActions, In
  <1>3. /\ task' \in [Tasks -> Task]
        /\ task'[t] = [pc |-> "reading", todo |-> DOMAIN queue, batch |-> {}]
        /\ \A u \in Tasks : u # t => task'[u] = task[u]
    BY <1>1, <1>2 DEF TypeOK, Task, TaskPCs
  <1>4. clock' \in Nat
    BY <1>1, QueueAssumption DEF ListActions, TypeOK
  <1>5. LocksOK'
    BY <1>2, <1>3, Sections, TaskLocks DEF locks, requests, Processing, Batched, TaskPCs
  <1> QED
    BY <1>1, <1>2, <1>3, <1>4, <1>5, BatchTask DEF locks, history, TypeOK

LEMMA ReadActionOK == ASSUME IInv, NEW t \in Tasks, ReadAction(t) PROVE IInv'
  <1>0. TypeOK /\ FilesOK /\ BatchOK  BY DEF IInv
  <1>1. /\ task[t].pc = "reading"
        /\ UNCHANGED <<queue, locks, spawned, requests, clock, history, faults>>
    BY DEF ReadAction, In
  <1>2. PICK name \in task[t].todo :
            task' = [task EXCEPT ![t].todo = @ \ {name},
                                 ![t].batch = IF Readable(name)
                                              THEN @ \cup {[name |-> name, action |-> queue[name].action]}
                                              ELSE @]
    BY DEF ReadAction
  <1> DEFINE entry == [name |-> name, action |-> queue[name].action]
             batch == IF Readable(name) THEN task[t].batch \cup {entry} ELSE task[t].batch
  <1>3. task[t] \in Task /\ task[t].batch \subseteq Entries /\ name \in Nat
    BY <1>0 DEF TypeOK, Task
  <1>4. Readable(name) =>
            /\ queue[name].action \in Registrants
            /\ reg[queue[name].action].file = queue[name].file
            /\ reg[queue[name].action].name = name
    BY <1>0 DEF Readable, Exists, TypeOK, Files, FilesOK
  <1>5. batch \in SUBSET Entries
    BY <1>3, <1>4 DEF Entries
  <1>6. /\ task' \in [Tasks -> Task]
        /\ task'[t].pc = "reading"
        /\ task'[t].todo = task[t].todo \ {name}
        /\ task'[t].batch = batch
        /\ \A u \in Tasks : u # t => task'[u] = task[u]
    <2>1. task' = [task EXCEPT ![t].todo = task[t].todo \ {name}, ![t].batch = batch]
      BY <1>0, <1>2 DEF TypeOK
    <2>2. task \in [Tasks -> Task] /\ task[t].todo \ {name} \in SUBSET Nat
      BY <1>0 DEF TypeOK, Task
    <2> HIDE DEF batch
    <2> QED BY <1>1, <1>5, <2>1, <2>2 DEF Task
  <1>7. LocksOK'
    BY <1>1, <1>6, Sections, TaskLocks DEF locks, requests, Processing, Batched, TaskPCs
  <1>8. \A e \in batch : e \in task[t].batch \/ (Readable(name) /\ e = entry)
    <2>1. Readable(name) => batch = task[t].batch \cup {entry}
      OBVIOUS
    <2>2. ~Readable(name) => batch = task[t].batch
      OBVIOUS
    <2> HIDE DEF batch, entry
    <2> QED BY <2>1, <2>2
  <1>9. /\ \A e, f \in task[t].batch : e.name = f.name => e = f
        /\ \A e \in task[t].batch : e.name # name
    BY <1>0, <1>1 DEF BatchOK, Batched
  <1>10. entry.name = name /\ entry.action = queue[name].action
    OBVIOUS
  <1> HIDE DEF batch, entry
  <1>11. \A e, f \in batch : e.name = f.name => e = f
    BY <1>8, <1>9, <1>10
  <1>12. \A e \in batch :
            /\ e.name \in DOMAIN queue
            /\ reg[e.action].file = queue[e.name].file
            /\ reg[e.action].name = e.name
            /\ e.name \notin task'[t].todo
    BY <1>0, <1>1, <1>4, <1>6, <1>8, <1>10 DEF BatchOK, Batched, Readable, Exists
  <1>13. task'[t].todo \subseteq DOMAIN queue
    BY <1>0, <1>1, <1>6 DEF BatchOK, Batched
  <1> QED
    BY <1>0, <1>1, <1>6, <1>7, <1>11, <1>12, <1>13, BatchTask DEF locks, history, TypeOK

LEMMA ApplyRightActionsOK == ASSUME IInv, NEW t \in Tasks, ApplyRightActions(t) PROVE IInv'
  <1>0. TypeOK /\ BatchOK  BY DEF IInv
  <1>1. /\ task[t].pc = "distributing"
        /\ task' = [task EXCEPT ![t].pc = "purging"]
        /\ handled' = handled \cup Actions(task[t].batch)
        /\ UNCHANGED <<queue, locks, spawned, requests, clock, faults>>
    BY DEF ApplyRightActions, In, Moves
  <1>2. /\ task' \in [Tasks -> Task] /\ task[t].batch \subseteq Entries
        /\ task'[t].pc = "purging" /\ task'[t].batch = task[t].batch
        /\ \A u \in Tasks : u # t => task'[u] = task[u]
    BY <1>0, <1>1 DEF TypeOK, Task, TaskPCs
  <1>3. /\ handled \subseteq handled' /\ handled' \subseteq Registrants
        /\ \A e \in task[t].batch : e.action \in handled'
    BY <1>0, <1>1, <1>2 DEF TypeOK, Actions, Entries
  <1>4. LocksOK'
    BY <1>1, <1>2, Sections, TaskLocks DEF locks, requests, Processing, Batched, TaskPCs
  <1>5. /\ \A e, f \in task'[t].batch : e.name = f.name => e = f
        /\ \A e \in task'[t].batch :
            /\ e.name \in DOMAIN queue
            /\ reg[e.action].file = queue[e.name].file
            /\ reg[e.action].name = e.name
            /\ e.action \in handled'
    BY <1>0, <1>1, <1>2, <1>3 DEF BatchOK, Batched
  <1> QED
    BY <1>0, <1>1, <1>2, <1>3, <1>4, <1>5, BatchTask DEF locks, TypeOK

LEMMA TaskFailsOK == ASSUME IInv, NEW t \in Tasks, TaskFails(t) PROVE IInv'
  <1>0. TypeOK  BY DEF IInv
  <1>1. /\ task' = [task EXCEPT ![t] = IdleTask]
        /\ UNCHANGED <<queue, spawned, requests, clock, history>>
        /\ queue_lock' = IF queue_lock = t THEN None ELSE queue_lock
        /\ processing_lock' = IF processing_lock = t THEN None ELSE processing_lock
        /\ faults' \in Nat
    BY <1>0 DEF TaskFails, ReleaseAll, TypeOK
  <1>2. /\ task' \in [Tasks -> Task] /\ task'[t].pc = "idle"
        /\ \A u \in Tasks : u # t => task'[u] = task[u]
    BY <1>0, <1>1 DEF TypeOK, IdleTask, Task, TaskPCs
  <1>3. LocksOK'
    BY <1>1, <1>2, TaskLocks DEF requests, Processing, Batched, TaskPCs
  <1> QED
    BY <1>0, <1>1, <1>2, <1>3, BatchTask DEF history, Batched, TypeOK

LEMMA PurgeActionOK == ASSUME IInv, NEW t \in Tasks, PurgeAction(t) PROVE IInv'
  <1>0. TypeOK /\ LocksOK /\ FilesOK /\ OwnFile /\ BatchOK  BY DEF IInv
  <1>1. /\ task[t].pc = "purging"
        /\ UNCHANGED <<locks, spawned, requests, clock, history, faults>>
    BY DEF PurgeAction, In
  <1>2. PICK entry \in task[t].batch :
            /\ queue' = Restrict(queue, DOMAIN queue \ {entry.name})
            /\ task' = [task EXCEPT ![t].batch = @ \ {entry}]
    BY DEF PurgeAction
  <1>3. /\ DOMAIN queue' = DOMAIN queue \ {entry.name}
        /\ queue' \in [DOMAIN queue' -> Files]
        /\ \A n \in DOMAIN queue' : queue'[n] = queue[n]
    BY <1>0, <1>2 DEF Restrict, TypeOK
  <1>4. /\ task' \in [Tasks -> Task]
        /\ \A u \in Tasks : task'[u].pc = task[u].pc
        /\ task'[t].batch = task[t].batch \ {entry}
        /\ \A u \in Tasks : u # t => task'[u] = task[u]
    BY <1>0, <1>2 DEF TypeOK, Task
  <1>5. /\ task[t].batch \subseteq Entries
        /\ entry.action \in Registrants
    BY <1>0, <1>2 DEF TypeOK, Entries
  <1>6. TypeOK'
    BY <1>0, <1>1, <1>3, <1>4 DEF TypeOK, locks, requests, history, Task
  <1>7. LocksOK'
    BY <1>0, <1>1, <1>4 DEF LocksOK, locks, requests
  <1>8. FilesOK'
    BY <1>0, <1>1, <1>3 DEF FilesOK, requests
  <1>9. OwnFile'
    <2> SUFFICES ASSUME NEW x \in Registrants,
                        reg[x].pc \in Opened, x \notin clashed \cup handled
                 PROVE  /\ reg[x].name \in DOMAIN queue'
                        /\ queue'[reg[x].name] = queue[reg[x].name]
      BY <1>0, <1>1 DEF OwnFile, requests, history
    <2>1. reg[x].name # entry.name
      <3>1. reg[entry.action].file = queue[entry.name].file /\ entry.action \in handled
        BY <1>0, <1>1, <1>2 DEF BatchOK, Batched
      <3> QED BY <1>0, <1>5, <3>1 DEF OwnFile, FilesOK
    <2> QED BY <1>0, <1>3, <2>1 DEF OwnFile
  <1>10. BatchOK'
    <2>1. \A u \in Tasks : task'[u].pc \in Batched => u = t
      BY <1>0, <1>1, <1>4 DEF LocksOK, Processing, Batched
    <2>2. \A e \in task'[t].batch : e \in task[t].batch /\ e.name # entry.name
      BY <1>0, <1>1, <1>2, <1>4 DEF BatchOK, Batched
    <2> QED BY <1>0, <1>1, <1>3, <1>4, <2>1, <2>2 DEF BatchOK, Batched, requests, history
  <1> QED BY <1>6, <1>7, <1>8, <1>9, <1>10 DEF IInv

LEMMA TaskStepOK == ASSUME IInv, NEW t \in Tasks, TaskStep(t) PROVE IInv'
  BY StartTaskOK, AcquireQueueOK, AcquireProcessingOK, ReleaseQueueOK, ListActionsOK,
     ReadActionOK, AllReadOK, ApplyGroupActionsOK, ApplyRightActionsOK, PurgeActionOK,
     AllPurgedOK, FinishOK
  DEF TaskStep

LEMMA RequestStepOK == ASSUME IInv, NEW r \in Registrants, RequestStep(r) PROVE IInv'
  BY ProbeOK, OpenFileOK, WriteFileOK, CheckLockAcquiredOK, ReleaseCheckedOK, DelayOK
  DEF RequestStep

LEMMA StutterOK == ASSUME IInv, UNCHANGED vars PROVE IInv'
  BY DEF IInv, TypeOK, LocksOK, FilesOK, OwnFile, BatchOK, vars, locks, requests, history

LEMMA StepOK == ASSUME IInv, [Next]_vars PROVE IInv'
  <1>1. CASE UNCHANGED vars
    BY <1>1, StutterOK
  <1>2. ASSUME NEW r \in Registrants, RegisterAction(r) \/ RequestStep(r) \/ RequestFails(r)
        PROVE  IInv'
    BY <1>2, RegisterActionOK, RequestStepOK, RequestFailsOK
  <1>3. ASSUME NEW t \in Tasks, TaskStep(t) \/ TaskFails(t)
        PROVE  IInv'
    BY <1>3, TaskStepOK, TaskFailsOK
  <1>4. CASE Rest
    BY <1>4, StutterOK DEF Rest
  <1> QED BY <1>1, <1>2, <1>3, <1>4 DEF Next

\* The inductive invariant of the directory, the locks and the processes, whatever
\* requests and tasks do at the same time and whatever fails.
THEOREM Invariance == Spec => []IInv
  <1>1. IInv /\ [Next]_vars => IInv'
    BY StepOK
  <1> QED BY <1>1, InitOK, PTL DEF Spec

\* The types, among them that a task takes no unfinished file for an action.
THEOREM TypeCorrect == Spec => []TypeOK
  <1>1. IInv => TypeOK
    BY DEF IInv
  <1> QED BY <1>1, Invariance, PTL

\* An action that nobody has applied is still in the directory: the file is removed
\* after the action, or one that replaces it, has taken effect (_purge_actions).
THEOREM PurgedAfterApplied == Spec => []PurgedIsHandled
  <1>1. IInv => PurgedIsHandled
    BY DEF IInv, OwnFile, PurgedIsHandled, Opened, Written, Exists
  <1> QED BY <1>1, Invariance, PTL

-----------------------------------------------------------------------------
(* No action is forgotten.                                                  *)

\* Some task has the action of r or will list the directory.
Awaited(r) == Coming \/ \E t \in Tasks : Has(t, r)
Unhandled(r) == At(r, "done") /\ r \notin clashed \cup handled

\* A step of a request: the tasks stay where they are, and a request that starts a
\* task does so.
LEMMA RequestAwaited ==
    ASSUME IInv, NEW x \in Registrants, NEW r \in Registrants,
           RegisterAction(x) \/ RequestStep(x), Unhandled(r)', Unhandled(r) => Awaited(r)
    PROVE  Awaited(r)'
  <1>0. TypeOK /\ LocksOK  BY DEF IInv
  <1>1. UNCHANGED <<task, handled>> /\ clashed \subseteq clashed' /\ spawned \in Nat
    BY <1>0
    DEF RegisterAction, RequestStep, Probe, OpenFile, WriteFile, CheckLockAcquired,
        ReleaseChecked, Delay, history, TypeOK
  <1>2. /\ DOMAIN reg' = Registrants
        /\ \A y \in Registrants : y # x => reg'[y] = reg[y]
    BY <1>0
    DEF RegisterAction, RequestStep, Probe, OpenFile, WriteFile, CheckLockAcquired,
        ReleaseChecked, Delay, Goes, TypeOK
  <1>3. CASE RegisterAction(x) \/ Probe(x) \/ OpenFile(x) \/ WriteFile(x)
    <2>1. /\ reg[x].pc \in {"new", "named", "absent", "opened"}
          /\ reg'[x].pc \in {"named", "absent", "opened", "written"}
          /\ UNCHANGED spawned
      BY <1>0, <1>3 DEF RegisterAction, Probe, OpenFile, WriteFile, At, Goes, TypeOK
    <2>2. r # x /\ Unhandled(r)
      BY <1>1, <1>2, <2>1 DEF Unhandled, At
    <2> QED
      BY <1>1, <1>2, <2>1, <2>2 DEF Awaited, Coming, Has, In
  <1>4. CASE CheckLockAcquired(x)
    <2>1. reg[x].pc = "written" /\ UNCHANGED spawned
      BY <1>4 DEF CheckLockAcquired, At
    <2>2. CASE queue_lock = None
      <3>1. reg'[x].pc = "checking"
        BY <1>0, <1>4, <2>2 DEF CheckLockAcquired, Goes, TypeOK
      <3> QED BY <3>1 DEF Awaited, Coming
    <2>3. CASE queue_lock # None
      <3>1. reg'[x].pc = "done"
        BY <1>0, <1>4, <2>3 DEF CheckLockAcquired, Goes, TypeOK
      <3>2. PICK p \in Registrants \cup Tasks : queue_lock = p
        BY <1>0, <2>3 DEF TypeOK
      <3>3. CASE p \in Registrants
        <4>1. reg[p].pc = "checking" /\ p # x
          BY <1>0, <2>1, <3>2, <3>3 DEF LocksOK
        <4> QED BY <1>2, <3>3, <4>1 DEF Awaited, Coming
      <3>4. CASE p \in Tasks
        <4>1. task[p].pc \in {"queued", "holding"}
          BY <1>0, <3>2, <3>4 DEF LocksOK
        <4> QED BY <1>1, <3>4, <4>1 DEF Awaited, Coming
      <3> QED BY <3>3, <3>4
    <2> QED BY <2>2, <2>3
  <1>5. CASE ReleaseChecked(x)
    <2>1. reg'[x].pc = "released"
      BY <1>0, <1>5 DEF ReleaseChecked, Goes, TypeOK
    <2> QED BY <2>1 DEF Awaited, Coming
  <1>6. CASE Delay(x)
    <2>1. spawned' > 0
      BY <1>1, <1>6 DEF Delay
    <2> QED BY <2>1 DEF Awaited, Coming
  <1> QED BY <1>3, <1>4, <1>5, <1>6 DEF RequestStep

\* A step of a task: the directory it lists has the file, the files it reads become
\* its batch, and its batch is applied.
LEMMA TaskAwaited ==
    ASSUME IInv, NEW t \in Tasks, NEW r \in Registrants,
           TaskStep(t), Unhandled(r)', Unhandled(r) => Awaited(r)
    PROVE  Awaited(r)'
  <1>0. TypeOK /\ OwnFile  BY DEF IInv
  <1>1. UNCHANGED <<reg, clashed>> /\ handled \subseteq handled'
    BY DEF TaskStep, StartTask, AcquireQueue, AcquireProcessing, ReleaseQueue, ListActions,
        ReadAction, AllRead, ApplyGroupActions, ApplyRightActions, PurgeAction, AllPurged,
        Finish, requests, history
  <1>2. /\ Unhandled(r) /\ Awaited(r) /\ r \notin handled'
        /\ reg[r].name \in DOMAIN queue /\ queue[reg[r].name].action = r
    BY <1>0, <1>1 DEF Unhandled, At, OwnFile, Opened, Written
  <1>3. CASE StartTask(t) \/ AcquireQueue(t) \/ AcquireProcessing(t) \/ ReleaseQueue(t)
    <2>1. task'[t].pc \in {"started", "queued", "holding", "listing"}
      BY <1>0, <1>3
      DEF StartTask, AcquireQueue, AcquireProcessing, ReleaseQueue, Moves, TypeOK
    <2> QED BY <2>1 DEF Awaited, Coming
  <1>4. CASE ListActions(t)
    <2>1. task'[t].pc = "reading" /\ task'[t].todo = DOMAIN queue
      BY <1>0, <1>4 DEF ListActions, TypeOK
    <2> QED BY <1>1, <1>2, <2>1 DEF Awaited, Has, In
  <1>5. ASSUME UNCHANGED spawned,
               task[t].pc \notin {"started", "queued", "holding", "listing"},
               \A u \in Tasks : u # t => task'[u] = task[u],
               Has(t, r) => Has(t, r)'
        PROVE  Awaited(r)'
    <2>1. Coming => Coming'
      BY <1>1, <1>5 DEF Coming
    <2>2. ASSUME NEW u \in Tasks, Has(u, r) PROVE Has(u, r)'
      BY <1>1, <1>5, <2>2 DEF Has, In
    <2> QED BY <1>2, <2>1, <2>2 DEF Awaited
  <1>6. CASE ReadAction(t)
    <2>1. PICK name \in task[t].todo :
            task' = [task EXCEPT ![t].todo = @ \ {name},
                                 ![t].batch = IF Readable(name)
                                              THEN @ \cup {[name |-> name, action |-> queue[name].action]}
                                              ELSE @]
      BY <1>6 DEF ReadAction
    <2>2. task[t].pc = "reading" /\ UNCHANGED spawned
      BY <1>6 DEF ReadAction, In
    <2>3. /\ task'[t].pc = "reading" /\ task'[t].todo = task[t].todo \ {name}
          /\ task'[t].batch = IF Readable(name)
                              THEN task[t].batch \cup {[name |-> name, action |-> queue[name].action]}
                              ELSE task[t].batch
          /\ \A u \in Tasks : u # t => task'[u] = task[u]
      BY <1>0, <2>1, <2>2 DEF TypeOK
    <2>4. Actions(task[t].batch) \subseteq Actions(task'[t].batch)
      BY <2>3 DEF Actions
    <2>5. CASE name = reg[r].name
      <3>1. Readable(name) /\ queue[name].action = r
        BY <1>2, <2>5, QueueAssumption DEF Readable, Exists
      <3>2. [name |-> name, action |-> r] \in task'[t].batch
        BY <2>3, <3>1
      <3>3. r \in Actions(task'[t].batch)
        BY <3>2 DEF Actions
      <3> QED BY <1>5, <2>2, <2>3, <3>3 DEF Has
    <2>6. CASE name # reg[r].name
      BY <1>1, <1>5, <2>2, <2>3, <2>4, <2>6 DEF Has, In
    <2> QED BY <2>5, <2>6
  <1>7. CASE AllRead(t)
    <2>1. /\ task[t].pc = "reading" /\ task[t].todo = {} /\ UNCHANGED spawned
          /\ task'[t].pc = IF task[t].batch = {} THEN "ending" ELSE "applying"
          /\ task'[t].batch = task[t].batch
          /\ \A u \in Tasks : u # t => task'[u] = task[u]
      BY <1>0, <1>7 DEF AllRead, In, Moves, TypeOK
    <2>2. Has(t, r) => Has(t, r)'
      BY <2>1 DEF Has, In, Actions
    <2> QED BY <1>5, <2>1, <2>2
  <1>8. CASE ApplyGroupActions(t)
    <2>1. /\ task[t].pc = "applying" /\ UNCHANGED spawned
          /\ task'[t].pc = "distributing" /\ task'[t].batch = task[t].batch
          /\ \A u \in Tasks : u # t => task'[u] = task[u]
      BY <1>0, <1>8 DEF ApplyGroupActions, In, Moves, TypeOK
    <2> QED BY <1>5, <2>1 DEF Has, In
  <1>9. CASE ApplyRightActions(t)
    <2>1. /\ task[t].pc = "distributing" /\ UNCHANGED spawned
          /\ handled' = handled \cup Actions(task[t].batch)
          /\ \A u \in Tasks : u # t => task'[u] = task[u]
      BY <1>0, <1>9 DEF ApplyRightActions, In, Moves, TypeOK
    <2>2. ~Has(t, r)
      BY <1>2, <2>1 DEF Has, In
    <2> QED BY <1>5, <2>1, <2>2
  <1>10. CASE PurgeAction(t) \/ AllPurged(t) \/ Finish(t)
    <2>1. /\ task[t].pc \in {"purging", "ending"} /\ UNCHANGED spawned
          /\ \A u \in Tasks : u # t => task'[u] = task[u]
      BY <1>0, <1>10 DEF PurgeAction, AllPurged, Finish, In, Moves, TypeOK
    <2> QED BY <1>5, <2>1 DEF Has, In
  <1> QED BY <1>3, <1>4, <1>6, <1>7, <1>8, <1>9, <1>10 DEF TaskStep

LEMMA StepForgetsNothing ==
    ASSUME IInv, NoActionForgotten, [Next]_vars
    PROVE  NoActionForgotten'
  <1>0. faults \in Nat  BY DEF IInv, TypeOK
  <1> SUFFICES ASSUME faults' = 0, NEW r \in Registrants, Unhandled(r)'
               PROVE  Awaited(r)'
    BY DEF NoActionForgotten, Unhandled, Awaited
  <1>1. ASSUME faults = 0 PROVE Unhandled(r) => Awaited(r)
    BY <1>1 DEF NoActionForgotten, Unhandled, Awaited
  <1>2. CASE UNCHANGED vars
    <2>1. Unhandled(r) /\ faults = 0
      BY <1>2 DEF Unhandled, At, vars, requests, history
    <2> QED
      BY <1>1, <1>2, <2>1 DEF Awaited, Coming, Has, In, Actions, vars, requests
  <1>3. ASSUME NEW x \in Registrants, RegisterAction(x) \/ RequestStep(x)
        PROVE  Awaited(r)'
    <2>1. faults = 0
      BY <1>3 DEF RegisterAction, RequestStep, Probe, OpenFile, WriteFile,
                  CheckLockAcquired, ReleaseChecked, Delay
    <2> QED BY <1>1, <1>3, <2>1, RequestAwaited
  <1>4. ASSUME NEW t \in Tasks, TaskStep(t) PROVE Awaited(r)'
    <2>1. faults = 0
      BY <1>4 DEF TaskStep, StartTask, AcquireQueue, AcquireProcessing, ReleaseQueue,
                  ListActions, ReadAction, AllRead, ApplyGroupActions, ApplyRightActions,
                  PurgeAction, AllPurged, Finish
    <2> QED BY <1>1, <1>4, <2>1, TaskAwaited
  <1>5. ASSUME NEW x \in Registrants, RequestFails(x) PROVE FALSE
    BY <1>0, <1>5 DEF RequestFails
  <1>6. ASSUME NEW t \in Tasks, TaskFails(t) PROVE FALSE
    BY <1>0, <1>6 DEF TaskFails
  <1>7. Rest => UNCHANGED vars
    BY DEF Rest
  <1> QED BY <1>2, <1>3, <1>4, <1>5, <1>6, <1>7 DEF Next

\* The FIXME of apply_pending_actions_impl is unfounded: a request that finds the
\* queue lock taken and starts no task leaves its action to a task that will list the
\* directory, for any number of requests and tasks, as long as nothing fails.
THEOREM NothingForgotten == Spec => []NoActionForgotten
  <1>1. Init => NoActionForgotten
    BY DEF Init, NoActionForgotten, At, NewRequest
  <1>2. IInv /\ NoActionForgotten /\ [Next]_vars => NoActionForgotten'
    BY StepForgetsNothing
  <1> QED BY <1>1, <1>2, Invariance, PTL DEF Spec

-----------------------------------------------------------------------------
(* No action takes effect twice.                                            *)

\* The group actions of a task that is between the two kinds have taken effect.
Begun == {r \in Registrants :
            \E t \in Tasks : /\ task[t].pc = "distributing"
                             /\ r \in Actions(task[t].batch) \ RightActions}

\* Only the file of a request that has written it is read, or handled.
Past == Written \cup {"failed"}
PastOK ==
    /\ \A n \in DOMAIN queue : queue[n].action # None => reg[queue[n].action].pc \in Past
    /\ \A t \in Tasks : \A r \in Actions(task[t].batch) : reg[r].pc \in Past
    /\ \A r \in handled : reg[r].pc \in Past

\* What has taken effect is handled or about to be; what a task has taken is not,
\* and a handled action that still has its file is about to lose it.
Apart ==
    /\ \A i \in DOMAIN applied : applied[i] \in handled \cup Begun
    /\ \A t \in Tasks : task[t].pc \in Taken => Actions(task[t].batch) \cap handled = {}
    /\ \A n \in DOMAIN queue : queue[n].action \in handled =>
        \E t \in Tasks : task[t].pc = "purging" /\ \E e \in task[t].batch : e.name = n

Once == \A i, j \in DOMAIN applied : applied[i] = applied[j] => i = j

OnceInv ==
    /\ applied \in Seq(Registrants)
    /\ \A t \in Tasks : IsFiniteSet(task[t].batch)
    /\ PastOK
    /\ faults = 0 => Apart /\ Once

\* What is applied in one step: some of the actions of a batch, each once.
LEMMA SortedOnce ==
    ASSUME NEW batch \in SUBSET Entries, IsFiniteSet(batch), NEW S, NEW order \in Sorted(batch, S),
           \A e, f \in batch : e.action = f.action => e = f
    PROVE  LET s == [i \in DOMAIN order |-> order[i].action]
           IN  /\ s \in Seq(Registrants)
               /\ \A i \in DOMAIN s : s[i] \in Actions(batch) \cap S
               /\ \A i, j \in DOMAIN s : s[i] = s[j] => i = j
  <1> DEFINE E == {e \in batch : e.action \in S}
             n == Cardinality(E)
             s == [i \in DOMAIN order |-> order[i].action]
  <1>1. n \in Nat
    <2>1. IsFiniteSet(E)
      BY FS_Subset
    <2> QED BY <2>1, FS_CardinalityType
  <1>2. /\ DOMAIN order = 1..n /\ \A i \in 1..n : order[i] \in E
        /\ \A i, j \in 1..n : i < j => order[i].name < order[j].name
    BY DEF Sorted
  <1> HIDE DEF n
  <1>3. \A i \in 1..n : order[i] \in batch /\ order[i].action \in S
                        /\ order[i].name \in Nat /\ order[i].action \in Registrants
    BY <1>2 DEF Entries
  <1>4. s \in Seq(Registrants) /\ DOMAIN s = 1..n /\ \A i \in 1..n : s[i] = order[i].action
    BY <1>1, <1>2, <1>3, SeqDef
  <1> HIDE DEF s
  <1>5. \A i \in 1..n : s[i] \in Actions(batch) \cap S
    BY <1>3, <1>4 DEF Actions
  <1>6. ASSUME NEW i \in 1..n, NEW j \in 1..n, s[i] = s[j]
        PROVE  i = j
    <2>1. order[i] = order[j]
      BY <1>3, <1>4, <1>6
    <2>2. ~(i < j) /\ ~(j < i)
      BY <1>2, <1>3, <2>1
    <2> QED BY <1>1, <2>2
  <1> QED BY <1>4, <1>5, <1>6 DEF s

\* An element of a concatenation is one of the first sequence or of the second.
LEMMA AppendParts ==
    ASSUME NEW a \in Seq(Registrants), NEW s \in Seq(Registrants)
    PROVE  /\ a \o s \in Seq(Registrants)
           /\ \A i \in DOMAIN (a \o s) : \/ \E j \in DOMAIN a : (a \o s)[i] = a[j]
                                         \/ \E j \in DOMAIN s : (a \o s)[i] = s[j]
  <1> DEFINE m == Len(a)
             k == Len(s)
             c == a \o s
  <1>1. /\ m \in Nat /\ k \in Nat /\ DOMAIN a = 1..m /\ DOMAIN s = 1..k
        /\ c \in Seq(Registrants) /\ DOMAIN c = 1..(m + k)
        /\ \A i \in 1..(m + k) : c[i] = IF i =< m THEN a[i] ELSE s[i - m]
    BY ConcatProperties, LenProperties
  <1> HIDE DEF m, k, c
  <1>2. \A i \in 1..(m + k) : IF i =< m THEN i \in 1..m ELSE i - m \in 1..k
    BY <1>1
  <1>3. \A i \in 1..(m + k) : (\E j \in 1..m : c[i] = a[j]) \/ (\E j \in 1..k : c[i] = s[j])
    BY <1>1, <1>2
  <1> QED BY <1>1, <1>3 DEF c

\* What is appended has not taken effect before.
LEMMA AppendOnce ==
    ASSUME NEW a \in Seq(Registrants), NEW s \in Seq(Registrants),
           \A i, j \in DOMAIN a : a[i] = a[j] => i = j,
           \A i, j \in DOMAIN s : s[i] = s[j] => i = j,
           \A i \in DOMAIN a, j \in DOMAIN s : a[i] # s[j]
    PROVE  \A i, j \in DOMAIN (a \o s) : (a \o s)[i] = (a \o s)[j] => i = j
  <1> DEFINE m == Len(a)
             k == Len(s)
             c == a \o s
  <1>1. /\ m \in Nat /\ k \in Nat /\ DOMAIN a = 1..m /\ DOMAIN s = 1..k
        /\ DOMAIN c = 1..(m + k)
        /\ \A i \in 1..(m + k) : c[i] = IF i =< m THEN a[i] ELSE s[i - m]
    BY ConcatProperties, LenProperties
  <1> HIDE DEF m, k, c
  <1>2. \A i \in 1..(m + k) : IF i =< m THEN i \in 1..m ELSE i - m \in 1..k
    BY <1>1
  <1>3. ASSUME NEW i \in 1..(m + k), NEW j \in 1..(m + k), c[i] = c[j]
        PROVE  i = j
    <2>1. CASE i =< m /\ j =< m
      BY <1>1, <1>2, <1>3, <2>1
    <2>2. CASE ~(i =< m) /\ ~(j =< m)
      <3>1. i - m \in 1..k /\ j - m \in 1..k /\ s[i - m] = s[j - m]
        BY <1>1, <1>2, <1>3, <2>2
      <3>2. i - m = j - m
        BY <1>1, <3>1
      <3> QED BY <1>1, <3>2
    <2>3. CASE i =< m /\ ~(j =< m)
      BY <1>1, <1>2, <1>3, <2>3
    <2>4. CASE ~(i =< m) /\ j =< m
      BY <1>1, <1>2, <1>3, <2>4
    <2> QED BY <2>1, <2>2, <2>3, <2>4
  <1> QED BY <1>1, <1>3 DEF c

LEMMA OneProcessing ==
    ASSUME IInv, NEW t \in Tasks, NEW u \in Tasks,
           task[t].pc \in Processing, task[u].pc \in Processing
    PROVE  t = u
  BY Sections

\* A step of a request: what it writes into a file has not been handled.
LEMMA RequestOnce ==
    ASSUME IInv, OnceInv, UNCHANGED <<task, applied, handled>>, faults' = 0 => faults = 0,
           NEW x \in Registrants,
           \A y \in Registrants :
                reg[y].pc \in Past => reg'[y].pc \in Past /\ reg'[y].right = reg[y].right,
           \A n \in DOMAIN queue' :
                \/ n \in DOMAIN queue /\ queue'[n].action = queue[n].action
                \/ queue'[n].action = None
                \/ queue'[n].action = x /\ reg[x].pc \notin Past /\ reg'[x].pc \in Past
    PROVE  OnceInv'
  <1>1. TypeOK /\ PastOK /\ handled \subseteq Registrants /\ None \notin Registrants
    BY QueueAssumption DEF IInv, TypeOK, OnceInv
  <1>2. /\ \A n \in DOMAIN queue : queue[n].action \in Registrants \cup {None}
        /\ \A t \in Tasks : Actions(task[t].batch) \subseteq Registrants
    BY <1>1 DEF TypeOK, Files, Actions, Entries
  <1>3. PastOK'
    BY <1>1, <1>2 DEF PastOK, Actions
  <1>4. Begun \subseteq Begun'
    <2> SUFFICES ASSUME NEW r \in Begun PROVE r \in Begun'
      OBVIOUS
    <2>1. PICK t \in Tasks : task[t].pc = "distributing" /\ r \in Actions(task[t].batch) \ RightActions
      BY DEF Begun
    <2>2. r \in Registrants /\ reg'[r].right = reg[r].right
      BY <1>1, <1>2, <2>1 DEF PastOK
    <2>3. r \notin RightActions'
      BY <2>1, <2>2 DEF RightActions
    <2> QED BY <2>1, <2>2, <2>3 DEF Begun, Actions
  <1>5. ASSUME Apart PROVE Apart'
    <2>1. ASSUME NEW n \in DOMAIN queue', queue'[n].action \in handled
          PROVE  n \in DOMAIN queue /\ queue[n].action \in handled
      BY <1>1, <2>1 DEF PastOK
    <2>2. \A n \in DOMAIN queue' : queue'[n].action \in handled' =>
            \E t \in Tasks : task'[t].pc = "purging" /\ \E e \in task'[t].batch : e.name = n
      BY <1>5, <2>1 DEF Apart
    <2>3. \A i \in DOMAIN applied' : applied'[i] \in handled' \cup Begun'
      BY <1>4, <1>5 DEF Apart
    <2>4. \A t \in Tasks : task'[t].pc \in Taken => Actions(task'[t].batch) \cap handled' = {}
      BY <1>5 DEF Apart
    <2> QED BY <2>2, <2>3, <2>4 DEF Apart
  <1>6. Once => Once'
    BY DEF Once
  <1> QED BY <1>3, <1>5, <1>6 DEF OnceInv

LEMMA RequestStepOnce ==
    ASSUME IInv, OnceInv, NEW r \in Registrants,
           RegisterAction(r) \/ RequestStep(r) \/ RequestFails(r)
    PROVE  OnceInv'
  <1>0. TypeOK /\ faults \in Nat /\ DOMAIN reg = Registrants
    BY DEF IInv, TypeOK
  <1>1. UNCHANGED <<task, applied, handled>> /\ (faults' = 0 => faults = 0)
    BY <1>0 DEF RegisterAction, RequestStep, Probe, OpenFile, WriteFile, CheckLockAcquired,
           ReleaseChecked, Delay, RequestFails, history
  <1>2. ASSUME NEW y \in Registrants, reg[y].pc \in Past
        PROVE  reg'[y].pc \in Past /\ reg'[y].right = reg[y].right
    <2>1. reg[y] \in Request
      BY <1>0 DEF TypeOK, Request
    <2>2. CASE RegisterAction(r) \/ Probe(r) \/ OpenFile(r) \/ WriteFile(r)
      BY <1>0, <1>2, <2>2
      DEF RegisterAction, Probe, OpenFile, WriteFile, At, Goes, Past, Written, TypeOK
    <2>3. CASE CheckLockAcquired(r) \/ ReleaseChecked(r) \/ Delay(r) \/ RequestFails(r)
      BY <1>0, <1>2, <2>3
      DEF CheckLockAcquired, ReleaseChecked, Delay, RequestFails, Goes, Past, Written, TypeOK
    <2> QED BY <2>2, <2>3 DEF RequestStep
  <1>3. ASSUME NEW n \in DOMAIN queue'
        PROVE  \/ n \in DOMAIN queue /\ queue'[n].action = queue[n].action
               \/ queue'[n].action = None
               \/ queue'[n].action = r /\ reg[r].pc \notin Past /\ reg'[r].pc \in Past
    <2>1. CASE OpenFile(r)
      <3>1. DOMAIN queue' = DOMAIN queue \cup {reg[r].name}
            /\ queue'[n] = IF n = reg[r].name
                           THEN [file |-> IF Exists(reg[r].name) THEN queue[reg[r].name].file ELSE r,
                                 action |-> None]
                           ELSE queue[n]
        BY <2>1 DEF OpenFile, Put
      <3> QED BY <3>1
    <2>2. CASE WriteFile(r)
      <3>1. reg[r].pc \notin Past /\ reg'[r].pc \in Past
        BY <1>0, <2>2 DEF WriteFile, At, Goes, Past, Written, TypeOK
      <3>2. \/ UNCHANGED queue
            \/ queue' = [queue EXCEPT ![reg[r].name].action = r]
        BY <2>2 DEF WriteFile
      <3>3. \A m \in DOMAIN queue : queue[m] \in Files
        BY <1>0 DEF TypeOK
      <3> QED BY <3>1, <3>2, <3>3 DEF Files
    <2>3. CASE UNCHANGED queue
      BY <2>3
    <2>4. OpenFile(r) \/ WriteFile(r) \/ UNCHANGED queue
      BY DEF RegisterAction, RequestStep, Probe, CheckLockAcquired, ReleaseChecked, Delay,
             RequestFails
    <2> QED BY <2>1, <2>2, <2>3, <2>4
  <1> QED BY <1>1, <1>2, <1>3, RequestOnce

\* A step of a task that takes, applies and handles nothing.
LEMMA QuietOnce ==
    ASSUME IInv, OnceInv, NEW t \in Tasks, NEW pc \in TaskPCs, Moves(t, pc),
           UNCHANGED <<queue, reg, applied, handled, faults>>,
           task[t].pc # "distributing", pc \notin {"distributing", "purging"},
           task[t].pc = "purging" => task[t].batch = {},
           pc \in Taken => task[t].pc \in Taken
    PROVE  OnceInv'
  <1>0. TypeOK  BY DEF IInv
  <1>1. \A u \in Tasks : /\ task'[u].batch = task[u].batch
                         /\ task'[u].pc = IF u = t THEN pc ELSE task[u].pc
    BY <1>0, MovesFields
  <1>2. PastOK'
    BY <1>1 DEF OnceInv, PastOK, Actions
  <1>3. Begun \subseteq Begun'
    BY <1>1 DEF Begun, Actions, RightActions
  <1>4. Apart => Apart'
    BY <1>1, <1>3 DEF Apart, Actions
  <1>5. Once => Once'
    BY DEF Once
  <1> QED BY <1>1, <1>2, <1>4, <1>5 DEF OnceInv

LEMMA QuietStepsOnce ==
    ASSUME IInv, OnceInv, NEW t \in Tasks,
           \/ StartTask(t) \/ AcquireQueue(t) \/ AcquireProcessing(t) \/ ReleaseQueue(t)
           \/ AllRead(t) \/ AllPurged(t) \/ Finish(t)
    PROVE  OnceInv'
  <1>1. UNCHANGED <<queue, reg, applied, handled, faults>>
    BY DEF StartTask, AcquireQueue, AcquireProcessing, ReleaseQueue, AllRead, AllPurged,
           Finish, requests, history
  <1>2. CASE StartTask(t) \/ AcquireQueue(t) \/ AcquireProcessing(t) \/ ReleaseQueue(t) \/ Finish(t)
    <2>1. PICK pc \in TaskPCs :
            Moves(t, pc) /\ pc \in {"started", "queued", "holding", "listing", "idle"}
      BY <1>2 DEF StartTask, AcquireQueue, AcquireProcessing, ReleaseQueue, Finish, TaskPCs
    <2>2. task[t].pc \in {"idle", "started", "queued", "holding", "ending"}
      BY <1>2 DEF StartTask, AcquireQueue, AcquireProcessing, ReleaseQueue, Finish, In
    <2> QED BY <1>1, <2>1, <2>2, QuietOnce DEF Taken
  <1>3. CASE AllRead(t)
    <2>1. PICK pc \in TaskPCs : Moves(t, pc) /\ pc \in {"ending", "applying"}
      BY <1>3 DEF AllRead, TaskPCs
    <2>2. task[t].pc = "reading"
      BY <1>3 DEF AllRead, In
    <2> QED BY <1>1, <2>1, <2>2, QuietOnce DEF Taken
  <1>4. CASE AllPurged(t)
    <2>1. "ending" \in TaskPCs /\ Moves(t, "ending") /\ task[t].pc = "purging" /\ task[t].batch = {}
      BY <1>4 DEF AllPurged, In, TaskPCs
    <2> QED BY <1>1, <2>1, QuietOnce DEF Taken
  <1> QED BY <1>2, <1>3, <1>4

\* Reading: no handled action has a file, as no other task is purging.
LEMMA ReadOnce ==
    ASSUME IInv, OnceInv, NEW t \in Tasks, ListActions(t) \/ ReadAction(t)
    PROVE  OnceInv'
  <1>0. TypeOK /\ PastOK /\ IsFiniteSet(task[t].batch)
    BY DEF IInv, OnceInv
  <1>1. /\ task[t].pc \in {"listing", "reading"}
        /\ UNCHANGED <<queue, reg, applied, handled, faults>>
    BY DEF ListActions, ReadAction, In, requests, history
  <1>2. PICK batch : /\ task'[t].pc = "reading" /\ task'[t].batch = batch /\ IsFiniteSet(batch)
                     /\ \A u \in Tasks : u # t => task'[u] = task[u]
                     /\ task[t].pc = "listing" => batch = {}
                     /\ \A r \in Actions(batch) :
                            r \in Actions(task[t].batch)
                            \/ \E n \in DOMAIN queue : r = queue[n].action /\ r # None
    <2>1. CASE ListActions(t)
      <3>1. /\ task'[t].pc = "reading" /\ task'[t].batch = {}
            /\ \A u \in Tasks : u # t => task'[u] = task[u]
        BY <1>0, <2>1 DEF ListActions, TypeOK
      <3> QED BY <3>1, FS_EmptySet DEF Actions
    <2>2. CASE ReadAction(t)
      <3>1. PICK name \in task[t].todo :
                task' = [task EXCEPT ![t].todo = @ \ {name},
                                     ![t].batch = IF Readable(name)
                                                  THEN @ \cup {[name |-> name, action |-> queue[name].action]}
                                                  ELSE @]
        BY <2>2 DEF ReadAction
      <3> DEFINE entry == [name |-> name, action |-> queue[name].action]
                 batch == IF Readable(name) THEN task[t].batch \cup {entry} ELSE task[t].batch
      <3>2. task[t].pc = "reading"
        BY <2>2 DEF ReadAction, In
      <3>3. /\ task'[t].pc = "reading" /\ task'[t].batch = batch
            /\ \A u \in Tasks : u # t => task'[u] = task[u]
        BY <1>0, <3>1, <3>2 DEF TypeOK
      <3>4. IsFiniteSet(batch)
        BY <1>0, FS_AddElement
      <3>5. ASSUME NEW r \in Actions(batch)
            PROVE  r \in Actions(task[t].batch)
                   \/ \E n \in DOMAIN queue : r = queue[n].action /\ r # None
        BY DEF Actions, Readable, Exists
      <3> HIDE DEF batch
      <3> QED BY <3>2, <3>3, <3>4, <3>5
    <2> QED BY <2>1, <2>2
  <1>3. PastOK'
    BY <1>0, <1>1, <1>2 DEF PastOK, Actions
  <1>4. \A u \in Tasks : task[u].pc # "purging"
    BY <1>1, OneProcessing DEF Processing, Batched
  <1>5. Begun \subseteq Begun'
    BY <1>1, <1>2 DEF Begun, Actions, RightActions
  <1>6. ASSUME Apart PROVE Apart'
    <2>1. \A n \in DOMAIN queue : queue[n].action \notin handled
      BY <1>4, <1>6 DEF Apart
    <2>2. task[t].pc = "listing" => Actions(task'[t].batch) = {}
      BY <1>2 DEF Actions
    <2>3. Actions(task'[t].batch) \cap handled' = {}
      BY <1>1, <1>2, <1>6, <2>1, <2>2 DEF Apart, Taken
    <2>4. \A u \in Tasks : task'[u].pc \in Taken => Actions(task'[u].batch) \cap handled' = {}
      BY <1>1, <1>2, <1>6, <2>3 DEF Apart
    <2>5. \A i \in DOMAIN applied' : applied'[i] \in handled' \cup Begun'
      BY <1>1, <1>5, <1>6 DEF Apart
    <2> QED BY <1>1, <2>1, <2>4, <2>5 DEF Apart
  <1>7. Once => Once'
    BY <1>1 DEF Once
  <1> QED BY <1>0, <1>1, <1>2, <1>3, <1>6, <1>7 DEF OnceInv

\* The batch of a task has an action once, since it has a name once.
LEMMA BatchOnce ==
    ASSUME IInv, NEW t \in Tasks, task[t].pc \in Batched
    PROVE  /\ task[t].batch \in SUBSET Entries
           /\ \A e, f \in task[t].batch : e.action = f.action => e = f
  BY DEF IInv, TypeOK, BatchOK

\* What a task applies comes from its batch, so that nobody else has applied it.
LEMMA ApplyOnce ==
    ASSUME IInv, OnceInv, NEW t \in Tasks, task[t].pc \in {"applying", "distributing"},
           NEW S, NEW order \in Sorted(task[t].batch, S),
           applied' = applied \o [i \in DOMAIN order |-> order[i].action]
    PROVE  /\ applied' \in Seq(Registrants)
           /\ \A i \in DOMAIN applied' :
                \/ \E j \in DOMAIN applied : applied'[i] = applied[j]
                \/ applied'[i] \in Actions(task[t].batch) \cap S
           /\ Once /\ (\A i \in DOMAIN applied : applied[i] \notin Actions(task[t].batch) \cap S)
                => Once'
  <1> DEFINE s == [i \in DOMAIN order |-> order[i].action]
  <1>1. /\ s \in Seq(Registrants)
        /\ \A i \in DOMAIN s : s[i] \in Actions(task[t].batch) \cap S
        /\ \A i, j \in DOMAIN s : s[i] = s[j] => i = j
    BY BatchOnce, SortedOnce DEF OnceInv, Batched
  <1>2. applied \in Seq(Registrants) /\ applied' = applied \o s
    BY DEF OnceInv
  <1> HIDE DEF s
  <1>3. /\ applied \o s \in Seq(Registrants)
        /\ \A i \in DOMAIN (applied \o s) : \/ \E j \in DOMAIN applied : (applied \o s)[i] = applied[j]
                                            \/ \E j \in DOMAIN s : (applied \o s)[i] = s[j]
    BY <1>1, <1>2, AppendParts
  <1>4. /\ applied' \in Seq(Registrants)
        /\ \A i \in DOMAIN applied' : \/ \E j \in DOMAIN applied : applied'[i] = applied[j]
                                      \/ \E j \in DOMAIN s : applied'[i] = s[j]
    BY <1>2, <1>3, Zenon
  <1>5. ASSUME Once, \A i \in DOMAIN applied : applied[i] \notin Actions(task[t].batch) \cap S
        PROVE  Once'
    <2>1. \A i \in DOMAIN applied, j \in DOMAIN s : applied[i] # s[j]
      BY <1>1, <1>5
    <2>2. \A i, j \in DOMAIN (applied \o s) : (applied \o s)[i] = (applied \o s)[j] => i = j
      BY <1>1, <1>2, <1>5, <2>1, AppendOnce DEF Once
    <2> QED BY <1>2, <2>2 DEF Once
  <1> QED BY <1>1, <1>4, <1>5

\* Between the locks nobody else has begun, and no file of a handled action is left.
LEMMA Alone ==
    ASSUME IInv, Apart, NEW t \in Tasks, task[t].pc \in {"applying", "distributing"}
    PROVE  /\ \A u \in Tasks : u # t => task[u].pc \notin Processing
           /\ \A n \in DOMAIN queue : queue[n].action \notin handled
           /\ Begun \subseteq Actions(task[t].batch) \ RightActions
           /\ Actions(task[t].batch) \cap handled = {}
           /\ task[t].pc = "applying" => Begun = {}
  <1>1. \A u \in Tasks : u # t => task[u].pc \notin Processing
    BY OneProcessing DEF Processing, Batched
  <1>2. \A u \in Tasks : task[u].pc # "purging"
    BY <1>1 DEF Processing, Batched
  <1>3. \A u \in Tasks : task[u].pc = "distributing" => u = t
    BY <1>1 DEF Processing, Batched
  <1> QED BY <1>1, <1>2, <1>3 DEF Apart, Begun, Taken

LEMMA ApplyGroupOnce ==
    ASSUME IInv, OnceInv, NEW t \in Tasks, ApplyGroupActions(t) PROVE OnceInv'
  <1>0. TypeOK  BY DEF IInv
  <1> DEFINE batch == task[t].batch
             E == Effective(batch)
  <1>1. /\ task[t].pc = "applying" /\ Moves(t, "distributing") /\ "distributing" \in TaskPCs
        /\ UNCHANGED <<queue, reg, handled, faults>>
    BY DEF ApplyGroupActions, In, requests, TaskPCs
  <1>2. PICK order \in Sorted(batch, E) :
            applied' = applied \o [i \in DOMAIN order |-> order[i].action]
    BY DEF ApplyGroupActions
  <1>3. E \cap RightActions = {}
    BY DEF Effective
  <1>4. \A u \in Tasks : /\ task'[u].batch = task[u].batch
                         /\ task'[u].pc = IF u = t THEN "distributing" ELSE task[u].pc
    BY <1>0, <1>1, MovesFields
  <1> HIDE DEF E
  <1>5. /\ applied' \in Seq(Registrants)
        /\ \A i \in DOMAIN applied' :
             \/ \E j \in DOMAIN applied : applied'[i] = applied[j]
             \/ applied'[i] \in Actions(batch) \cap E
        /\ Once /\ (\A i \in DOMAIN applied : applied[i] \notin Actions(batch) \cap E) => Once'
    BY <1>1, <1>2, ApplyOnce
  <1>6. PastOK'
    BY <1>1, <1>4 DEF OnceInv, PastOK, Actions
  <1>7. ASSUME Apart, Once PROVE Apart' /\ Once'
    <2>1. /\ \A i \in DOMAIN applied : applied[i] \in handled
          /\ Actions(batch) \cap handled = {}
          /\ \A n \in DOMAIN queue : queue[n].action \notin handled
      BY <1>1, <1>7, Alone DEF Apart
    <2>2. Once'
      BY <1>5, <1>7, <2>1
    <2>3. Actions(batch) \ RightActions \subseteq Begun'
      <3>1. RightActions' = RightActions /\ Actions(task'[t].batch) = Actions(batch)
        BY <1>1, <1>4 DEF RightActions
      <3>2. Actions(batch) \subseteq Registrants
        BY <1>0 DEF TypeOK, Actions, Entries
      <3>3. task'[t].pc = "distributing" /\ task'[t].batch = batch
        BY <1>4
      <3> QED BY <3>1, <3>2, <3>3 DEF Begun, Actions
    <2>4. \A i \in DOMAIN applied' : applied'[i] \in handled' \cup Begun'
      BY <1>1, <1>3, <1>5, <2>1, <2>3
    <2>5. \A u \in Tasks : task'[u].pc \in Taken => Actions(task'[u].batch) \cap handled' = {}
      BY <1>1, <1>4, <1>7, <2>1 DEF Apart
    <2> QED BY <1>1, <2>1, <2>2, <2>4, <2>5 DEF Apart
  <1> QED BY <1>1, <1>4, <1>5, <1>6, <1>7 DEF OnceInv

LEMMA ApplyRightOnce ==
    ASSUME IInv, OnceInv, NEW t \in Tasks, ApplyRightActions(t) PROVE OnceInv'
  <1>0. TypeOK /\ FilesOK /\ BatchOK /\ None \notin Registrants
    BY QueueAssumption DEF IInv
  <1> DEFINE batch == task[t].batch
  <1>1. /\ task[t].pc = "distributing" /\ Moves(t, "purging") /\ "purging" \in TaskPCs
        /\ handled' = handled \cup Actions(batch)
        /\ UNCHANGED <<queue, reg, faults>>
    BY DEF ApplyRightActions, In, requests, TaskPCs
  <1>2. PICK order \in Sorted(batch, RightActions) :
            applied' = applied \o [i \in DOMAIN order |-> order[i].action]
    BY DEF ApplyRightActions
  <1>3. \A u \in Tasks : /\ task'[u].batch = task[u].batch
                         /\ task'[u].pc = IF u = t THEN "purging" ELSE task[u].pc
    BY <1>0, <1>1, MovesFields
  <1>4. /\ applied' \in Seq(Registrants)
        /\ \A i \in DOMAIN applied' :
             \/ \E j \in DOMAIN applied : applied'[i] = applied[j]
             \/ applied'[i] \in Actions(batch) \cap RightActions
        /\ Once /\ (\A i \in DOMAIN applied : applied[i] \notin Actions(batch) \cap RightActions)
             => Once'
    BY <1>1, <1>2, ApplyOnce
  <1>5. PastOK'
    BY <1>1, <1>3 DEF OnceInv, PastOK, Actions
  <1>6. ASSUME Apart, Once PROVE Apart' /\ Once'
    <2>1. /\ \A u \in Tasks : u # t => task[u].pc \notin Processing
          /\ \A n \in DOMAIN queue : queue[n].action \notin handled
          /\ \A i \in DOMAIN applied :
                applied[i] \in handled \cup (Actions(batch) \ RightActions)
          /\ Actions(batch) \cap handled = {}
      BY <1>1, <1>6, Alone DEF Apart
    <2>2. Once'
      BY <1>4, <1>6, <2>1
    <2>3. \A i \in DOMAIN applied' : applied'[i] \in handled'
      BY <1>1, <1>4, <2>1
    <2>4. \A u \in Tasks : task'[u].pc \notin Taken
      BY <1>3, <2>1 DEF Taken, Processing, Batched
    <2>5. ASSUME NEW n \in DOMAIN queue, queue[n].action \in handled'
          PROVE  \E e \in batch : e.name = n
      <3>1. PICK e \in batch : e.action = queue[n].action
        BY <1>1, <2>1, <2>5 DEF Actions
      <3>2. e.action \in Registrants /\ reg[e.action].name = e.name
        BY <1>0, <1>1 DEF TypeOK, BatchOK, Batched, Entries
      <3>3. reg[queue[n].action].name = n
        BY <1>0, <3>1, <3>2 DEF FilesOK
      <3> QED BY <3>1, <3>2, <3>3
    <2>6. \A n \in DOMAIN queue' : queue'[n].action \in handled' =>
            \E u \in Tasks : task'[u].pc = "purging" /\ \E e \in task'[u].batch : e.name = n
      BY <1>1, <1>3, <2>5
    <2> QED BY <2>2, <2>3, <2>4, <2>6 DEF Apart
  <1> QED BY <1>1, <1>3, <1>4, <1>5, <1>6 DEF OnceInv

LEMMA PurgeOnce ==
    ASSUME IInv, OnceInv, NEW t \in Tasks, PurgeAction(t) PROVE OnceInv'
  <1>0. TypeOK  BY DEF IInv
  <1>1. task[t].pc = "purging" /\ UNCHANGED <<reg, applied, handled, faults>>
    BY DEF PurgeAction, In, requests, history
  <1>2. PICK entry \in task[t].batch :
            /\ queue' = Restrict(queue, DOMAIN queue \ {entry.name})
            /\ task' = [task EXCEPT ![t].batch = @ \ {entry}]
    BY DEF PurgeAction
  <1>3. /\ DOMAIN queue' = DOMAIN queue \ {entry.name}
        /\ \A n \in DOMAIN queue' : queue'[n] = queue[n]
    BY <1>2 DEF Restrict
  <1>4. /\ task'[t].pc = "purging" /\ task'[t].batch = task[t].batch \ {entry}
        /\ \A u \in Tasks : u # t => task'[u] = task[u]
    BY <1>0, <1>1, <1>2 DEF TypeOK
  <1>5. PastOK'
    BY <1>1, <1>3, <1>4 DEF OnceInv, PastOK, Actions
  <1>6. \A u \in Tasks : IsFiniteSet(task'[u].batch)
    BY <1>4, FS_RemoveElement DEF OnceInv
  <1>7. Begun \subseteq Begun'
    BY <1>1, <1>4 DEF Begun, Actions, RightActions
  <1>8. ASSUME Apart PROVE Apart'
    <2>1. ASSUME NEW n \in DOMAIN queue', queue'[n].action \in handled'
          PROVE  \E u \in Tasks : task'[u].pc = "purging" /\ \E e \in task'[u].batch : e.name = n
      <3>1. PICK u \in Tasks : task[u].pc = "purging" /\ \E e \in task[u].batch : e.name = n
        BY <1>1, <1>3, <1>8, <2>1 DEF Apart
      <3>2. u = t
        BY <1>1, <3>1, OneProcessing DEF Processing, Batched
      <3> QED BY <1>3, <1>4, <3>1, <3>2
    <2>2. \A u \in Tasks : task'[u].pc \in Taken => Actions(task'[u].batch) \cap handled' = {}
      BY <1>1, <1>4, <1>8 DEF Apart, Taken
    <2> QED BY <1>1, <1>7, <1>8, <2>1, <2>2 DEF Apart
  <1>9. Once => Once'
    BY <1>1 DEF Once
  <1> QED BY <1>1, <1>5, <1>6, <1>8, <1>9 DEF OnceInv

LEMMA TaskFailsOnce ==
    ASSUME IInv, OnceInv, NEW t \in Tasks, TaskFails(t) PROVE OnceInv'
  <1>0. TypeOK  BY DEF IInv
  <1>1. UNCHANGED <<queue, reg, applied, handled>> /\ faults' # 0
    BY <1>0 DEF TaskFails, requests, history, TypeOK
  <1>2. task'[t].batch = {} /\ \A u \in Tasks : u # t => task'[u] = task[u]
    BY <1>0 DEF TaskFails, IdleTask, TypeOK
  <1>3. PastOK'
    BY <1>1, <1>2 DEF OnceInv, PastOK, Actions
  <1>4. \A u \in Tasks : IsFiniteSet(task'[u].batch)
    BY <1>2, FS_EmptySet DEF OnceInv
  <1> QED BY <1>1, <1>3, <1>4 DEF OnceInv

LEMMA StepOnce == ASSUME IInv, OnceInv, [Next]_vars PROVE OnceInv'
  <1>1. CASE UNCHANGED vars
    BY <1>1 DEF OnceInv, PastOK, Apart, Once, Begun, RightActions, vars, requests, history
  <1>2. ASSUME NEW r \in Registrants, RegisterAction(r) \/ RequestStep(r) \/ RequestFails(r)
        PROVE  OnceInv'
    BY <1>2, RequestStepOnce
  <1>3. ASSUME NEW t \in Tasks, TaskStep(t) \/ TaskFails(t)
        PROVE  OnceInv'
    BY <1>3, QuietStepsOnce, ReadOnce, ApplyGroupOnce, ApplyRightOnce, PurgeOnce, TaskFailsOnce
    DEF TaskStep
  <1>4. Rest => UNCHANGED vars
    BY DEF Rest
  <1> QED BY <1>1, <1>2, <1>3, <1>4 DEF Next

LEMMA InitOnce == Init => OnceInv
  <1> SUFFICES ASSUME Init PROVE OnceInv
    OBVIOUS
  <1>1. applied = << >> /\ DOMAIN applied = {} /\ applied \in Seq(Registrants)
    BY EmptySeq DEF Init
  <1>2. handled = {} /\ queue = << >> /\ DOMAIN queue = {}
    BY DEF Init
  <1>3. \A t \in Tasks : task[t].batch = {} /\ IsFiniteSet(task[t].batch) /\ Actions(task[t].batch) = {}
    BY FS_EmptySet DEF Init, IdleTask, Actions
  <1> QED BY <1>1, <1>2, <1>3 DEF OnceInv, PastOK, Apart, Once

\* The processing lock does what it is for: without failures no action takes effect
\* twice, however many requests and tasks there are and however they interleave.
THEOREM NeverTwice == Spec => []AppliedOnce
  <1>1. IInv /\ OnceInv /\ [Next]_vars => OnceInv'
    BY StepOnce
  <1>2. OnceInv => AppliedOnce
    BY DEF OnceInv, Once, AppliedOnce
  <1> QED BY <1>1, <1>2, InitOnce, Invariance, PTL DEF Spec

-----------------------------------------------------------------------------
(* Actions take effect in the order in which they were registered.          *)

\* An action that may yet take effect has its file in the directory.
LEMMA LiveFile ==
    ASSUME IInv, NEW z \in Registrants, Live(z)
    PROVE  reg[z].name \in DOMAIN queue /\ reg[z].name \in Nat
  <1>0. TypeOK /\ FilesOK /\ BatchOK /\ z # None
    BY QueueAssumption DEF IInv
  <1>1. ASSUME NEW n \in DOMAIN queue, queue[n].action = z
        PROVE  reg[z].name = n
    BY <1>0, <1>1 DEF FilesOK
  <1>2. ASSUME NEW t \in Tasks, task[t].pc \in Taken, z \in Actions(task[t].batch)
        PROVE  reg[z].name \in DOMAIN queue
    BY <1>0, <1>2 DEF BatchOK, Actions, Taken, Batched
  <1>3. reg[z].name \in DOMAIN queue
    BY <1>1, <1>2 DEF Live
  <1> QED BY <1>0, <1>3 DEF TypeOK

\* The same for what a task has in hand, and for what is in a file.
LEMMA LiveRead ==
    ASSUME IInv, NEW t \in Tasks, task[t].pc \in Batched, NEW z \in Registrants, Live(z)
    PROVE  \/ task[t].pc \in Taken /\ z \in Actions(task[t].batch)
           \/ queue[reg[z].name].action = z
  <1>0. TypeOK /\ FilesOK /\ z # None
    BY QueueAssumption DEF IInv
  <1>1. \A u \in Tasks : task[u].pc \in Taken => u = t
    BY OneProcessing DEF Taken, Processing, Batched
  <1>2. \A n \in DOMAIN queue : queue[n].action = z => reg[z].name = n
    BY <1>0 DEF FilesOK
  <1> QED BY <1>1, <1>2 DEF Live

\* What a step of a task leaves of the order; what it does to the batches is apart.
LEMMA TaskKeepsOrder ==
    ASSUME IInv, OrderInv, UNCHANGED <<reg, seen, queue>>,
           clock' \in Nat, clock =< clock',
           \A z \in Registrants : Live(z)' => Live(z)
    PROVE  Dense' /\ SeenDone' /\ Reach' /\ Below'
  <1>0. TypeOK /\ clock \in Nat /\ \A r \in Registrants : seen[r] \subseteq Registrants
    BY DEF IInv, TypeOK
  <1>1. Dense'
    BY <1>0 DEF OrderInv, Dense
  <1>2. SeenDone'
    BY DEF OrderInv, SeenDone
  <1>3. Reach'
    BY <1>0 DEF OrderInv, Reach, At
  <1>4. Below'
    BY <1>0 DEF OrderInv, Below, At
  <1> QED BY <1>1, <1>2, <1>3, <1>4

\* A step of a task that reads, handles and removes nothing.
LEMMA QuietOrder ==
    ASSUME IInv, OrderInv, NEW t \in Tasks, NEW pc \in TaskPCs, Moves(t, pc),
           UNCHANGED <<reg, seen, queue, clock, handled>>,
           pc \in Batched => task[t].pc \in Batched,
           pc \in Taken => task[t].pc \in Taken,
           task[t].pc = "reading" => task[t].todo = {}
    PROVE  OrderInv'
  <1>0. TypeOK /\ clock \in Nat /\ \A r \in Registrants : seen[r] \subseteq Registrants
    BY DEF IInv, TypeOK
  <1>1. \A u \in Tasks : /\ task'[u].todo = task[u].todo /\ task'[u].batch = task[u].batch
                         /\ task'[u].pc = IF u = t THEN pc ELSE task[u].pc
    BY <1>0, MovesFields
  <1>2. \A z \in Registrants : Live(z)' => Live(z)
    BY <1>1 DEF Live, Actions
  <1>3. Dense' /\ SeenDone' /\ Reach' /\ Below'
    BY <1>0, <1>2, TaskKeepsOrder
  <1>4. \A u \in Tasks : Names(u)' = Names(u)
    BY <1>1 DEF Names
  <1>5. ListedOld'
    BY <1>1, <1>4 DEF OrderInv, ListedOld
  <1>6. Gathered'
    <2> SUFFICES ASSUME NEW r \in Registrants, NEW z \in seen[r], ~At(r, "new"), Live(z)',
                        NEW u \in Tasks, task'[u].pc \in Batched,
                        \E k \in Names(u) : reg[r].name =< k
                 PROVE  \/ z \in Actions(task[u].batch)
                        \/ In(u, "reading")' /\ reg[z].name \in task[u].todo
      BY <1>1, <1>4 DEF Gathered, Actions, At
    <2>1. Live(z) /\ task[u].pc \in Batched
      BY <1>0, <1>1, <1>2
    <2>2. \/ z \in Actions(task[u].batch)
          \/ In(u, "reading") /\ reg[z].name \in task[u].todo
      BY <2>1 DEF OrderInv, Gathered
    <2> QED BY <1>1, <2>2 DEF In
  <1>7. Settled'
    <2>1. handled \subseteq Registrants
      BY <1>0 DEF TypeOK
    <2> QED BY <1>0, <1>2, <2>1 DEF OrderInv, Settled
  <1> QED BY <1>3, <1>5, <1>6, <1>7 DEF OrderInv

\* Each file has a request of its own, so that no name is further ahead of the clock
\* than there are requests.
LEMMA NamesNear ==
    ASSUME IInv, OrderInv, SlowListing, NEW n \in DOMAIN queue
    PROVE  n < clock + Pause
  <1>0. TypeOK /\ FilesOK /\ clock \in Nat /\ n \in Nat /\ Pause \in Nat
    BY QueueAssumption DEF IInv, TypeOK
  <1> SUFFICES ASSUME clock =< n PROVE n < clock + Pause
    BY <1>0
  <1> DEFINE f == [k \in clock..n |-> queue[k].file]
  <1>1. clock..n \subseteq DOMAIN queue
    BY DEF OrderInv, Dense
  <1>2. \A k \in clock..n : queue[k].file \in Registrants /\ reg[queue[k].file].name = k
    BY <1>0, <1>1 DEF TypeOK, Files, FilesOK
  <1>3. f \in Injection(clock..n, Registrants)
    BY <1>2 DEF Injection, IsInjective
  <1> HIDE DEF f
  <1>4. Cardinality(clock..n) =< Cardinality(Registrants)
    BY <1>3, FS_Injection DEF SlowListing
  <1>5. Cardinality(clock..n) = n - clock + 1
    BY <1>0, FS_Interval
  <1>6. Cardinality(Registrants) \in Nat
    BY FS_CardinalityType DEF SlowListing
  <1> QED BY <1>0, <1>4, <1>5, <1>6 DEF SlowListing

LEMMA ListOrder ==
    ASSUME IInv, OrderInv, SlowListing, NEW t \in Tasks, ListActions(t)
    PROVE  OrderInv'
  <1>0. /\ TypeOK /\ BatchOK /\ clock \in Nat /\ Pause \in Nat
        /\ DOMAIN queue \subseteq Nat /\ \A r \in Registrants : seen[r] \subseteq Registrants
    BY QueueAssumption DEF IInv, TypeOK
  <1>1. /\ UNCHANGED <<reg, seen, queue, handled>> /\ clock' = clock + Pause
        /\ task[t].pc = "listing"
    BY DEF ListActions, In, requests, history
  <1>2. /\ task'[t].pc = "reading" /\ task'[t].todo = DOMAIN queue /\ task'[t].batch = {}
        /\ \A u \in Tasks : u # t => task'[u] = task[u]
    BY <1>0 DEF ListActions, TypeOK
  <1>3. \A z \in Registrants : Live(z)' => Live(z)
    BY <1>1, <1>2 DEF Live, Actions
  <1>4. Dense' /\ SeenDone' /\ Reach' /\ Below'
    BY <1>0, <1>1, <1>3, TaskKeepsOrder
  <1>5. \A u \in Tasks : u # t => task[u].pc \notin Batched
    BY <1>1, OneProcessing DEF Processing, Batched
  <1>6. Names(t)' = DOMAIN queue
    BY <1>2 DEF Names
  <1>7. ListedOld'
    BY <1>1, <1>2, <1>5, <1>6, NamesNear DEF ListedOld
  <1>8. Gathered'
    <2> SUFFICES ASSUME NEW r \in Registrants, NEW z \in seen[r], Live(z)',
                        NEW u \in Tasks, task'[u].pc \in Batched
                 PROVE  In(u, "reading")' /\ reg[z].name \in task'[u].todo
      BY <1>1 DEF Gathered
    <2>1. u = t
      BY <1>2, <1>5
    <2>2. reg[z].name \in DOMAIN queue
      BY <1>0, <1>3, LiveFile
    <2> QED BY <1>2, <2>1, <2>2 DEF In
  <1>9. Settled'
    BY <1>0, <1>1, <1>3 DEF OrderInv, Settled, TypeOK
  <1> QED BY <1>4, <1>7, <1>8, <1>9 DEF OrderInv

\* What is read goes from the list to the batch.
LEMMA ReadOrder ==
    ASSUME IInv, OrderInv, NEW t \in Tasks, ReadAction(t)
    PROVE  OrderInv'
  <1>0. /\ TypeOK /\ BatchOK /\ clock \in Nat /\ None \notin Registrants
        /\ DOMAIN queue \subseteq Nat /\ \A r \in Registrants : seen[r] \subseteq Registrants
    BY QueueAssumption DEF IInv, TypeOK
  <1>1. UNCHANGED <<reg, seen, queue, handled, clock>> /\ task[t].pc = "reading"
    BY DEF ReadAction, In, requests, history
  <1>2. PICK name \in task[t].todo :
            task' = [task EXCEPT ![t].todo = @ \ {name},
                                 ![t].batch = IF Readable(name)
                                              THEN @ \cup {[name |-> name, action |-> queue[name].action]}
                                              ELSE @]
    BY DEF ReadAction
  <1> DEFINE entry == [name |-> name, action |-> queue[name].action]
  <1>3. /\ task'[t].pc = "reading" /\ task'[t].todo = task[t].todo \ {name}
        /\ task'[t].batch = IF Readable(name) THEN task[t].batch \cup {entry} ELSE task[t].batch
        /\ \A u \in Tasks : u # t => task'[u] = task[u]
    BY <1>0, <1>1, <1>2 DEF TypeOK
  <1>4. \A z \in Actions(task'[t].batch) :
            z \in Actions(task[t].batch) \/ \E n \in DOMAIN queue : queue[n].action = z
    BY <1>3 DEF Actions, Readable, Exists
  <1>5. Actions(task[t].batch) \subseteq Actions(task'[t].batch)
    BY <1>3 DEF Actions
  <1>6. \A z \in Registrants : Live(z)' => Live(z)
    <2> SUFFICES ASSUME NEW z \in Registrants, Live(z)' PROVE Live(z)
      OBVIOUS
    <2>1. CASE \E n \in DOMAIN queue : queue[n].action = z
      BY <1>1, <2>1 DEF Live
    <2>2. ASSUME NEW u \in Tasks, task'[u].pc \in Taken, z \in Actions(task'[u].batch)
          PROVE  Live(z)
      BY <1>1, <1>3, <1>4, <2>2 DEF Live, Taken
    <2> QED BY <1>1, <2>1, <2>2 DEF Live
  <1>7. Dense' /\ SeenDone' /\ Reach' /\ Below'
    BY <1>0, <1>1, <1>6, TaskKeepsOrder
  <1>8. Names(t)' \subseteq Names(t) /\ \A u \in Tasks : u # t => Names(u)' = Names(u)
    BY <1>3 DEF Names
  <1>9. ListedOld'
    BY <1>1, <1>3, <1>8 DEF OrderInv, ListedOld, Batched
  <1>10. Gathered'
    <2> SUFFICES ASSUME NEW r \in Registrants, NEW z \in seen[r], ~At(r, "new"), Live(z)',
                        NEW u \in Tasks, task'[u].pc \in Batched,
                        \E k \in Names(u)' : reg[r].name =< k
                 PROVE  \/ z \in Actions(task'[u].batch)
                        \/ In(u, "reading")' /\ reg[z].name \in task'[u].todo
      BY <1>1 DEF Gathered, At
    <2>1. Live(z) /\ z \in Registrants /\ task[u].pc \in Batched
      BY <1>0, <1>1, <1>3, <1>6 DEF Batched
    <2>2. \/ z \in Actions(task[u].batch)
          \/ In(u, "reading") /\ reg[z].name \in task[u].todo
      BY <1>8, <2>1 DEF OrderInv, Gathered
    <2>3. CASE u # t
      BY <1>3, <2>2, <2>3 DEF In
    <2>4. CASE u = t /\ z \notin Actions(task[t].batch)
      <3>1. reg[z].name \in task[t].todo
        BY <2>2, <2>4
      <3>2. queue[reg[z].name].action = z
        BY <2>1, <2>4, LiveRead
      <3>3. reg[z].name \in DOMAIN queue
        BY <2>1, LiveFile
      <3>4. CASE reg[z].name = name
        <4>1. Readable(name) /\ entry.action = z
          BY <1>0, <2>1, <3>2, <3>3, <3>4 DEF Readable, Exists
        <4>2. entry \in task'[t].batch
          BY <1>3, <4>1
        <4> QED BY <2>4, <4>1, <4>2 DEF Actions
      <3>5. CASE reg[z].name # name
        BY <1>3, <2>4, <3>1, <3>5 DEF In
      <3> QED BY <3>4, <3>5
    <2>5. CASE u = t /\ z \in Actions(task[t].batch)
      BY <1>5, <2>5
    <2> QED BY <2>3, <2>4, <2>5
  <1>11. Settled'
    BY <1>0, <1>1, <1>6 DEF OrderInv, Settled, TypeOK
  <1> QED BY <1>7, <1>9, <1>10, <1>11 DEF OrderInv

\* What has been applied is handled, and so is whatever was registered before it.
LEMMA ApplyRightOrder ==
    ASSUME IInv, OrderInv, NEW t \in Tasks, ApplyRightActions(t)
    PROVE  OrderInv'
  <1>0. /\ TypeOK /\ FilesOK /\ BatchOK /\ clock \in Nat /\ None \notin Registrants
        /\ \A r \in Registrants : seen[r] \subseteq Registrants
    BY QueueAssumption DEF IInv, TypeOK
  <1> DEFINE batch == task[t].batch
  <1>1. /\ task[t].pc = "distributing" /\ Moves(t, "purging") /\ "purging" \in TaskPCs
        /\ handled' = handled \cup Actions(batch)
        /\ UNCHANGED <<reg, seen, queue, clock>>
    BY DEF ApplyRightActions, In, requests, TaskPCs
  <1>2. \A u \in Tasks : /\ task'[u].todo = task[u].todo /\ task'[u].batch = task[u].batch
                         /\ task'[u].pc = IF u = t THEN "purging" ELSE task[u].pc
    BY <1>0, <1>1, MovesFields
  <1>3. \A z \in Registrants : Live(z)' => Live(z) /\ z \notin Actions(batch)
    BY <1>1, <1>2 DEF Live, Actions, Taken
  <1>4. Dense' /\ SeenDone' /\ Reach' /\ Below'
    BY <1>0, <1>1, <1>3, TaskKeepsOrder
  <1>5. \A u \in Tasks : Names(u)' = Names(u)
    BY <1>2 DEF Names
  <1>6. ListedOld'
    BY <1>1, <1>2, <1>5 DEF OrderInv, ListedOld, Batched
  <1>7. ASSUME NEW r \in Registrants, NEW z \in seen[r], ~At(r, "new"), Live(z)',
               NEW k \in Names(t), reg[r].name =< k
        PROVE  FALSE
    <2>1. Live(z) /\ z \notin Actions(batch)
      BY <1>0, <1>3, <1>7
    <2> QED BY <1>1, <1>7, <2>1 DEF OrderInv, Gathered, In, Batched
  <1>8. Gathered'
    <2>1. \A u \in Tasks : task'[u].pc \in Batched => u = t
      BY <1>1, <1>2, OneProcessing DEF Processing, Batched
    <2> QED BY <1>1, <1>5, <1>7, <2>1 DEF Gathered, At
  <1>9. Settled'
    <2> SUFFICES ASSUME NEW r \in Registrants, r \in handled', NEW z \in seen[r], Live(z)'
                 PROVE  FALSE
      BY <1>0, <1>1 DEF Settled, TypeOK, Actions, Entries
    <2>1. CASE r \in handled
      BY <1>0, <1>3, <2>1 DEF OrderInv, Settled
    <2>2. CASE r \in Actions(batch)
      <3>1. PICK e \in batch : e.action = r
        BY <2>2 DEF Actions
      <3>2. e.name \in DOMAIN queue /\ reg[r].file = queue[e.name].file /\ reg[r].name = e.name
        BY <1>0, <1>1, <3>1 DEF BatchOK, Batched
      <3>3. ~At(r, "new")
        BY <1>0, <3>2 DEF TypeOK, Files, FilesOK, At
      <3>4. reg[r].name \in Names(t) /\ reg[r].name \in Nat
        BY <1>0, <3>1, <3>2 DEF Names, TypeOK
      <3>5. reg[r].name =< reg[r].name
        BY <3>4
      <3> QED BY <1>7, <3>3, <3>4, <3>5
    <2> QED BY <1>1, <2>1, <2>2
  <1> QED BY <1>4, <1>6, <1>8, <1>9 DEF OrderInv

\* The name that is removed is behind the clock and before that of no request that
\* has an earlier action to wait for.
LEMMA PurgeOrder ==
    ASSUME IInv, OrderInv, NEW t \in Tasks, PurgeAction(t)
    PROVE  OrderInv'
  <1>0. /\ TypeOK /\ BatchOK /\ clock \in Nat /\ DOMAIN queue \subseteq Nat
        /\ \A r \in Registrants : seen[r] \subseteq Registrants /\ reg[r].name \in Nat
    BY DEF IInv, TypeOK
  <1>1. task[t].pc = "purging" /\ UNCHANGED <<reg, seen, handled, clock>>
    BY DEF PurgeAction, In, requests, history
  <1>2. PICK entry \in task[t].batch :
            /\ queue' = Restrict(queue, DOMAIN queue \ {entry.name})
            /\ task' = [task EXCEPT ![t].batch = @ \ {entry}]
    BY DEF PurgeAction
  <1>3. /\ DOMAIN queue' = DOMAIN queue \ {entry.name}
        /\ \A n \in DOMAIN queue' : queue'[n] = queue[n]
    BY <1>2 DEF Restrict
  <1>4. /\ task'[t].pc = "purging" /\ task'[t].batch = task[t].batch \ {entry}
        /\ task'[t].todo = task[t].todo
        /\ \A u \in Tasks : u # t => task'[u] = task[u]
    BY <1>0, <1>1, <1>2 DEF TypeOK
  <1>5. \A z \in Registrants : Live(z)' => Live(z)
    BY <1>1, <1>3, <1>4 DEF Live, Actions, Taken
  <1>6. ASSUME NEW r \in Registrants, NEW z \in seen[r], ~At(r, "new"), Live(z),
               NEW k \in Names(t), reg[r].name =< k
        PROVE  FALSE
    <2>1. z \in Actions(task[t].batch)
      BY <1>1, <1>6 DEF OrderInv, Gathered, In, Batched
    <2>2. z \in handled
      BY <1>0, <1>1, <2>1 DEF BatchOK, Batched, Actions
    <2> QED BY <1>6, <2>2 DEF Live
  <1>7. entry.name \in Names(t) /\ Names(t)' \subseteq Names(t)
    BY <1>4 DEF Names
  <1>8. entry.name < clock /\ entry.name \in Nat
    BY <1>0, <1>1, <1>7 DEF OrderInv, ListedOld, Batched, TypeOK, Entries
  <1>9. Dense'
    <2>1. ASSUME NEW n \in DOMAIN queue', NEW k \in clock..n
          PROVE  k \in DOMAIN queue'
      BY <1>0, <1>3, <1>8, <2>1 DEF OrderInv, Dense
    <2>2. ASSUME NEW r \in Registrants, NEW k \in clock..reg[r].name,
                 reg[r].pc \in {"named", "absent"}
          PROVE  k \in DOMAIN queue' \/ k = reg[r].name
      BY <1>0, <1>3, <1>8, <2>2 DEF OrderInv, Dense
    <2> QED BY <1>1, <2>1, <2>2 DEF Dense
  <1>10. SeenDone'
    BY <1>1 DEF OrderInv, SeenDone
  <1>11. Reach'
    <2> SUFFICES ASSUME NEW r \in Registrants, NEW z \in seen[r], At(r, "named"), Live(z)',
                        NEW k \in reg[r].name..reg[z].name
                 PROVE  k \in DOMAIN queue'
      BY <1>1 DEF Reach, At
    <2>1. Live(z) /\ ~At(r, "new")
      BY <1>0, <1>5 DEF At
    <2>2. k \in DOMAIN queue
      BY <2>1 DEF OrderInv, Reach
    <2>3. reg[r].name =< k
      BY <1>0
    <2>4. k # entry.name
      BY <1>6, <1>7, <2>1, <2>3
    <2> QED BY <1>3, <2>2, <2>4
  <1>12. Below'
    BY <1>0, <1>1, <1>5 DEF OrderInv, Below, At
  <1>13. \A u \in Tasks : u # t => task'[u].pc \notin Batched
    BY <1>1, <1>4, OneProcessing DEF Processing, Batched
  <1>14. ListedOld'
    BY <1>1, <1>7, <1>13 DEF OrderInv, ListedOld, Batched
  <1>15. Gathered'
    BY <1>0, <1>1, <1>5, <1>6, <1>7, <1>13 DEF Gathered, At
  <1>16. Settled'
    BY <1>0, <1>1, <1>5 DEF OrderInv, Settled, TypeOK
  <1> QED BY <1>9, <1>10, <1>11, <1>12, <1>14, <1>15, <1>16 DEF OrderInv

LEMMA TaskFailsOrder ==
    ASSUME IInv, OrderInv, NEW t \in Tasks, TaskFails(t)
    PROVE  OrderInv'
  <1>0. TypeOK /\ clock \in Nat /\ \A r \in Registrants : seen[r] \subseteq Registrants
    BY DEF IInv, TypeOK
  <1>1. UNCHANGED <<reg, seen, queue, handled, clock>>
    BY DEF TaskFails, requests, history
  <1>2. /\ task'[t].pc = "idle" /\ task'[t].batch = {}
        /\ \A u \in Tasks : u # t => task'[u] = task[u]
    BY <1>0 DEF TaskFails, IdleTask, TypeOK
  <1>3. \A z \in Registrants : Live(z)' => Live(z)
    BY <1>1, <1>2 DEF Live, Actions
  <1>4. Dense' /\ SeenDone' /\ Reach' /\ Below'
    BY <1>0, <1>1, <1>3, TaskKeepsOrder
  <1>5. \A u \in Tasks : task'[u].pc \in Batched => task'[u] = task[u] /\ Names(u)' = Names(u)
    BY <1>2 DEF Batched, Names
  <1>6. ListedOld'
    BY <1>1, <1>5 DEF OrderInv, ListedOld
  <1>7. Gathered'
    BY <1>0, <1>1, <1>3, <1>5 DEF OrderInv, Gathered, At, In
  <1>8. Settled'
    BY <1>0, <1>1, <1>3 DEF OrderInv, Settled, TypeOK
  <1> QED BY <1>4, <1>6, <1>7, <1>8 DEF OrderInv

\* A step of a request that has begun: others see its file, and only actions that are
\* over count as earlier.
LEMMA RequestKeepsOrder ==
    ASSUME IInv, OrderInv, NEW x \in Registrants, reg[x].pc \notin {"new", "done"},
           UNCHANGED <<task, handled, clock, seen>>,
           \A y \in Registrants \ {x} : reg'[y] = reg[y],
           reg[x].name =< reg'[x].name, reg'[x].name \in Nat,
           DOMAIN queue \subseteq DOMAIN queue',
           \A n \in DOMAIN queue' :
                \/ n \in DOMAIN queue /\ queue'[n].action = queue[n].action
                \/ queue'[n].action \in {None, x}
    PROVE  /\ \A r \in Registrants : \A z \in seen[r] :
                /\ z \in Registrants /\ z # x /\ reg'[z] = reg[z] /\ reg[z].pc = "done"
                /\ Live(z)' => Live(z)
           /\ SeenDone' /\ ListedOld' /\ Gathered' /\ Settled'
  <1>0. /\ TypeOK /\ BatchOK /\ None \notin Registrants /\ DOMAIN queue \subseteq Nat
        /\ handled \subseteq Registrants
        /\ \A r \in Registrants : seen[r] \subseteq Registrants /\ reg[r].name \in Nat
    BY QueueAssumption DEF IInv, TypeOK
  <1>1. \A r \in Registrants : \A z \in seen[r] :
            z \in Registrants /\ z # x /\ reg'[z] = reg[z] /\ reg[z].pc = "done"
    BY <1>0 DEF OrderInv, SeenDone
  <1>2. \A z \in Registrants \ {x} : Live(z)' => Live(z)
    BY <1>0 DEF Live, Actions
  <1>3. SeenDone'
    BY <1>1 DEF SeenDone
  <1>4. \A u \in Tasks : Names(u)' = Names(u)
    BY DEF Names
  <1>5. ListedOld'
    BY <1>4 DEF OrderInv, ListedOld
  <1>6. Gathered'
    <2> SUFFICES ASSUME NEW r \in Registrants, NEW z \in seen[r], ~At(r, "new")', Live(z)',
                        NEW u \in Tasks, task[u].pc \in Batched,
                        NEW k \in Names(u), reg'[r].name =< k
                 PROVE  \/ z \in Actions(task[u].batch)
                        \/ In(u, "reading") /\ reg[z].name \in task[u].todo
      BY <1>1, <1>4 DEF Gathered, Actions, In
    <2>1. Live(z)
      BY <1>1, <1>2
    <2>2. ~At(r, "new")
      BY DEF At
    <2>3. k \in Nat
      BY <1>0 DEF Names, TypeOK, Entries
    <2>4. reg[r].name =< k
      <3>1. CASE r = x
        BY <1>0, <2>3, <3>1
      <3>2. CASE r # x
        BY <3>2
      <3> QED BY <3>1, <3>2
    <2> QED BY <2>1, <2>2, <2>4 DEF OrderInv, Gathered
  <1>7. Settled'
    BY <1>0, <1>1, <1>2 DEF OrderInv, Settled
  <1> QED BY <1>1, <1>2, <1>3, <1>5, <1>6, <1>7

\* A step that opens no file and looks for no name.
LEMMA LateOrder ==
    ASSUME IInv, OrderInv, NEW x \in Registrants, reg[x].pc \notin {"new", "done"},
           UNCHANGED <<task, handled, clock, seen>>,
           NEW pc \in RequestPCs, Goes(x, pc), pc \notin {"new", "named", "absent"},
           DOMAIN queue' = DOMAIN queue,
           \A n \in DOMAIN queue' : queue'[n].action \in {queue[n].action, x}
    PROVE  OrderInv'
  <1>0. TypeOK /\ \A r \in Registrants : reg[r].name \in Nat
    BY DEF IInv, TypeOK
  <1>1. /\ \A y \in Registrants \ {x} : reg'[y] = reg[y]
        /\ reg'[x].pc = pc /\ reg'[x].name = reg[x].name /\ reg'[x].file = reg[x].file
    BY <1>0 DEF Goes, TypeOK
  <1>2. reg[x].name =< reg'[x].name /\ reg'[x].name \in Nat
    BY <1>0, <1>1
  <1>3. /\ \A r \in Registrants : \A z \in seen[r] :
                /\ z \in Registrants /\ z # x /\ reg'[z] = reg[z] /\ reg[z].pc = "done"
                /\ Live(z)' => Live(z)
        /\ SeenDone' /\ ListedOld' /\ Gathered' /\ Settled'
    BY <1>1, <1>2, RequestKeepsOrder
  <1>4. \A r \in Registrants : reg'[r].name = reg[r].name /\ reg'[r].file = reg[r].file
    BY <1>1
  <1>5. Dense'
    <2>1. \A r \in Registrants : reg'[r].pc \in {"named", "absent"} => reg[r].pc \in {"named", "absent"}
      BY <1>1
    <2> QED BY <1>4, <2>1 DEF OrderInv, Dense
  <1>6. Reach'
    BY <1>1, <1>3, <1>4 DEF OrderInv, Reach, At
  <1>7. Below'
    BY <1>1, <1>3, <1>4 DEF OrderInv, Below, At
  <1> QED BY <1>3, <1>5, <1>6, <1>7 DEF OrderInv

\* A taken name is skipped; one that is free comes after those of all earlier actions.
LEMMA ProbeOrder ==
    ASSUME IInv, OrderInv, NEW x \in Registrants, Probe(x)
    PROVE  OrderInv'
  <1>0. /\ TypeOK /\ FilesOK /\ \A r \in Registrants : reg[r].name \in Nat
        /\ \A r \in Registrants : seen[r] \subseteq Registrants
        /\ clock \in Nat /\ DOMAIN queue \subseteq Nat
    BY DEF IInv, TypeOK
  <1>1. reg[x].pc = "named" /\ UNCHANGED <<queue, task, handled, clock, seen>>
    BY DEF Probe, At, history
  <1>2. reg[x].file = None
    BY <1>0, <1>1 DEF FilesOK
  <1>3. /\ \A y \in Registrants \ {x} : reg'[y] = reg[y]
        /\ reg'[x].file = None
        /\ \/ /\ Exists(reg[x].name) /\ reg'[x].pc = "named" /\ reg'[x].name = reg[x].name + 1
           \/ /\ ~Exists(reg[x].name) /\ reg'[x].pc = "absent" /\ reg'[x].name = reg[x].name
    BY <1>0, <1>1, <1>2 DEF Probe, Goes, TypeOK
  <1>4. reg[x].name =< reg'[x].name /\ reg'[x].name \in Nat
    BY <1>0, <1>3
  <1>5. /\ \A r \in Registrants : \A z \in seen[r] :
                /\ z \in Registrants /\ z # x /\ reg'[z] = reg[z] /\ reg[z].pc = "done"
                /\ Live(z)' => Live(z)
        /\ SeenDone' /\ ListedOld' /\ Gathered' /\ Settled'
    BY <1>1, <1>3, <1>4, RequestKeepsOrder
  <1>6. Dense'
    <2>1. ASSUME NEW k \in clock..reg'[x].name
          PROVE  k \in DOMAIN queue \/ k = reg'[x].name
      BY <1>0, <1>1, <1>3, <2>1 DEF OrderInv, Dense, Exists
    <2>2. \A r \in Registrants \ {x} : \A k \in clock..reg'[r].name :
             reg'[r].pc \in {"named", "absent"} => k \in DOMAIN queue \/ k = reg'[r].name
      BY <1>3 DEF OrderInv, Dense
    <2>3. \A n \in DOMAIN queue : clock..n \subseteq DOMAIN queue
      BY DEF OrderInv, Dense
    <2> QED BY <1>1, <2>1, <2>2, <2>3 DEF Dense
  <1>7. Reach'
    <2> SUFFICES ASSUME NEW r \in Registrants, NEW z \in seen[r], reg'[r].pc = "named", Live(z)',
                        NEW k \in reg'[r].name..reg[z].name
                 PROVE  k \in DOMAIN queue
      BY <1>1, <1>5 DEF Reach, At
    <2>1. Live(z) /\ reg[r].pc = "named" /\ reg[z].name \in Nat
      BY <1>0, <1>1, <1>3, <1>5
    <2>2. k \in reg[r].name..reg[z].name
      <3>1. CASE r = x
        BY <1>0, <1>3, <2>1, <3>1
      <3>2. CASE r # x
        BY <1>3, <3>2
      <3> QED BY <3>1, <3>2
    <2> QED BY <2>1, <2>2 DEF OrderInv, Reach, At
  <1>8. Below'
    <2> SUFFICES ASSUME NEW r \in Registrants, NEW z \in seen[r],
                        reg'[r].pc = "absent" \/ reg'[r].file # None, Live(z)'
                 PROVE  reg[z].name < reg'[r].name
      BY <1>1, <1>5 DEF Below, At
    <2>1. Live(z) /\ z \in Registrants
      BY <1>5
    <2>2. CASE r # x
      BY <1>3, <2>1, <2>2 DEF OrderInv, Below, At
    <2>3. CASE r = x
      <3>1. reg[x].name \notin DOMAIN queue /\ reg'[x].name = reg[x].name
        BY <1>3, <2>3 DEF Exists
      <3>2. reg[x].name \notin reg[x].name..reg[z].name
        BY <1>1, <2>1, <2>3, <3>1 DEF OrderInv, Reach, At
      <3> QED BY <1>0, <2>1, <2>3, <3>1, <3>2
    <2> QED BY <2>2, <2>3
  <1> QED BY <1>5, <1>6, <1>7, <1>8 DEF OrderInv

LEMMA OpenOrder ==
    ASSUME IInv, OrderInv, NEW x \in Registrants, OpenFile(x)
    PROVE  OrderInv'
  <1>0. /\ TypeOK /\ \A r \in Registrants : reg[r].name \in Nat
        /\ clock \in Nat /\ DOMAIN queue \subseteq Nat
    BY DEF IInv, TypeOK
  <1> DEFINE name == reg[x].name
  <1>1. reg[x].pc = "absent" /\ UNCHANGED <<task, handled, clock, seen>>
    BY DEF OpenFile, At, history
  <1>2. /\ DOMAIN queue' = DOMAIN queue \cup {name}
        /\ \A n \in DOMAIN queue' : n # name => queue'[n] = queue[n]
        /\ queue'[name].action = None
    BY DEF OpenFile, Put
  <1>3. /\ \A y \in Registrants \ {x} : reg'[y] = reg[y]
        /\ reg'[x].name = name /\ reg'[x].pc = "opened"
    BY <1>0 DEF OpenFile, TypeOK
  <1>4. reg[x].name =< reg'[x].name /\ reg'[x].name \in Nat
    BY <1>0, <1>3
  <1>5. \A n \in DOMAIN queue' :
            \/ n \in DOMAIN queue /\ queue'[n].action = queue[n].action
            \/ queue'[n].action \in {None, x}
    BY <1>2
  <1>6. DOMAIN queue \subseteq DOMAIN queue'
    BY <1>2
  <1>7. /\ \A r \in Registrants : \A z \in seen[r] :
                /\ z \in Registrants /\ z # x /\ reg'[z] = reg[z] /\ reg[z].pc = "done"
                /\ Live(z)' => Live(z)
        /\ SeenDone' /\ ListedOld' /\ Gathered' /\ Settled'
    BY <1>1, <1>3, <1>4, <1>5, <1>6, RequestKeepsOrder
  <1>8. Dense'
    <2>1. ASSUME NEW n \in DOMAIN queue', NEW k \in clock..n
          PROVE  k \in DOMAIN queue'
      <3>1. CASE n \in DOMAIN queue
        BY <1>6, <3>1 DEF OrderInv, Dense
      <3>2. CASE n = name
        BY <1>1, <1>2, <3>2 DEF OrderInv, Dense
      <3> QED BY <1>2, <3>1, <3>2
    <2>2. \A r \in Registrants : \A k \in clock..reg'[r].name :
            reg'[r].pc \in {"named", "absent"} => k \in DOMAIN queue' \/ k = reg'[r].name
      BY <1>3, <1>6 DEF OrderInv, Dense
    <2> QED BY <1>1, <2>1, <2>2 DEF Dense
  <1>9. Reach'
    BY <1>1, <1>3, <1>6, <1>7 DEF OrderInv, Reach, At
  <1>10. Below'
    BY <1>1, <1>3, <1>7 DEF OrderInv, Below, At
  <1> QED BY <1>7, <1>8, <1>9, <1>10 DEF OrderInv

LEMMA LateStepsOrder ==
    ASSUME IInv, OrderInv, NEW x \in Registrants,
           \/ WriteFile(x) \/ CheckLockAcquired(x) \/ ReleaseChecked(x) \/ Delay(x)
           \/ RequestFails(x)
    PROVE  OrderInv'
  <1>0. TypeOK /\ \A n \in DOMAIN queue : queue[n] \in Files
    BY DEF IInv, TypeOK
  <1>1. UNCHANGED <<task, handled, clock, seen>>
    BY DEF WriteFile, CheckLockAcquired, ReleaseChecked, Delay, RequestFails, history
  <1>2. reg[x].pc \notin {"new", "done"}
    BY DEF WriteFile, CheckLockAcquired, ReleaseChecked, Delay, RequestFails, At
  <1>3. PICK pc \in {"written", "checking", "released", "done", "failed"} : Goes(x, pc)
    BY DEF WriteFile, CheckLockAcquired, ReleaseChecked, Delay, RequestFails
  <1>4. pc \in RequestPCs /\ pc \notin {"new", "named", "absent"}
    BY DEF RequestPCs
  <1>5. DOMAIN queue' = DOMAIN queue /\ \A n \in DOMAIN queue' : queue'[n].action \in {queue[n].action, x}
    <2>1. UNCHANGED queue \/ queue' = [queue EXCEPT ![reg[x].name].action = x]
      BY DEF WriteFile, CheckLockAcquired, ReleaseChecked, Delay, RequestFails
    <2> QED BY <1>0, <2>1 DEF Files
  <1> QED BY <1>1, <1>2, <1>3, <1>4, <1>5, LateOrder

\* A new request starts at the clock, past which the names are taken as far as those
\* of the earlier actions go, and which is past all that a task has listed.
LEMMA RegisterOrder ==
    ASSUME IInv, OnceInv, OrderInv, NEW x \in Registrants, RegisterAction(x)
    PROVE  OrderInv'
  <1>0. /\ TypeOK /\ FilesOK /\ PastOK /\ \A r \in Registrants : reg[r].name \in Nat
        /\ clock \in Nat /\ DOMAIN queue \subseteq Nat /\ handled \subseteq Registrants
        /\ \A r \in Registrants : seen[r] \subseteq Registrants
    BY DEF IInv, TypeOK, OnceInv
  <1>1. /\ reg[x].pc = "new" /\ UNCHANGED <<queue, task, handled>>
        /\ clock' \in Nat /\ clock =< clock'
    BY <1>0 DEF RegisterAction, At, history
  <1>2. /\ \A y \in Registrants \ {x} : reg'[y] = reg[y] /\ seen'[y] = seen[y]
        /\ reg'[x].pc = "named" /\ reg'[x].name = clock' /\ reg'[x].file = None
        /\ seen'[x] = {z \in Registrants : reg[z].pc = "done"}
    BY <1>0 DEF RegisterAction, At, TypeOK
  <1>3. \A r \in Registrants : \A z \in seen'[r] :
            z \in Registrants /\ z # x /\ reg'[z] = reg[z] /\ reg'[z].pc = "done"
    BY <1>0, <1>1, <1>2 DEF OrderInv, SeenDone
  <1>4. \A z : Live(z)' = Live(z)
    BY <1>1 DEF Live, Actions
  <1>5. SeenDone'
    BY <1>3 DEF SeenDone
  <1>6. \A u \in Tasks : Names(u)' = Names(u)
    BY <1>1 DEF Names
  <1>7. \A u \in Tasks : \A k \in Names(u) : k \in Nat
    BY <1>0 DEF Names, TypeOK, Entries
  <1>8. ListedOld'
    BY <1>0, <1>1, <1>6, <1>7 DEF OrderInv, ListedOld
  <1>9. Dense'
    <2>1. ASSUME NEW n \in DOMAIN queue, NEW k \in clock'..n
          PROVE  k \in DOMAIN queue
      BY <1>0, <1>1 DEF OrderInv, Dense
    <2>2. ASSUME NEW r \in Registrants, NEW k \in clock'..reg'[r].name,
                 reg'[r].pc \in {"named", "absent"}
          PROVE  k \in DOMAIN queue \/ k = reg'[r].name
      <3>1. CASE r = x
        BY <1>1, <1>2, <3>1
      <3>2. CASE r # x
        <4>1. k \in clock..reg[r].name
          BY <1>0, <1>1, <1>2, <3>2
        <4> QED BY <1>2, <2>2, <3>2, <4>1 DEF OrderInv, Dense
      <3> QED BY <3>1, <3>2
    <2> QED BY <1>1, <2>1, <2>2 DEF Dense
  <1>10. Reach'
    <2> SUFFICES ASSUME NEW r \in Registrants, NEW z \in seen'[r], reg'[r].pc = "named", Live(z),
                        NEW k \in reg'[r].name..reg[z].name
                 PROVE  k \in DOMAIN queue
      BY <1>1, <1>3, <1>4 DEF Reach, At
    <2>1. CASE r # x
      BY <1>2, <2>1 DEF OrderInv, Reach, At
    <2>2. CASE r = x
      <3>1. reg[z].name \in DOMAIN queue /\ reg[z].name \in Nat
        BY <1>3, LiveFile
      <3>2. k \in clock..reg[z].name
        BY <1>0, <1>1, <1>2, <2>2, <3>1
      <3> QED BY <3>1, <3>2 DEF OrderInv, Dense
    <2> QED BY <2>1, <2>2
  <1>11. Below'
    <2> SUFFICES ASSUME NEW r \in Registrants, NEW z \in seen'[r],
                        reg'[r].pc = "absent" \/ reg'[r].file # None, Live(z)
                 PROVE  reg[z].name < reg'[r].name
      BY <1>3, <1>4 DEF Below, At
    <2>1. r # x
      BY <1>2
    <2> QED BY <1>2, <2>1 DEF OrderInv, Below, At
  <1>12. Gathered'
    <2> SUFFICES ASSUME NEW r \in Registrants, NEW z \in seen'[r], reg'[r].pc # "new", Live(z),
                        NEW u \in Tasks, task[u].pc \in Batched,
                        NEW k \in Names(u), reg'[r].name =< k
                 PROVE  \/ z \in Actions(task[u].batch)
                        \/ In(u, "reading") /\ reg[z].name \in task[u].todo
      BY <1>1, <1>3, <1>4, <1>6 DEF Gathered, Actions, In, At
    <2>1. CASE r # x
      BY <1>2, <2>1 DEF OrderInv, Gathered, At
    <2>2. CASE r = x
      <3>1. k < clock
        BY DEF OrderInv, ListedOld
      <3> QED BY <1>0, <1>1, <1>2, <1>7, <2>2, <3>1
    <2> QED BY <2>1, <2>2
  <1>13. Settled'
    <2>1. x \notin handled
      BY <1>0, <1>1 DEF PastOK, Past, Written
    <2> QED BY <1>0, <1>1, <1>2, <1>4, <2>1 DEF OrderInv, Settled
  <1> QED BY <1>5, <1>8, <1>9, <1>10, <1>11, <1>12, <1>13 DEF OrderInv

LEMMA QuietStepsOrder ==
    ASSUME IInv, OrderInv, NEW t \in Tasks,
           \/ StartTask(t) \/ AcquireQueue(t) \/ AcquireProcessing(t) \/ ReleaseQueue(t)
           \/ AllRead(t) \/ ApplyGroupActions(t) \/ AllPurged(t) \/ Finish(t)
    PROVE  OrderInv'
  <1>1. UNCHANGED <<reg, seen, queue, clock, handled>>
    BY DEF StartTask, AcquireQueue, AcquireProcessing, ReleaseQueue, AllRead,
           ApplyGroupActions, AllPurged, Finish, requests, history
  <1>2. CASE StartTask(t) \/ AcquireQueue(t) \/ AcquireProcessing(t) \/ ReleaseQueue(t)
             \/ AllPurged(t) \/ Finish(t)
    <2>1. PICK pc \in TaskPCs :
            Moves(t, pc) /\ pc \in {"started", "queued", "holding", "listing", "idle", "ending"}
      BY <1>2 DEF StartTask, AcquireQueue, AcquireProcessing, ReleaseQueue, AllPurged, Finish, TaskPCs
    <2>2. task[t].pc # "reading"
      BY <1>2 DEF StartTask, AcquireQueue, AcquireProcessing, ReleaseQueue, AllPurged, Finish, In
    <2> QED BY <1>1, <2>1, <2>2, QuietOrder DEF Taken, Batched
  <1>3. CASE AllRead(t)
    <2>1. PICK pc \in TaskPCs : Moves(t, pc) /\ pc \in {"ending", "applying"}
      BY <1>3 DEF AllRead, TaskPCs
    <2>2. task[t].pc = "reading" /\ task[t].todo = {}
      BY <1>3 DEF AllRead, In
    <2> QED BY <1>1, <2>1, <2>2, QuietOrder DEF Taken, Batched
  <1>4. CASE ApplyGroupActions(t)
    <2>1. "distributing" \in TaskPCs /\ Moves(t, "distributing") /\ task[t].pc = "applying"
      BY <1>4 DEF ApplyGroupActions, In, TaskPCs
    <2> QED BY <1>1, <2>1, QuietOrder DEF Taken, Batched
  <1> QED BY <1>2, <1>3, <1>4

LEMMA StepOrder ==
    ASSUME IInv, OnceInv, OrderInv, SlowListing, [Next]_vars
    PROVE  OrderInv'
  <1>1. CASE UNCHANGED vars
    <2>1. \A z : Live(z)' = Live(z)
      BY <1>1 DEF Live, Actions, vars, history
    <2>2. \A t : Names(t)' = Names(t)
      BY <1>1 DEF Names, vars
    <2> QED BY <1>1, <2>1, <2>2
        DEF OrderInv, Dense, ListedOld, SeenDone, Reach, Below, Gathered, Settled, Actions,
            At, In, vars, history, requests
  <1>2. ASSUME NEW r \in Registrants, RegisterAction(r) \/ RequestStep(r) \/ RequestFails(r)
        PROVE  OrderInv'
    BY <1>2, RegisterOrder, ProbeOrder, OpenOrder, LateStepsOrder DEF RequestStep
  <1>3. ASSUME NEW t \in Tasks, TaskStep(t) \/ TaskFails(t)
        PROVE  OrderInv'
    BY <1>3, QuietStepsOrder, ListOrder, ReadOrder, ApplyRightOrder, PurgeOrder, TaskFailsOrder
    DEF TaskStep
  <1>4. Rest => UNCHANGED vars
    BY DEF Rest
  <1> QED BY <1>1, <1>2, <1>3, <1>4 DEF Next

LEMMA InitOrder == Init => OrderInv
  <1> SUFFICES ASSUME Init PROVE OrderInv
    OBVIOUS
  <1>1. queue = << >> /\ DOMAIN queue = {} /\ handled = {}
    BY DEF Init
  <1>2. \A r \in Registrants : reg[r].pc = "new" /\ reg[r].file = None /\ seen[r] = {}
    BY DEF Init, NewRequest
  <1>3. \A t \in Tasks : task[t].pc = "idle"
    BY DEF Init, IdleTask
  <1> QED BY <1>1, <1>2, <1>3
      DEF OrderInv, Dense, ListedOld, SeenDone, Reach, Below, Gathered, Settled, At, Batched

\* The order of what has taken effect.
Ordered(a) == \A i, j \in DOMAIN a : i < j /\ Same(a[i], a[j]) => a[j] \notin seen[a[i]]

LEMMA AppendOrdered ==
    ASSUME NEW a \in Seq(Registrants), NEW s \in Seq(Registrants), Ordered(a), Ordered(s),
           \A i \in DOMAIN a, j \in DOMAIN s : Same(a[i], s[j]) => s[j] \notin seen[a[i]]
    PROVE  Ordered(a \o s)
  <1> DEFINE m == Len(a)
             k == Len(s)
             c == a \o s
  <1>1. /\ m \in Nat /\ k \in Nat /\ DOMAIN a = 1..m /\ DOMAIN s = 1..k
        /\ DOMAIN c = 1..(m + k)
        /\ \A i \in 1..(m + k) : c[i] = IF i =< m THEN a[i] ELSE s[i - m]
    BY ConcatProperties, LenProperties
  <1> HIDE DEF m, k, c
  <1>2. \A i \in 1..(m + k) : IF i =< m THEN i \in 1..m ELSE i - m \in 1..k
    BY <1>1
  <1>3. ASSUME NEW i \in 1..(m + k), NEW j \in 1..(m + k), i < j, Same(c[i], c[j])
        PROVE  c[j] \notin seen[c[i]]
    <2>1. CASE j =< m
      <3>1. i \in 1..m /\ j \in 1..m /\ c[i] = a[i] /\ c[j] = a[j]
        BY <1>1, <1>2, <1>3, <2>1
      <3> QED BY <1>1, <1>3, <3>1 DEF Ordered
    <2>2. CASE ~(i =< m)
      <3>1. /\ i - m \in 1..k /\ j - m \in 1..k /\ i - m < j - m
            /\ c[i] = s[i - m] /\ c[j] = s[j - m]
        BY <1>1, <1>2, <1>3, <2>2
      <3> QED BY <1>1, <1>3, <3>1 DEF Ordered
    <2>3. CASE i =< m /\ ~(j =< m)
      <3>1. i \in 1..m /\ j - m \in 1..k /\ c[i] = a[i] /\ c[j] = s[j - m]
        BY <1>1, <1>2, <1>3, <2>3
      <3> QED BY <1>1, <1>3, <3>1
    <2> QED BY <2>1, <2>2, <2>3
  <1> QED BY <1>1, <1>3 DEF c, Ordered

\* A part of a batch is applied by the names of its files.
LEMMA SortedNames ==
    ASSUME NEW batch \in SUBSET Entries, IsFiniteSet(batch), NEW S, NEW order \in Sorted(batch, S),
           NEW i \in DOMAIN order, NEW j \in DOMAIN order, i < j
    PROVE  /\ order[i] \in batch /\ order[j] \in batch
           /\ order[i].action \in S /\ order[j].action \in S
           /\ order[i].name < order[j].name
  BY DEF Sorted

\* Nothing of a batch that is being applied was registered before anything handled.
LEMMA BatchAfter ==
    ASSUME IInv, OrderInv, Apart, NEW t \in Tasks, task[t].pc \in {"applying", "distributing"},
           NEW z \in Actions(task[t].batch)
    PROVE  Live(z) /\ z \in Registrants /\ \A r \in handled : z \notin seen[r]
  <1>1. z \notin handled
    BY DEF Apart, Taken
  <1>2. Live(z)
    BY <1>1 DEF Live, Taken
  <1>3. z \in Registrants
    BY DEF IInv, TypeOK, Actions, Entries
  <1> QED BY <1>2, <1>3 DEF OrderInv, Settled

LEMMA ApplyGroupOrdered ==
    ASSUME IInv, OnceInv, OrderInv, Apart, Ordered(applied), NEW t \in Tasks, ApplyGroupActions(t)
    PROVE  Ordered(applied')
  <1> DEFINE batch == task[t].batch
             E == Effective(batch)
  <1>1. task[t].pc = "applying"
    BY DEF ApplyGroupActions, In
  <1>2. PICK order \in Sorted(batch, E) :
            applied' = applied \o [i \in DOMAIN order |-> order[i].action]
    BY DEF ApplyGroupActions
  <1> DEFINE s == [i \in DOMAIN order |-> order[i].action]
  <1>3. /\ batch \in SUBSET Entries /\ IsFiniteSet(batch)
        /\ \A e, f \in batch : e.action = f.action => e = f
    BY <1>1, BatchOnce DEF OnceInv, Batched
  <1>4. /\ s \in Seq(Registrants) /\ \A i \in DOMAIN s : s[i] \in Actions(batch)
    BY <1>3, SortedOnce
  <1>5. applied \in Seq(Registrants) /\ \A i \in DOMAIN applied : applied[i] \in handled
    BY <1>1, Alone DEF OnceInv, Apart
  <1>6. ASSUME NEW i \in DOMAIN order, NEW j \in DOMAIN order, i < j,
               Same(order[i].action, order[j].action)
        PROVE  FALSE
    <2>1. /\ order[i] \in batch /\ order[j] \in batch /\ order[i].action \in E
          /\ order[i].name < order[j].name
      BY <1>3, <1>6, SortedNames
    <2>2. PICK e \in batch : /\ e.action = order[i].action
                            /\ \A y \in batch : Same(e.action, y.action) => y.name <= e.name
      BY <2>1 DEF Effective
    <2>3. e = order[i]
      BY <1>3, <2>1, <2>2
    <2>4. order[j].name <= order[i].name
      BY <1>6, <2>1, <2>2, <2>3
    <2>5. order[i].name \in Nat /\ order[j].name \in Nat
      BY <1>3, <2>1 DEF Entries
    <2> QED BY <2>1, <2>4, <2>5
  <1>7. Ordered(s)
    BY <1>6 DEF Ordered
  <1>8. \A i \in DOMAIN applied, j \in DOMAIN s : s[j] \notin seen[applied[i]]
    BY <1>1, <1>4, <1>5, BatchAfter
  <1> HIDE DEF s
  <1> QED BY <1>2, <1>4, <1>5, <1>7, <1>8, AppendOrdered DEF s

LEMMA ApplyRightOrdered ==
    ASSUME IInv, OnceInv, OrderInv, Apart, Ordered(applied), NEW t \in Tasks, ApplyRightActions(t)
    PROVE  Ordered(applied')
  <1>0. TypeOK /\ BatchOK /\ None \notin Registrants
    BY QueueAssumption DEF IInv
  <1> DEFINE batch == task[t].batch
  <1>1. task[t].pc = "distributing"
    BY DEF ApplyRightActions, In
  <1>2. PICK order \in Sorted(batch, RightActions) :
            applied' = applied \o [i \in DOMAIN order |-> order[i].action]
    BY DEF ApplyRightActions
  <1> DEFINE s == [i \in DOMAIN order |-> order[i].action]
  <1>3. /\ batch \in SUBSET Entries /\ IsFiniteSet(batch)
        /\ \A e, f \in batch : e.action = f.action => e = f
    BY <1>1, BatchOnce DEF OnceInv, Batched
  <1>4. /\ s \in Seq(Registrants)
        /\ \A i \in DOMAIN s : s[i] \in Actions(batch) /\ s[i] \in RightActions
    BY <1>3, SortedOnce
  <1>5. /\ applied \in Seq(Registrants)
        /\ \A i \in DOMAIN applied :
              applied[i] \in handled \/ (applied[i] \in Registrants /\ applied[i] \notin RightActions)
    <2>1. Begun \subseteq Registrants \ RightActions
      BY DEF Begun
    <2> QED BY <1>1, <2>1 DEF OnceInv, Apart
  <1>6. ASSUME NEW i \in DOMAIN order, NEW j \in DOMAIN order, i < j
        PROVE  order[j].action \notin seen[order[i].action]
    <2>1. /\ order[i] \in batch /\ order[j] \in batch /\ order[i].name < order[j].name
      BY <1>3, <1>6, SortedNames
    <2> DEFINE r == order[i].action
               z == order[j].action
    <2>2. /\ r \in Registrants /\ z \in Registrants
          /\ order[i].name \in Nat /\ order[j].name \in Nat
      BY <1>3, <2>1 DEF Entries
    <2>3. /\ reg[r].name = order[i].name /\ reg[z].name = order[j].name
          /\ reg[r].file = queue[order[i].name].file /\ order[i].name \in DOMAIN queue
      BY <1>0, <1>1, <2>1 DEF BatchOK, Batched
    <2>4. reg[r].file # None
      BY <1>0, <2>3 DEF TypeOK, Files
    <2>5. Live(z)
      <3>1. z \in Actions(batch)
        BY <2>1 DEF Actions
      <3> QED BY <1>1, <3>1, BatchAfter
    <2>6. z \in seen[r] => reg[z].name < reg[r].name
      BY <2>2, <2>4, <2>5 DEF OrderInv, Below
    <2> QED BY <2>1, <2>2, <2>3, <2>6
  <1>7. Ordered(s)
    BY <1>6 DEF Ordered
  <1>8. \A i \in DOMAIN applied, j \in DOMAIN s : Same(applied[i], s[j]) => s[j] \notin seen[applied[i]]
    <2> SUFFICES ASSUME NEW i \in DOMAIN applied, NEW j \in DOMAIN s, Same(applied[i], s[j])
                 PROVE  s[j] \notin seen[applied[i]]
      OBVIOUS
    <2>1. CASE applied[i] \in handled
      BY <1>1, <1>4, <2>1, BatchAfter
    <2>2. CASE applied[i] \in Registrants /\ applied[i] \notin RightActions
      BY <1>0, <1>4, <2>2 DEF Same, RightActions, TypeOK
    <2> QED BY <1>5, <2>1, <2>2
  <1> HIDE DEF s
  <1> QED BY <1>2, <1>4, <1>5, <1>7, <1>8, AppendOrdered DEF s

\* What has taken effect keeps its kind and what was seen before it.
LEMMA StepOrdered ==
    ASSUME IInv, OnceInv, OrderInv, InOrder, [Next]_vars
    PROVE  InOrder'
  <1>0. TypeOK /\ PastOK /\ faults \in Nat /\ handled \subseteq Registrants
    BY DEF IInv, TypeOK, OnceInv
  <1>1. ASSUME Apart, NEW i \in DOMAIN applied
        PROVE  applied[i] \in Registrants /\ reg[applied[i]].pc \in Past
    BY <1>0, <1>1 DEF Apart, Begun, PastOK
  <1>2. ASSUME NEW x \in Registrants, RegisterAction(x) \/ RequestStep(x) \/ RequestFails(x)
        PROVE  InOrder'
    <2>1. UNCHANGED applied /\ (faults' = 0 => faults = 0)
      BY <1>0, <1>2 DEF RegisterAction, RequestStep, Probe, OpenFile, WriteFile,
             CheckLockAcquired, ReleaseChecked, Delay, RequestFails, history
    <2>2. ASSUME NEW y \in Registrants, reg[y].pc \in Past
          PROVE  reg'[y].right = reg[y].right /\ seen'[y] = seen[y]
      <3>1. CASE RegisterAction(x)
        BY <1>0, <2>2, <3>1 DEF RegisterAction, At, Past, Written, TypeOK
      <3>2. CASE RequestStep(x) \/ RequestFails(x)
        BY <1>0, <1>2, <2>2, <3>2
        DEF RequestStep, Probe, OpenFile, WriteFile, CheckLockAcquired, ReleaseChecked, Delay,
            RequestFails, Goes, TypeOK
      <3> QED BY <1>2, <3>1, <3>2
    <2> QED BY <1>1, <2>1, <2>2 DEF InOrder, Same, OnceInv
  <1>3. ASSUME NEW t \in Tasks, TaskStep(t) \/ TaskFails(t)
        PROVE  InOrder'
    <2>1. UNCHANGED <<reg, seen>> /\ (faults' = 0 => faults = 0)
      BY <1>0, <1>3 DEF TaskStep, StartTask, AcquireQueue, AcquireProcessing, ReleaseQueue,
             ListActions, ReadAction, AllRead, ApplyGroupActions, ApplyRightActions,
             PurgeAction, AllPurged, Finish, TaskFails, requests
    <2>2. CASE UNCHANGED applied
      BY <2>1, <2>2 DEF InOrder, Same
    <2>3. CASE ApplyGroupActions(t) \/ ApplyRightActions(t)
      <3> SUFFICES ASSUME faults' = 0 PROVE InOrder'
        BY DEF InOrder
      <3>1. Ordered(applied) /\ Apart
        BY <2>1 DEF InOrder, Ordered, OnceInv
      <3>2. Ordered(applied')
        BY <2>3, <3>1, ApplyGroupOrdered, ApplyRightOrdered
      <3> QED BY <2>1, <3>2 DEF InOrder, Ordered, Same
    <2> QED BY <1>3, <2>2, <2>3
        DEF TaskStep, StartTask, AcquireQueue, AcquireProcessing, ReleaseQueue, ListActions,
            ReadAction, AllRead, PurgeAction, AllPurged, Finish, TaskFails, history
  <1>4. CASE UNCHANGED vars
    BY <1>4 DEF InOrder, Same, vars, history, requests
  <1>5. Rest => UNCHANGED vars
    BY DEF Rest
  <1> QED BY <1>2, <1>3, <1>4, <1>5 DEF Next

\* Actions take effect in the order in which they were registered, for any number of
\* requests and tasks, if reading the directory takes a microsecond for each request.
THEOREM RegisteredOrder == ASSUME SlowListing PROVE Spec => []InOrder
  <1>1. IInv /\ OnceInv /\ OrderInv /\ InOrder /\ [Next]_vars => OnceInv' /\ OrderInv' /\ InOrder'
    BY StepOnce, StepOrder, StepOrdered
  <1>2. Init => InOrder
    BY DEF Init, InOrder
  <1> QED BY <1>1, <1>2, InitOnce, InitOrder, Invariance, PTL DEF Spec
=============================================================================
