---------------------------- MODULE ActionQueue ----------------------------
(***************************************************************************)
(* The queue of actions of UserSelect                                      *)
(* (src/timApp/plugin/userselect/action_queue.py).  A request registers an *)
(* action as a file of a directory, named by the time in microseconds, and *)
(* starts a Celery task unless another task already waits.  The tasks read *)
(* the files under two file locks, apply the actions and remove the files. *)
(*                                                                         *)
(* An action is known by the request that registers it.  A file is its     *)
(* name, the request that created it (its inode) and the action written    *)
(* into it, None as long as it is empty.                                   *)
(***************************************************************************)
EXTENDS Naturals, Sequences, FiniteSets, Functions

CONSTANTS
    Registrants,    \* requests; each registers one action
    Tasks,          \* processes of the Celery worker
    SubjectOf,      \* [Registrants -> users, with the group of a GroupAction]
    None,
    Pause,          \* bound: microseconds that reading the directory takes at
                    \* least
    MaxFaults       \* bound: processes killed, and tasks that raise

ASSUME QueueAssumption ==
    /\ None \notin Registrants \cup Tasks
    /\ Registrants \cap Tasks = {}
    /\ DOMAIN SubjectOf = Registrants
    /\ Pause \in Nat /\ MaxFaults \in Nat

VARIABLES
    queue,              \* the directory: name -> [file, action]
    queue_lock,         \* who holds queue.lock
    processing_lock,    \* who holds processing.lock
    spawned,            \* tasks sent to Celery and not yet started
    reg,                \* the requests in _register_action
    task,               \* the tasks in apply_pending_actions_impl
    clock,              \* time in microseconds
    applied,            \* history: actions in the order they took effect
    handled,            \* history: actions of batches that were applied
    clashed,            \* history: requests that opened one file together
    seen,               \* history: requests that were over when one began
    faults              \* failures so far

locks == <<queue_lock, processing_lock>>
history == <<applied, handled>>
requests == <<reg, clashed, seen>>
vars == <<queue, queue_lock, processing_lock, spawned, reg, task, clock,
          applied, handled, clashed, seen, faults>>

NewRequest == [pc |-> "new", right |-> FALSE, name |-> 0, file |-> None]
IdleTask == [pc |-> "idle", todo |-> {}, batch |-> {}]

Init ==
    /\ queue = << >>
    /\ queue_lock = None /\ processing_lock = None
    /\ spawned = 0
    /\ reg = [r \in Registrants |-> NewRequest]
    /\ task = [t \in Tasks |-> IdleTask]
    /\ clock = 0
    /\ applied = << >> /\ handled = {} /\ clashed = {}
    /\ seen = [r \in Registrants |-> {}]
    /\ faults = 0

-----------------------------------------------------------------------------
(* _register_action                                                         *)

At(r, pc) == reg[r].pc = pc
Goes(r, pc) == reg' = [reg EXCEPT ![r].pc = pc]
Exists(name) == name \in DOMAIN queue
Put(name, f) == [n \in DOMAIN queue \cup {name} |-> IF n = name THEN f ELSE queue[n]]

\* A DistRightAction or a GroupAction.  now = int(time.time() * 1000000): two
\* requests may read the same time.
RegisterAction(r) ==
    /\ At(r, "new")
    /\ clock' \in {clock, clock + 1}
    /\ \E right \in BOOLEAN :
        reg' = [reg EXCEPT ![r] = [pc |-> "named", right |-> right,
                                   name |-> clock', file |-> None]]
    /\ seen' = [seen EXCEPT ![r] = {x \in Registrants : At(x, "done")}]
    /\ UNCHANGED <<queue, locks, spawned, task, history, clashed, faults>>

\* while action_file_path.exists(): now += 1
Probe(r) ==
    /\ At(r, "named")
    /\ IF Exists(reg[r].name)
       THEN reg' = [reg EXCEPT ![r].name = @ + 1]
       ELSE Goes(r, "absent")
    /\ UNCHANGED <<queue, locks, spawned, task, clock, history, clashed, seen, faults>>

\* write_text opens the file, which is empty then, also when another request
\* has created it since the probe.
OpenFile(r) ==
    LET name == reg[r].name
        file == IF Exists(name) THEN queue[name].file ELSE r
    IN  /\ At(r, "absent")
        /\ queue' = Put(name, [file |-> file, action |-> None])
        /\ reg' = [reg EXCEPT ![r].pc = "opened", ![r].file = file]
        /\ clashed' = IF Exists(name)
                      THEN clashed \cup {r} \cup {x \in Registrants : reg[x].file = file}
                      ELSE clashed
        /\ UNCHANGED <<locks, spawned, task, clock, history, seen, faults>>

\* The text gets into the file that was opened, which may be gone.
WriteFile(r) ==
    LET name == reg[r].name
    IN  /\ At(r, "opened")
        /\ queue' = IF Exists(name) /\ queue[name].file = reg[r].file
                    THEN [queue EXCEPT ![name].action = r] ELSE queue
        /\ Goes(r, "written")
        /\ UNCHANGED <<locks, spawned, task, clock, history, clashed, seen, faults>>

\* Slip: the lock that the tasks hold while they apply the actions is looked at.
CheckProcessingLock(r) ==
    /\ At(r, "written")
    /\ Goes(r, IF processing_lock = None THEN "released" ELSE "done")
    /\ UNCHANGED <<queue, locks, spawned, task, clock, history, clashed, seen, faults>>

\* _check_lock_acquired("queue") takes the lock itself for a moment.
CheckLockAcquired(r) ==
    /\ At(r, "written")
    /\ IF queue_lock = None
       THEN queue_lock' = r /\ Goes(r, "checking")
       ELSE UNCHANGED queue_lock /\ Goes(r, "done")
    /\ UNCHANGED <<queue, processing_lock, spawned, task, clock, history, clashed, seen, faults>>

ReleaseChecked(r) ==
    /\ At(r, "checking")
    /\ queue_lock' = None
    /\ Goes(r, "released")
    /\ UNCHANGED <<queue, processing_lock, spawned, task, clock, history, clashed, seen, faults>>

\* apply_pending_userselect_actions.delay()
Delay(r) ==
    /\ At(r, "released")
    /\ spawned' = spawned + 1
    /\ Goes(r, "done")
    /\ UNCHANGED <<queue, locks, task, clock, history, clashed, seen, faults>>

-----------------------------------------------------------------------------
(* apply_pending_actions_impl                                               *)

In(t, pc) == task[t].pc = pc
Moves(t, pc) == task' = [task EXCEPT ![t].pc = pc]

StartTask(t) ==
    /\ In(t, "idle")
    /\ spawned > 0
    /\ spawned' = spawned - 1
    /\ Moves(t, "started")
    /\ UNCHANGED <<queue, locks, requests, clock, history, faults>>

AcquireQueue(t) ==
    /\ In(t, "started")
    /\ queue_lock = None
    /\ queue_lock' = t
    /\ Moves(t, "queued")
    /\ UNCHANGED <<queue, processing_lock, spawned, requests, clock, history, faults>>

\* Slip: the task does not wait for the one that applies actions.
EnterProcessing(t) ==
    /\ In(t, "queued")
    /\ processing_lock' = t
    /\ Moves(t, "holding")
    /\ UNCHANGED <<queue, queue_lock, spawned, requests, clock, history, faults>>

AcquireProcessing(t) ==
    /\ In(t, "queued")
    /\ processing_lock = None
    /\ processing_lock' = t
    /\ Moves(t, "holding")
    /\ UNCHANGED <<queue, queue_lock, spawned, requests, clock, history, faults>>

ReleaseQueue(t) ==
    /\ In(t, "holding")
    /\ queue_lock' = None
    /\ Moves(t, "listing")
    /\ UNCHANGED <<queue, processing_lock, spawned, requests, clock, history, faults>>

\* _get_pending_actions: the names of the directory, which takes its time.
ListActions(t) ==
    /\ In(t, "listing")
    /\ task' = [task EXCEPT ![t] = [pc |-> "reading", todo |-> DOMAIN queue, batch |-> {}]]
    /\ clock' = clock + Pause
    /\ UNCHANGED <<queue, locks, spawned, requests, history, faults>>

\* Slip: a file that is still empty is taken for an action.
ReadAnyAction(t) ==
    /\ In(t, "reading")
    /\ \E name \in task[t].todo :
        task' = [task EXCEPT ![t].todo = @ \ {name},
                             ![t].batch = @ \cup {[name |-> name, action |-> queue[name].action]}]
    /\ UNCHANGED <<queue, locks, spawned, requests, clock, history, faults>>

Readable(name) == Exists(name) /\ queue[name].action # None

\* One file after the other, in any order; one that is empty or gone is skipped.
ReadAction(t) ==
    /\ In(t, "reading")
    /\ \E name \in task[t].todo :
        task' = [task EXCEPT ![t].todo = @ \ {name},
                             ![t].batch = IF Readable(name)
                                          THEN @ \cup {[name |-> name, action |-> queue[name].action]}
                                          ELSE @]
    /\ UNCHANGED <<queue, locks, spawned, requests, clock, history, faults>>

\* "if not actions: return"
AllRead(t) ==
    /\ In(t, "reading") /\ task[t].todo = {}
    /\ Moves(t, IF task[t].batch = {} THEN "ending" ELSE "applying")
    /\ UNCHANGED <<queue, locks, spawned, requests, clock, history, faults>>

RightActions == {r \in Registrants : reg[r].right}
Same(x, y) == SubjectOf[x] = SubjectOf[y] /\ reg[x].right = reg[y].right

\* Slip: the actions in the order in which the files were found, which may be
\* any other than the one of their timestamps.
Unsorted(batch, S) ==
    LET entries == {e \in batch : e.action \in S}
    IN  {order \in [1..Cardinality(entries) -> entries] :
            \A i, j \in DOMAIN order : i < j => order[i].name > order[j].name}

Actions(batch) == {e.action : e \in batch}

\* The entries of a batch whose actions are in S, by their timestamps: there is one
\* such order, since the names differ.
Sorted(batch, S) ==
    LET entries == {e \in batch : e.action \in S}
    IN  {order \in [1..Cardinality(entries) -> entries] :
            \A i, j \in DOMAIN order : i < j => order[i].name < order[j].name}

\* _optimize_group_actions: the latest action of a user on a group is the
\* effective one.
Effective(batch) ==
    {e.action : e \in {x \in batch :
        /\ x.action \notin RightActions
        /\ \A y \in batch : Same(x.action, y.action) => y.name <= x.name}}

\* The memberships change in one transaction.
ApplyGroupActions(t) ==
    LET batch == task[t].batch
    IN  /\ In(t, "applying")
        /\ \E order \in Sorted(batch, Effective(batch)) :
            applied' = applied \o [i \in DOMAIN order |-> order[i].action]
        /\ Moves(t, "distributing")
        /\ UNCHANGED <<queue, locks, spawned, requests, clock, handled, faults>>

\* apply_dist_right_actions of every user.
ApplyRightActions(t) ==
    LET batch == task[t].batch
    IN  /\ In(t, "distributing")
        /\ \E order \in Sorted(batch, RightActions) :
            applied' = applied \o [i \in DOMAIN order |-> order[i].action]
        /\ handled' = handled \cup Actions(batch)
        /\ Moves(t, "purging")
        /\ UNCHANGED <<queue, locks, spawned, requests, clock, faults>>

\* Slip: every file that is there now is removed.
PurgeQueue(t) ==
    /\ In(t, "purging")
    /\ queue' = << >>
    /\ task' = [task EXCEPT ![t].batch = {}]
    /\ UNCHANGED <<locks, spawned, requests, clock, history, faults>>

\* _purge_actions: one file after the other.
PurgeAction(t) ==
    /\ In(t, "purging")
    /\ \E entry \in task[t].batch :
        /\ queue' = Restrict(queue, DOMAIN queue \ {entry.name})
        /\ task' = [task EXCEPT ![t].batch = @ \ {entry}]
    /\ UNCHANGED <<locks, spawned, requests, clock, history, faults>>

AllPurged(t) ==
    /\ In(t, "purging") /\ task[t].batch = {}
    /\ Moves(t, "ending")
    /\ UNCHANGED <<queue, locks, spawned, requests, clock, history, faults>>

\* Slip: the lock is not released.
FinishLocked(t) ==
    /\ In(t, "ending")
    /\ Moves(t, "idle")
    /\ UNCHANGED <<queue, locks, spawned, requests, clock, history, faults>>

\* finally: processing_lock.release()
Finish(t) ==
    /\ In(t, "ending")
    /\ processing_lock' = None
    /\ Moves(t, "idle")
    /\ UNCHANGED <<queue, queue_lock, spawned, requests, clock, history, faults>>

-----------------------------------------------------------------------------
(* Failures: the operating system releases the file locks of a process.     *)

ReleaseAll(p) ==
    /\ queue_lock' = IF queue_lock = p THEN None ELSE queue_lock
    /\ processing_lock' = IF processing_lock = p THEN None ELSE processing_lock

\* The task raises or its worker is killed.  Celery does not run it again, and
\* the files it has not removed stay for the next task.
TaskFails(t) ==
    /\ ~In(t, "idle")
    /\ faults < MaxFaults /\ faults' = faults + 1
    /\ ReleaseAll(t)
    /\ task' = [task EXCEPT ![t] = IdleTask]
    /\ UNCHANGED <<queue, spawned, requests, clock, history>>

\* The worker of a request is killed.
RequestFails(r) ==
    /\ reg[r].pc \notin {"new", "done", "failed"}
    /\ faults < MaxFaults /\ faults' = faults + 1
    /\ ReleaseAll(r)
    /\ Goes(r, "failed")
    /\ UNCHANGED <<queue, spawned, task, clock, history, clashed, seen>>

\* Everything is over.
Rest ==
    /\ \A r \in Registrants : reg[r].pc \in {"done", "failed"}
    /\ \A t \in Tasks : In(t, "idle")
    /\ spawned = 0
    /\ UNCHANGED vars

RequestStep(r) ==
    \/ Probe(r) \/ OpenFile(r) \/ WriteFile(r)
    \/ CheckLockAcquired(r) \/ ReleaseChecked(r) \/ Delay(r)

TaskStep(t) ==
    \/ StartTask(t) \/ AcquireQueue(t) \/ AcquireProcessing(t) \/ ReleaseQueue(t)
    \/ ListActions(t) \/ ReadAction(t) \/ AllRead(t)
    \/ ApplyGroupActions(t) \/ ApplyRightActions(t)
    \/ PurgeAction(t) \/ AllPurged(t) \/ Finish(t)

Next ==
    \/ \E r \in Registrants : RegisterAction(r) \/ RequestStep(r) \/ RequestFails(r)
    \/ \E t \in Tasks : TaskStep(t) \/ TaskFails(t)
    \/ Rest

Spec == Init /\ [][Next]_vars

\* Processes that are not killed go on; no request is obliged to begin.
FairSpec ==
    /\ Spec
    /\ \A r \in Registrants : WF_vars(RequestStep(r))
    /\ \A t \in Tasks : WF_vars(TaskStep(t))

-----------------------------------------------------------------------------
(* Properties                                                               *)

Files == [file : Registrants, action : Registrants \cup {None}]
Entries == [name : Nat, action : Registrants]
RequestPCs == {"new", "named", "absent", "opened", "written", "checking",
               "released", "done", "failed"}
TaskPCs == {"idle", "started", "queued", "holding", "listing", "reading",
            "applying", "distributing", "purging", "ending"}

\* The directory, the locks and the processes have their types; only complete
\* files become actions of a batch.
TypeOK ==
    /\ DOMAIN queue \subseteq Nat /\ queue \in [DOMAIN queue -> Files]
    /\ {queue_lock, processing_lock} \subseteq Registrants \cup Tasks \cup {None}
    /\ spawned \in Nat /\ clock \in Nat /\ faults \in Nat
    /\ reg \in [Registrants -> [pc : RequestPCs, right : BOOLEAN, name : Nat,
                               file : Registrants \cup {None}]]
    /\ task \in [Tasks -> [pc : TaskPCs, todo : SUBSET Nat, batch : SUBSET Entries]]
    /\ handled \subseteq Registrants /\ clashed \subseteq Registrants
    /\ seen \in [Registrants -> SUBSET Registrants]

\* A task that has yet to list the directory, or a request that will start one.
Coming ==
    \/ spawned > 0
    \/ \E r \in Registrants : reg[r].pc \in {"checking", "released"}
    \/ \E t \in Tasks : task[t].pc \in {"started", "queued", "holding", "listing"}

\* The task has the action or still has to read its file.
Has(t, r) ==
    \/ In(t, "reading") /\ reg[r].name \in task[t].todo
    \/ task[t].pc \in {"reading", "applying", "distributing"} /\ r \in Actions(task[t].batch)

\* The FIXME of apply_pending_actions_impl fears that an action is "left
\* unprocessed in time" when it is registered while a task takes its locks.
\* It is not: as long as nothing fails, an action whose request is over has
\* been applied, or a task has it or is going to list the directory.
NoActionForgotten ==
    faults = 0 =>
        \A r \in Registrants :
            At(r, "done") /\ r \notin clashed \cup handled
                => Coming \/ \E t \in Tasks : Has(t, r)

\* Whatever fails, the file of an action is removed only after the action has
\* been applied, or a later one of the same user on the same group has.
PurgedIsHandled ==
    \A r \in Registrants :
        reg[r].pc \in {"written", "checking", "released", "done"} /\ r \notin clashed \cup handled
            => Exists(reg[r].name) /\ queue[reg[r].name].action = r

\* The processing lock: without failures no action takes effect twice.
AppliedOnce == faults = 0 => \A i, j \in DOMAIN applied : applied[i] = applied[j] => i = j

\* "Used for sorting the actions to apply them in correct order": without
\* failures an action never takes effect after one on the same subject that
\* was registered after it.
InOrder ==
    faults = 0 =>
        \A i, j \in DOMAIN applied :
            i < j /\ Same(applied[i], applied[j]) => applied[j] \notin seen[applied[i]]

\* Every action that a request has registered is applied, if nothing fails.
EveryActionHandled ==
    \A r \in Registrants :
        ~<>[](faults = 0 /\ At(r, "done") /\ r \notin clashed \cup handled)
=============================================================================
