-------------------------- MODULE ActionQueueInv --------------------------
(***************************************************************************)
(* The inductive invariant of ActionQueue, in named parts.                 *)
(***************************************************************************)
EXTENDS ActionQueue

\* Where a task holds the processing lock, and where its batch is meaningful.
Batched == {"reading", "applying", "distributing", "purging"}
Processing == {"holding", "listing", "ending"} \cup Batched

\* Where a request has its file open or behind it.
Written == {"written", "checking", "released", "done"}
Opened == {"opened"} \cup Written

\* A lock is held by the process that is between taking and releasing it.
LocksOK ==
    /\ \A t \in Tasks : queue_lock = t <=> task[t].pc \in {"queued", "holding"}
    /\ \A r \in Registrants : queue_lock = r <=> reg[r].pc = "checking"
    /\ \A t \in Tasks : processing_lock = t <=> task[t].pc \in Processing
    /\ processing_lock \notin Registrants

\* A file is where the request that created it left it, what is in it comes from
\* a request that has it open, and a request that has not clashed is alone with
\* its file.
FilesOK ==
    /\ \A r \in Registrants : reg[r].pc \in {"new", "named", "absent"} => reg[r].file = None
    /\ \A n \in DOMAIN queue :
        /\ reg[queue[n].file].file = queue[n].file
        /\ reg[queue[n].file].name = n
        /\ queue[n].action # None =>
            /\ reg[queue[n].action].file = queue[n].file
            /\ reg[queue[n].action].name = n
    /\ \A r, x \in Registrants : r \notin clashed /\ reg[x].file = r => x = r

\* A request that has not clashed and whose action is not handled still has its
\* file, which is empty until the request writes it.
OwnFile ==
    \A r \in Registrants : reg[r].pc \in Opened /\ r \notin clashed \cup handled =>
        /\ reg[r].name \in DOMAIN queue
        /\ queue[reg[r].name].file = r /\ reg[r].file = r
        /\ queue[reg[r].name].action = IF reg[r].pc = "opened" THEN None ELSE r

\* The files that a task has read and will read are still there, each once, and
\* it removes only files whose action it has handled.
BatchOK ==
    \A t \in Tasks : task[t].pc \in Batched =>
        /\ task[t].pc = "reading" => task[t].todo \subseteq DOMAIN queue
        /\ \A e, f \in task[t].batch : e.name = f.name => e = f
        /\ \A e \in task[t].batch :
            /\ e.name \in DOMAIN queue
            /\ reg[e.action].file = queue[e.name].file
            /\ reg[e.action].name = e.name
            /\ task[t].pc = "reading" => e.name \notin task[t].todo
            /\ task[t].pc = "purging" => e.action \in handled

\* Inductive; implies PurgedIsHandled, and NoActionForgotten is inductive beside it.
IInv == TypeOK /\ LocksOK /\ FilesOK /\ OwnFile /\ BatchOK

-----------------------------------------------------------------------------
(* The order of the actions                                                 *)

\* Where a task has actions that it has not handled.
Taken == {"reading", "applying", "distributing"}

\* The files that a task has listed and not removed.
Names(t) == task[t].todo \cup {e.name : e \in task[t].batch}

\* An action that may yet take effect.
Live(z) ==
    /\ z \notin handled
    /\ \/ \E n \in DOMAIN queue : queue[n].action = z
       \/ \E t \in Tasks : task[t].pc \in Taken /\ z \in Actions(task[t].batch)

\* Names are ahead of the clock only because all between are taken.
Dense ==
    /\ \A n \in DOMAIN queue : clock..n \subseteq DOMAIN queue
    /\ \A r \in Registrants : \A k \in clock..reg[r].name :
           reg[r].pc \in {"named", "absent"} => k \in DOMAIN queue \/ k = reg[r].name

\* While the directory is listed the clock passes all names in it.
ListedOld == \A t \in Tasks : task[t].pc \in Batched => \A k \in Names(t) : k < clock

SeenDone == \A r \in Registrants : \A z \in seen[r] : reg[z].pc = "done"

\* A request that looks for a free name finds none before that of an earlier action,
\* and has a later one when it has found it.
Reach ==
    \A r \in Registrants : \A z \in seen[r] : At(r, "named") /\ Live(z) =>
        reg[r].name..reg[z].name \subseteq DOMAIN queue

Below ==
    \A r \in Registrants : \A z \in seen[r] :
        (At(r, "absent") \/ reg[r].file # None) /\ Live(z) => reg[z].name < reg[r].name

\* A task that has listed the name of a request, or a later one, has those of all
\* earlier actions.
Gathered ==
    \A r \in Registrants : \A z \in seen[r] : ~At(r, "new") /\ Live(z) =>
        \A t \in Tasks : task[t].pc \in Batched /\ (\E k \in Names(t) : reg[r].name =< k) =>
            \/ z \in Actions(task[t].batch)
            \/ In(t, "reading") /\ reg[z].name \in task[t].todo

\* When an action has been handled, no earlier one is left.
Settled == \A r \in handled : \A z \in seen[r] : ~Live(z)

\* Reading the directory takes at least a microsecond for each request there is.
SlowListing == IsFiniteSet(Registrants) /\ Cardinality(Registrants) =< Pause

\* Inductive beside IInv under SlowListing; with AppliedOnce's invariant it gives
\* InOrder.
OrderInv == Dense /\ ListedOld /\ SeenDone /\ Reach /\ Below /\ Gathered /\ Settled
=============================================================================
