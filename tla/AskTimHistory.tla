---------------------------- MODULE AskTimHistory ----------------------------
(***************************************************************************)
(* One user's conversation with an AskTIM chatbot                          *)
(* (src/timApp/modules/asktim/conversation.py).  The messages are lines of *)
(* a file that only grows; Redis keeps its tail, marked with what os.stat  *)
(* said of the file.  A request reads the cache or the file, and appends   *)
(* to both, in steps that other workers' steps come between.               *)
(*                                                                         *)
(* A message is its timestamp.  The file is << >> when there is none, and  *)
(* `stamp' stands for its modification time and size.                      *)
(***************************************************************************)
EXTENDS Naturals, Sequences, SequencesExt

CONSTANTS
    Procs,      \* requests that the user's page has under way at once
    TailLen,    \* cache_tail_len
    Counts,     \* conv_messages_max of the instance
    Windows,    \* conv_time_window of the instance
    PageSizes,  \* messages that the client asks for
    None,
    MaxClock,   \* bound: the latest timestamp
    MaxKills,   \* bound: workers killed
    MaxReloads  \* bound: reloads of the page while a question or a clear is running

ASSUME HistoryAssumption ==
    /\ TailLen \in Nat \ {0}
    /\ Counts \subseteq Nat /\ Windows \subseteq Nat \ {0} /\ PageSizes \subseteq Nat
    /\ MaxClock \in Nat \ {0} /\ MaxKills \in Nat /\ MaxReloads \in Nat
    /\ None \notin Nat \cup {"ask", "clear", "left"}

VARIABLES
    file,       \* messages.jsonl
    stamp,      \* st_mtime_ns and st_size of the file
    cache,      \* the entry asktim:tail, or None
    proc,       \* the requests
    clock,
    kills, reloads,
    tainted     \* history: a save has overlapped another use of the cache, or
                \* was cut short, since the cache was last empty at rest

faults == <<kills, reloads>>
vars == <<file, stamp, cache, proc, clock, kills, reloads, tainted>>

Idle == [pc |-> "idle", op |-> None, query |-> None, seen |-> << >>,
         result |-> << >>, copy |-> None, stat |-> 0, messages |-> << >>]

Init ==
    /\ file = << >> /\ stamp = 0
    /\ cache = None
    /\ proc = [p \in Procs |-> Idle]
    /\ clock = 1 /\ kills = 0 /\ reloads = 0
    /\ tainted = FALSE

At(p, pc) == proc[p].pc = pc
LastOf(s, n) == IF n >= Len(s) THEN s ELSE SubSeq(s, Len(s) - n + 1, Len(s))

\* The slice s[-n:] of Python, in which -0 is the beginning.
SliceFromEnd(s, n) == IF n = 0 THEN s ELSE LastOf(s, n)

-----------------------------------------------------------------------------
(* Queries                                                                  *)

ByCount(n) == [kind |-> "count", begin |-> None, end |-> 0, end_given |-> FALSE, max |-> n]
Window(b, e, given, n) ==
    [kind |-> "window", begin |-> b, end |-> e, end_given |-> given, max |-> n]

TsBegin(q) == IF q.begin = None THEN 0 ELSE q.begin

Ascending(s) == \A i \in 2..Len(s) : s[i - 1] < s[i]

\* The end of the file is read up to a message before the window, if it is in order.
Recent(f, begin) ==
    LET i == SelectLastInSeq(f, LAMBDA t : t < begin)
    IN  IF i # 0 /\ Ascending(SubSeq(f, i, Len(f))) THEN SubSeq(f, i + 1, Len(f)) ELSE f

\* The messages of the window among those, in their order.
Within(s, begin, end) ==
    LET kept[n \in 0..Len(s)] ==
            IF n = 0 THEN << >>
            ELSE IF begin <= s[n] /\ s[n] <= end THEN Append(kept[n - 1], s[n])
            ELSE kept[n - 1]
    IN  kept[Len(s)]

\* What ConversationStore reads: load_messages and load_messages_time_window.
FromFile(q, f) ==
    IF q.kind = "count" THEN LastOf(f, q.max)
    ELSE IF q.end <= TsBegin(q) THEN << >>
    ELSE LastOf(Within(Recent(f, TsBegin(q)), TsBegin(q), q.end), q.max)

\* Slip: the tail need not reach back to the border of the window.
OldestIndexNoBorder(q, tail) ==
    LET i == SelectInSeq(tail, LAMBDA t : t >= TsBegin(q))
    IN  IF i # 0 /\ tail[i] <= q.end THEN i ELSE 0

\* _find_time_window_edges: the window must end inside the tail, or its border must
\* be seen there.
OldestIndex(q, tail) ==
    LET i == SelectInSeq(tail, LAMBDA t : t >= TsBegin(q))
    IN  IF /\ i # 0 /\ tail[i] <= q.end
           /\ q.begin # None => i > 1 \/ tail[i] = q.begin
        THEN i ELSE 0

NewestIndex(q, tail) ==
    LET i == SelectLastInSeq(tail, LAMBDA t : t <= q.end)
    IN  IF /\ i # 0 /\ tail[i] >= TsBegin(q)
           /\ q.end_given => i < Len(tail) \/ tail[i] = q.end
        THEN i ELSE 0

\* Whether the tail is long enough to answer from.
Covers(q, tail) ==
    IF q.kind = "count" THEN Len(tail) >= q.max
    ELSE /\ OldestIndex(q, tail) # 0 /\ NewestIndex(q, tail) # 0
         /\ q.begin = None => NewestIndex(q, tail) >= q.max

FromTail(q, tail) ==
    IF q.kind = "count" THEN SliceFromEnd(tail, q.max)
    ELSE SliceFromEnd(SubSeq(tail, OldestIndex(q, tail), NewestIndex(q, tail)), q.max)

-----------------------------------------------------------------------------
(* Reading: get_history and get_history_time_window                         *)

\* Slip: the page sends a question while another one is running.
CanSendAlways == TRUE

\* The client starts an ask or a clear only when none is running (canSendRequest);
\* it fetches older messages at any time.
CanSend == \A p \in Procs : proc[p].op \notin {"ask", "clear"}

Begin(p, op, q, messages) ==
    proc' = [proc EXCEPT ![p] =
        [Idle EXCEPT !.pc = IF q.kind = "count" /\ q.max > TailLen THEN "store" ELSE "get",
                     !.op = op, !.query = q, !.messages = messages]]

\* chat_request, chat_request_stream: a refused request does not get this far.
Ask(p) ==
    /\ At(p, "idle") /\ CanSend
    /\ clock < MaxClock
    /\ clock' = clock + 1
    /\ \E n \in Counts :
        \/ Begin(p, "ask", ByCount(n), <<clock'>>)
        \/ \E w \in Windows :
            LET begin == IF w > clock' THEN 0 ELSE clock' - w
            IN  Begin(p, "ask", Window(begin, clock', TRUE, n), <<clock'>>)
    /\ UNCHANGED <<file, stamp, cache, faults>>

\* get_messages_ui: the newest page, or the one before the oldest message shown.
Show(p) ==
    /\ At(p, "idle")
    /\ \E n \in PageSizes :
        \/ Begin(p, "show", Window(None, clock, FALSE, n), << >>)
        \/ \E oldest \in ToSet(file) :
            Begin(p, "show", Window(None, oldest - 1, TRUE, n), << >>)
    /\ UNCHANGED <<file, stamp, cache, clock, faults>>

Serve(p, seen, result) ==
    proc' = [proc EXCEPT ![p].pc = "served", ![p].seen = seen, ![p].result = result,
                         ![p].copy = None, ![p].stat = 0]

\* Answer from a tail of the file `seen', or go to the file.
ServeTail(p, seen, tail) ==
    LET q == proc[p].query
    IN  IF Covers(q, tail) THEN Serve(p, seen, FromTail(q, tail))
        ELSE proc' = [proc EXCEPT ![p].pc = "store", ![p].seen = << >>,
                                  ![p].copy = None, ![p].stat = 0]

\* _get_from_cache
GetFromCache(p) ==
    /\ At(p, "get")
    /\ proc' = [proc EXCEPT ![p].copy = cache,
                            ![p].pc = IF cache = None THEN "restat" ELSE "stat"]
    /\ UNCHANGED <<file, stamp, cache, clock, faults>>

CompareStat(p) ==
    LET copy == proc[p].copy
    IN  /\ At(p, "stat")
        /\ IF file # << >> /\ copy.stamp = stamp /\ copy.messages # << >>
           THEN ServeTail(p, file, copy.messages)
           ELSE proc' = [proc EXCEPT ![p].pc = "restat", ![p].copy = None]
        /\ UNCHANGED <<file, stamp, cache, clock, faults>>

\* _update_cache
FileStat(p) ==
    /\ At(p, "restat")
    /\ proc' = IF file = << >> THEN [proc EXCEPT ![p].pc = "store"]
               ELSE [proc EXCEPT ![p].pc = "load", ![p].stat = stamp]
    /\ UNCHANGED <<file, stamp, cache, clock, faults>>

LoadTail(p) ==
    /\ At(p, "load")
    /\ proc' = [proc EXCEPT ![p].pc = "set", ![p].seen = file]
    /\ UNCHANGED <<file, stamp, cache, clock, faults>>

UpdateCache(p) ==
    LET tail == LastOf(proc[p].seen, TailLen)
    IN  /\ At(p, "set")
        /\ cache' = [stamp |-> proc[p].stat, messages |-> tail]
        /\ ServeTail(p, proc[p].seen, tail)
        /\ UNCHANGED <<file, stamp, clock, faults>>

LoadMessages(p) ==
    /\ At(p, "store")
    /\ Serve(p, file, FromFile(proc[p].query, file))
    /\ UNCHANGED <<file, stamp, cache, clock, faults>>

End(p) == proc' = [proc EXCEPT ![p] = Idle]

\* The page gets its messages, or the model fails and nothing is saved.
Return(p) ==
    /\ At(p, "served")
    /\ End(p)
    /\ UNCHANGED <<file, stamp, cache, clock, faults>>

-----------------------------------------------------------------------------
(* Writing: append_messages and clear_history                               *)

\* The answer of the model has its own timestamp.
Answer(p) ==
    /\ At(p, "served") /\ proc[p].op \in {"ask", "left"}
    /\ clock < MaxClock
    /\ clock' = clock + 1
    /\ proc' = [proc EXCEPT ![p] = [Idle EXCEPT !.pc = "append", !.op = proc[p].op,
                                    !.messages = Append(proc[p].messages, clock')]]
    /\ UNCHANGED <<file, stamp, cache, faults>>

AppendToFile(p) ==
    /\ At(p, "append")
    /\ file' = file \o proc[p].messages
    /\ stamp' = stamp + 1
    /\ proc' = [proc EXCEPT ![p].pc = "append_stat"]
    /\ UNCHANGED <<cache, clock, faults>>

\* _append_to_cache; a file that is gone by now empties the cache.
StatAppended(p) ==
    /\ At(p, "append_stat")
    /\ IF file = << >>
       THEN End(p) /\ cache' = None
       ELSE /\ proc' = [proc EXCEPT ![p].pc = "append_get", ![p].stat = stamp]
            /\ UNCHANGED cache
    /\ UNCHANGED <<file, stamp, clock, faults>>

GetCachedTail(p) ==
    /\ At(p, "append_get")
    /\ proc' = [proc EXCEPT ![p].pc = "append_set", ![p].copy = cache]
    /\ UNCHANGED <<file, stamp, cache, clock, faults>>

\* Slip: the tail is cut at the wrong end.
AppendToCacheFirst(p) ==
    LET copy == proc[p].copy
        cached_tail == IF copy = None THEN << >> ELSE copy.messages
        all == cached_tail \o proc[p].messages
    IN  /\ At(p, "append_set")
        /\ cache' = [stamp |-> proc[p].stat,
                     messages |-> SubSeq(all, 1, IF Len(all) < TailLen THEN Len(all) ELSE TailLen)]
        /\ End(p)
        /\ UNCHANGED <<file, stamp, clock, faults>>

\* Slip: the tail is not cut.
AppendToCacheAll(p) ==
    LET copy == proc[p].copy
        cached_tail == IF copy = None THEN << >> ELSE copy.messages
    IN  /\ At(p, "append_set")
        /\ cache' = [stamp |-> proc[p].stat, messages |-> cached_tail \o proc[p].messages]
        /\ End(p)
        /\ UNCHANGED <<file, stamp, clock, faults>>

\* The cached tail is extended whether it is up to date or not.
AppendToCache(p) ==
    LET copy == proc[p].copy
        cached_tail == IF copy = None THEN << >> ELSE copy.messages
    IN  /\ At(p, "append_set")
        /\ cache' = [stamp |-> proc[p].stat,
                     messages |-> LastOf(cached_tail \o proc[p].messages, TailLen)]
        /\ End(p)
        /\ UNCHANGED <<file, stamp, clock, faults>>

Clear(p) ==
    /\ At(p, "idle") /\ CanSend
    /\ proc' = [proc EXCEPT ![p] = [Idle EXCEPT !.pc = "archive", !.op = "clear"]]
    /\ UNCHANGED <<file, stamp, cache, clock, faults>>

\* The file is renamed; nothing reads the archives.
ArchiveMessages(p) ==
    /\ At(p, "archive")
    /\ file' = << >>
    /\ proc' = [proc EXCEPT ![p].pc = "delete"]
    /\ UNCHANGED <<stamp, cache, clock, faults>>

DeleteFromCache(p) ==
    /\ At(p, "delete")
    /\ cache' = None
    /\ End(p)
    /\ UNCHANGED <<file, stamp, clock, faults>>

-----------------------------------------------------------------------------
\* The entry expires, 15 minutes after it was set, or Redis evicts it.
Expire ==
    /\ cache # None
    /\ cache' = None
    /\ UNCHANGED <<file, stamp, proc, clock, faults>>

Kill(p) ==
    /\ ~At(p, "idle") /\ kills < MaxKills
    /\ kills' = kills + 1
    /\ End(p)
    /\ UNCHANGED <<file, stamp, cache, clock, reloads>>

\* The page is loaded again; the server goes on, also with a stream that nobody reads.
Reload(p) ==
    /\ proc[p].op \in {"ask", "clear"} /\ reloads < MaxReloads
    /\ reloads' = reloads + 1
    /\ proc' = [proc EXCEPT ![p].op = "left"]
    /\ UNCHANGED <<file, stamp, cache, clock, kills>>

Saving == {"append", "append_stat", "append_get", "append_set", "archive", "delete"}
Refreshing == {"load", "set"}

Overlapping ==
    \E p, q \in Procs : p # q /\ proc[p].pc \in Saving /\ proc[q].pc \in Saving \cup Refreshing

\* Nothing is left of an overlap when the cache is empty and nobody is at work.
Fresh == cache = None /\ \A p \in Procs : At(p, "idle")

Step(p) ==
    \/ Ask(p) \/ Show(p)
    \/ GetFromCache(p) \/ CompareStat(p)
    \/ FileStat(p) \/ LoadTail(p) \/ UpdateCache(p)
    \/ LoadMessages(p) \/ Return(p) \/ Answer(p)
    \/ AppendToFile(p) \/ StatAppended(p) \/ GetCachedTail(p) \/ AppendToCache(p)
    \/ Clear(p) \/ ArchiveMessages(p) \/ DeleteFromCache(p) \/ Reload(p)

Next ==
    \/ \E p \in Procs :
        \/ Step(p) /\ tainted' = ((tainted \/ Overlapping') /\ ~Fresh')
        \/ /\ Kill(p)
           /\ tainted' = ((tainted \/ proc[p].pc \in Saving) /\ ~Fresh')
    \/ Expire /\ tainted' = (tainted /\ ~Fresh')

Spec == Init /\ [][Next]_vars

-----------------------------------------------------------------------------
(* Properties                                                               *)

Messages == Seq(1..MaxClock)
Queries == [kind : {"count", "window"}, begin : 0..MaxClock \cup {None},
            end : 0..MaxClock, end_given : BOOLEAN, max : Counts \cup PageSizes]
Entries == [stamp : 0..MaxClock, messages : Messages]

\* The variables keep their types, and the cache never holds more than the tail that
\* _append_to_cache and _update_cache cut off.
TypeOK ==
    /\ file \in Messages /\ stamp \in 0..MaxClock
    /\ cache \in Entries \cup {None}
    /\ cache # None => Len(cache.messages) <= TailLen
    /\ \A p \in Procs :
        /\ proc[p].op \in {"ask", "show", "clear", "left", None}
        /\ proc[p].query \in Queries \cup {None}
        /\ proc[p].copy \in Entries \cup {None}
        /\ proc[p].stat \in 0..MaxClock
        /\ {proc[p].seen, proc[p].result, proc[p].messages} \subseteq Messages
    /\ clock \in 1..MaxClock /\ kills \in 0..MaxKills /\ reloads \in 0..MaxReloads
    /\ tainted \in BOOLEAN

\* The file is in the order of time, which _find_time_window_edges assumes: the
\* client has one question under way, until the page is loaded again.
Chronological == reloads = 0 => Ascending(file)

Trusted == cache # None /\ file # << >> /\ cache.stamp = stamp

\* "Get the message list tail from the cache if it exists and is up to date": an
\* entry that _get_from_cache accepts is the end of the file.
CacheUpToDate == Trusted => IsSuffix(cache.messages, file)

\* It is, whatever expires and whatever reads go on beside a question that waits for
\* its answer, unless a save overlapped a refresh or was cut short.
CacheUpToDateUntainted == tainted \/ CacheUpToDate

\* Every query asks for something: the slice s[-n:] of a cached tail is all of it with 0.
NonZeroCounts == 0 \notin Counts \cup PageSizes

\* Then the cache changes no answer: the model and the page get the messages that
\* the file has, for every number of messages and every window of time.
CacheTransparent ==
    \A p \in Procs : At(p, "served") /\ ~tainted /\ Ascending(proc[p].seen) =>
        proc[p].result = FromFile(proc[p].query, proc[p].seen)

=============================================================================
