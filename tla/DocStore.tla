------------------------------ MODULE DocStore ------------------------------
(***************************************************************************)
(* The versioned store of one TIM document: timApp/document/document.py    *)
(* and docparagraph.py.                                                    *)
(*                                                                         *)
(* On disk a document is                                                   *)
(*   docs/<id>/<major>/<minor>      a version: one line "parid/hash" per   *)
(*                                  paragraph                              *)
(*   docs/<id>/changelog            newest entry first                     *)
(*   pars/<id>/<parid>/<hash>       the text of one paragraph version      *)
(*   pars/<id>/<parid>/current      symlink to the newest hash             *)
(*                                                                         *)
(* Every request runs in a gunicorn worker of its own (an element of       *)
(* Editors) with a Document object of its own, which caches the version it *)
(* read first.  Nothing locks the document: the steps below are the single *)
(* file-system operations of the methods, and those of different workers   *)
(* interleave freely.  A worker can die between any two of them.           *)
(***************************************************************************)
EXTENDS Integers, Sequences

CONSTANTS
    Editors,     \* worker processes
    ParIds,      \* paragraph ids
    Hashes,      \* contents of a paragraph, named by their hash
    InitDoc,     \* the lines of the document at the start
    MaxOps,      \* bound: Document methods started
    MaxCrashes,  \* bound: workers killed in the middle of a request
    None

Line == ParIds \X Hashes
Version == Nat \X Nat
Insertions == {"insert_before", "insert_after"}
Writers == {"add", "modify"} \cup Insertions   \* methods that store a paragraph
Ops == {"delete"} \cup Writers

ASSUME NoneAssumption ==
    None \notin ParIds \cup Hashes \cup Ops
ASSUME InitDocAssumption == InitDoc \in Seq(Line)
ASSUME BoundAssumption == MaxOps \in Nat /\ MaxCrashes \in Nat

VARIABLES
    majors,      \* the version directories docs/<id>/<major>
    files,       \* version |-> lines, for the version files that exist
    par_files,   \* line |-> "none", "empty" (opened for writing) or "full"
    current,     \* par id |-> target of its current symlink, or None
    changelog,   \* the entries of the changelog, newest first
    ed,          \* worker |-> its Document object and the locals of its method
    ops,         \* methods started so far
    crashes      \* workers killed so far

disk == <<majors, files, par_files, current, changelog>>
vars == <<majors, files, par_files, current, changelog, ed, ops, crashes>>

(***************************************************************************)
(* Lines of a version file.                                                *)
(***************************************************************************)
Ids(lines) == {lines[i][1] : i \in DOMAIN lines}

\* Position of the first line of par_id, 0 if there is none.
find_par_id(lines, par_id) ==
    LET hits  == {i \in DOMAIN lines : lines[i][1] = par_id}
        first == {i \in hits : \A j \in hits : i <= j}
    IN  IF first = {} THEN 0 ELSE CHOOSE i \in first : TRUE

InsertLine(lines, at, line) ==
    [k \in 1..Len(lines) + 1 |->
        IF k < at THEN lines[k] ELSE IF k = at THEN line ELSE lines[k - 1]]

RemoveLine(lines, at) ==
    [k \in 1..Len(lines) - 1 |-> IF k < at THEN lines[k] ELSE lines[k + 1]]

\* Slip: insert_after puts the line where insert_before does.
EditedBeforeOnly(op, lines, ref, line) ==
    LET at == find_par_id(lines, ref) IN
    IF at = 0 THEN lines
    ELSE CASE op \in Insertions -> InsertLine(lines, at, line)
           [] op = "modify"      -> [lines EXCEPT ![at] = line]
           [] OTHER              -> RemoveLine(lines, at)

\* The lines a method writes into its new version, from those it has read.  A
\* method that does not find its paragraph writes the lines unchanged.
Edited(op, lines, ref, line) ==
    LET at == find_par_id(lines, ref) IN
    IF at = 0 THEN lines
    ELSE CASE op = "insert_before" -> InsertLine(lines, at, line)
           [] op = "insert_after"  -> InsertLine(lines, at + 1, line)
           [] op = "modify"        -> [lines EXCEPT ![at] = line]
           [] OTHER                -> RemoveLine(lines, at)

\* A file opened with "w" is emptied at once and written from its start when it
\* is closed, over whatever another process has written there meanwhile.
Overwrite(there, new) ==
    [k \in 1..(IF Len(there) > Len(new) THEN Len(there) ELSE Len(new)) |->
        IF k <= Len(new) THEN new[k] ELSE there[k]]

LinesOf(ver) == IF ver \in DOMAIN files THEN files[ver] ELSE <<>>

SetFile(ver, lines) ==
    files' = [v \in DOMAIN files \cup {ver} |-> IF v = ver THEN lines ELSE files[v]]

\* Slip: the default for an empty directory is forgotten.
LargestFileNumberBare(names) ==
    LET largest == {n \in names : \A m \in names : m <= n}
    IN  IF largest = {} THEN -1 ELSE CHOOSE n \in largest : TRUE

\* Largest of a set of file names, 0 when there are none.
LargestFileNumber(names) ==
    LET largest == {n \in names : \A m \in names : m <= n}
    IN  IF largest = {} THEN 0 ELSE CHOOSE n \in largest : TRUE

MinorsOf(major) == {v[2] : v \in {w \in DOMAIN files : w[1] = major}}

\* The version a request that starts now would read.
LatestVersion ==
    LET major == LargestFileNumber(majors)
    IN  <<major, LargestFileNumber(MinorsOf(major))>>

(***************************************************************************)
(* The state of a worker.  version and par_ids (once loaded) are           *)
(* attributes of its Document object and live as long as the request; the  *)
(* other fields are locals of the method it executes.                      *)
(***************************************************************************)
Idle ==
    [pc |-> "idle", version |-> <<0, 0>>, ids_loaded |-> FALSE, par_ids |-> {},
     op |-> None, par |-> None, hash |-> None, ref |-> None, src |-> None,
     old_ver |-> <<0, 0>>, from |-> <<0, 0>>, new_ver |-> <<0, 0>>,
     lines |-> <<>>, log |-> <<>>]

\* The object after a method: the locals are gone, the caches stay.
Ready(e) ==
    [Idle EXCEPT !.pc = "ready", !.version = ed[e].version,
                 !.ids_loaded = ed[e].ids_loaded, !.par_ids = ed[e].par_ids]

LineOf(e) == <<ed[e].par, ed[e].hash>>

Goto(e, pc) == ed' = [ed EXCEPT ![e].pc = pc]
Abort(e)    == ed' = [ed EXCEPT ![e] = Idle] \* an exception ends the request

Init ==
    /\ majors = 1..Len(InitDoc)
    /\ files = [v \in {<<m, 0>> : m \in 1..Len(InitDoc)} |-> SubSeq(InitDoc, 1, v[1])]
    /\ par_files = [l \in Line |->
            IF \E i \in DOMAIN InitDoc : InitDoc[i] = l THEN "full" ELSE "none"]
    /\ current = [p \in ParIds |->
            LET at == find_par_id(InitDoc, p)
            IN  IF at = 0 THEN None ELSE InitDoc[at][2]]
    /\ changelog = [i \in 1..Len(InitDoc) |->
            LET m == Len(InitDoc) + 1 - i
            IN  [ver |-> <<m, 0>>, op |-> "add", par |-> InitDoc[m][1]]]
    /\ ed = [e \in Editors |-> Idle]
    /\ ops = 0
    /\ crashes = 0

(***************************************************************************)
(* The request and its Document object.                                    *)
(***************************************************************************)
\* EditRequest.from_request reads doc.get_version() before anything else.
BeginRequest(e) ==
    /\ ed[e].pc = "idle"
    /\ ops < MaxOps
    /\ Goto(e, "list_major")
    /\ UNCHANGED <<disk, ops, crashes>>

ListMajor(e) ==
    /\ ed[e].pc = "list_major"
    /\ LET major == LargestFileNumber(majors) IN
       ed' = [ed EXCEPT ![e].version = <<major, 0>>,
                        ![e].pc = IF major < 1 THEN "ready" ELSE "list_minor"]
    /\ UNCHANGED <<disk, ops, crashes>>

ListMinor(e) ==
    /\ ed[e].pc = "list_minor"
    /\ LET major == ed[e].version[1] IN
       ed' = [ed EXCEPT ![e].version = <<major, LargestFileNumber(MinorsOf(major))>>,
                        ![e].pc = "ready"]
    /\ UNCHANGED <<disk, ops, crashes>>

EndRequest(e) ==
    /\ ed[e].pc = "ready"
    /\ Abort(e)
    /\ UNCHANGED <<disk, ops, crashes>>

(***************************************************************************)
(* The first steps of the four methods, up to their first write.           *)
(***************************************************************************)
Start(e) ==
    /\ ed[e].pc = "ready"
    /\ ops < MaxOps
    /\ ops' = ops + 1
    /\ UNCHANGED <<disk, crashes>>

\* The cached paragraph ids, or those of the version file when none are cached.
LoadedIds(e) ==
    IF ed[e].ids_loaded THEN ed[e].par_ids ELSE Ids(LinesOf(ed[e].version))

\* Slip: ensure_free_par_id is not called.
StartAddAnyId(e) ==
    /\ Start(e)
    /\ \E p \in ParIds, h \in Hashes :
          ed' = [ed EXCEPT ![e].pc = "store_open", ![e].op = "add",
                           ![e].par = p, ![e].hash = h,
                           ![e].old_ver = ed[e].version]

\* add_paragraph_obj; the id is free in the lines just read (ensure_free_par_id).
StartAdd(e) ==
    /\ Start(e)
    /\ LET lines == LinesOf(ed[e].version) IN
       \E p \in ParIds \ Ids(lines), h \in Hashes :
          ed' = [ed EXCEPT ![e].pc = "store_open", ![e].op = "add",
                           ![e].par = p, ![e].hash = h,
                           ![e].old_ver = ed[e].version]

\* insert_paragraph_obj; nothing makes sure that the anchor ref is in the document:
\* modify_paragraph_common and name_area pass the id that the browser sent.
StartInsert(e) ==
    /\ Start(e)
    /\ LET lines == LinesOf(ed[e].version) IN
       \E op \in Insertions, ref \in ParIds, p \in ParIds \ Ids(lines), h \in Hashes :
          ed' = [ed EXCEPT ![e].pc = "store_open", ![e].op = op, ![e].ref = ref,
                           ![e].par = p, ![e].hash = h,
                           ![e].old_ver = ed[e].version, ![e].lines = lines]

\* delete_paragraph
StartDelete(e) ==
    /\ Start(e)
    /\ \E p \in ParIds :
          IF p \in LoadedIds(e)
          THEN ed' = [ed EXCEPT ![e].pc = "increment_version", ![e].op = "delete",
                                ![e].par = p, ![e].ref = p,
                                ![e].old_ver = ed[e].version]
          ELSE Abort(e)

\* modify_paragraph_obj
StartModify(e) ==
    /\ Start(e)
    /\ \E p \in ParIds, h \in Hashes :
          IF p \in LoadedIds(e)
          THEN ed' = [ed EXCEPT ![e].pc = "get_latest", ![e].op = "modify",
                                ![e].par = p, ![e].ref = p, ![e].hash = h,
                                ![e].ids_loaded = TRUE, ![e].par_ids = LoadedIds(e)]
          ELSE Abort(e)

\* Slip: modify_paragraph_obj links the new paragraph without storing it.
GetLatestNoStore(e) ==
    /\ ed[e].pc = "get_latest"
    /\ LET src == current[ed[e].par] IN
       IF src = None THEN Abort(e)
       ELSE ed' = [ed EXCEPT ![e].src = src, ![e].pc = "set_latest"]
    /\ UNCHANGED <<disk, ops, crashes>>

\* DocParagraph.get_latest: follow the current symlink and read the file.  A file
\* that another worker is writing is read again, at most twice: the read succeeds when
\* that write is over, or fails.
GetLatest(e) ==
    /\ ed[e].pc = "get_latest"
    /\ LET src == current[ed[e].par] IN
       \/ /\ src # None
          /\ par_files[<<ed[e].par, src>>] = "full"
          /\ ed' = [ed EXCEPT ![e].src = src, ![e].pc = "store_open"]
       \/ /\ \/ src = None
             \/ src # None /\ par_files[<<ed[e].par, src>>] # "full"
          /\ Abort(e)
    /\ UNCHANGED <<disk, ops, crashes>>

(***************************************************************************)
(* DocParagraph.store and set_latest.                                      *)
(***************************************************************************)
\* Slip: the file is created and the method goes on without writing it.
StoreOpenOnly(e) ==
    /\ ed[e].pc = "store_open"
    /\ par_files' = [par_files EXCEPT ![LineOf(e)] = "empty"]
    /\ Goto(e, "set_latest")
    /\ UNCHANGED <<majors, files, current, changelog, ops, crashes>>

StoreOpen(e) ==
    /\ ed[e].pc = "store_open"
    /\ par_files' = [par_files EXCEPT ![LineOf(e)] = "empty"]
    /\ Goto(e, "store_write")
    /\ UNCHANGED <<majors, files, current, changelog, ops, crashes>>

StoreWrite(e) ==
    /\ ed[e].pc = "store_write"
    /\ par_files' = [par_files EXCEPT ![LineOf(e)] = "full"]
    /\ Goto(e, "set_latest")
    /\ UNCHANGED <<majors, files, current, changelog, ops, crashes>>

\* Slip: a symlink that exists is left as it is.
SetLatestOnce(e) ==
    /\ ed[e].pc = "set_latest"
    /\ ed' = IF current[ed[e].par] = None THEN [ed EXCEPT ![e].pc = "symlink"]
             ELSE [ed EXCEPT ![e].pc = "increment_version", ![e].old_ver = ed[e].version]
    /\ UNCHANGED <<disk, ops, crashes>>

SetLatest(e) ==
    /\ ed[e].pc = "set_latest"
    /\ Goto(e, IF current[ed[e].par] = None THEN "symlink" ELSE "unlink")
    /\ UNCHANGED <<disk, ops, crashes>>

Unlink(e) ==
    /\ ed[e].pc = "unlink"
    /\ IF current[ed[e].par] = None
       THEN Abort(e) /\ UNCHANGED current
       ELSE Goto(e, "symlink") /\ current' = [current EXCEPT ![ed[e].par] = None]
    /\ UNCHANGED <<majors, files, par_files, changelog, ops, crashes>>

\* Slip: a modification always returns after the symlink, not only when it is the same.
SymlinkReturn(e) ==
    /\ ed[e].pc = "symlink"
    /\ IF current[ed[e].par] # None
       THEN Abort(e) /\ UNCHANGED current
       ELSE /\ current' = [current EXCEPT ![ed[e].par] = ed[e].hash]
            /\ ed' = [ed EXCEPT ![e] =
                  IF ed[e].op = "modify" THEN Ready(e)
                  ELSE [ed[e] EXCEPT !.pc = "increment_version",
                                     !.old_ver = ed[e].version]]
    /\ UNCHANGED <<majors, files, par_files, changelog, ops, crashes>>

\* After the symlink, a modification that finds the new paragraph equal to the
\* latest one it read returns without making a version.
Symlink(e) ==
    /\ ed[e].pc = "symlink"
    /\ IF current[ed[e].par] # None
       THEN Abort(e) /\ UNCHANGED current
       ELSE /\ current' = [current EXCEPT ![ed[e].par] = ed[e].hash]
            /\ ed' = [ed EXCEPT ![e] =
                  IF ed[e].op = "modify" /\ ed[e].src = ed[e].hash
                  THEN Ready(e)
                  ELSE [ed[e] EXCEPT !.pc = "increment_version",
                                     !.old_ver = ed[e].version]]
    /\ UNCHANGED <<majors, files, par_files, changelog, ops, crashes>>

(***************************************************************************)
(* Document.__increment_version                                            *)
(***************************************************************************)
\* Slip: each attempt counts from the cached version, not from the last attempt.
NextVersionCached(e, ver) ==
    LET v == ed[e].version IN
    IF ed[e].op = "modify" THEN <<v[1], v[2] + 1>> ELSE <<v[1] + 1, 0>>

NextVersion(e, ver) ==
    IF ed[e].op = "modify" THEN <<ver[1], ver[2] + 1>> ELSE <<ver[1] + 1, 0>>

IncrementVersion(e) ==
    /\ ed[e].pc = "increment_version"
    /\ ed' = [ed EXCEPT ![e].from = ed[e].version,
                        ![e].new_ver = NextVersion(e, ed[e].version),
                        ![e].pc = "probe"]
    /\ UNCHANGED <<disk, ops, crashes>>

\* while ver_exists: one is_file() call.
Probe(e) ==
    /\ ed[e].pc = "probe"
    /\ LET ver == ed[e].new_ver IN
       ed' = [ed EXCEPT ![e] =
          IF ver \in DOMAIN files
          THEN [ed[e] EXCEPT !.from = ver, !.new_ver = NextVersion(e, ver)]
          ELSE [ed[e] EXCEPT !.pc = IF ed[e].op = "modify" THEN "copy_open" ELSE "mkdir"]]
    /\ UNCHANGED <<disk, ops, crashes>>

\* Slip: mkdir with exist_ok.
MkdirExistOk(e) ==
    /\ ed[e].pc = "mkdir"
    /\ majors' = majors \cup {ed[e].new_ver[1]}
    /\ Goto(e, "copy_open")
    /\ UNCHANGED <<files, par_files, current, changelog, ops, crashes>>

\* Slip: the changelog is written before the version file.
MkdirThenLog(e) ==
    /\ ed[e].pc = "mkdir"
    /\ LET major == ed[e].new_ver[1] IN
       IF major \in majors
       THEN Abort(e) /\ UNCHANGED majors
       ELSE Goto(e, "log_read") /\ majors' = majors \cup {major}
    /\ UNCHANGED <<files, par_files, current, changelog, ops, crashes>>

\* mkdir fails when the directory exists.
Mkdir(e) ==
    /\ ed[e].pc = "mkdir"
    /\ LET major == ed[e].new_ver[1] IN
       IF major \in majors
       THEN Abort(e) /\ UNCHANGED majors
       ELSE Goto(e, "copy_open") /\ majors' = majors \cup {major}
    /\ UNCHANGED <<files, par_files, current, changelog, ops, crashes>>

\* copyfile(old, new) fails when the old version has no file; it empties the
\* new file and then writes it.  The first version of a document is just created.
CopyOpen(e) ==
    /\ ed[e].pc = "copy_open"
    /\ LET from == ed[e].from IN
       \/ /\ from[1] > 0 /\ from \notin DOMAIN files
          /\ Abort(e)
          /\ UNCHANGED files
       \/ /\ from[1] > 0 /\ from \in DOMAIN files
          /\ SetFile(ed[e].new_ver, <<>>)
          /\ Goto(e, "copy_write")
       \/ /\ from[1] = 0
          /\ SetFile(ed[e].new_ver, <<>>)
          /\ Goto(e, "log_read")
    /\ UNCHANGED <<majors, par_files, current, changelog, ops, crashes>>

WriteFile(e, lines) ==
    SetFile(ed[e].new_ver, Overwrite(LinesOf(ed[e].new_ver), lines))

CopyWrite(e) ==
    /\ ed[e].pc = "copy_write"
    /\ WriteFile(e, LinesOf(ed[e].from))
    /\ Goto(e, "log_read")
    /\ UNCHANGED <<majors, par_files, current, changelog, ops, crashes>>

\* Slip: the new entry is appended to the log.
LogReadAppend(e) ==
    /\ ed[e].pc = "log_read"
    /\ LET entry == [ver |-> ed[e].new_ver, op |-> ed[e].op, par |-> ed[e].par] IN
       ed' = [ed EXCEPT ![e].log = Append(changelog, entry), ![e].pc = "log_open"]
    /\ UNCHANGED <<disk, ops, crashes>>

\* __write_changelog: the old log is copied behind the new entry into a temporary
\* file, which is then copied over the log.
LogRead(e) ==
    /\ ed[e].pc = "log_read"
    /\ LET entry == [ver |-> ed[e].new_ver, op |-> ed[e].op, par |-> ed[e].par] IN
       ed' = [ed EXCEPT ![e].log = <<entry>> \o changelog, ![e].pc = "log_open"]
    /\ UNCHANGED <<disk, ops, crashes>>

LogOpen(e) ==
    /\ ed[e].pc = "log_open"
    /\ changelog' = <<>>
    /\ Goto(e, "log_write")
    /\ UNCHANGED <<majors, files, par_files, current, ops, crashes>>

\* The last write of __increment_version; it then sets self.version and drops the
\* caches, and the method goes on with its own writes.
LogWrite(e) ==
    /\ ed[e].pc = "log_write"
    /\ changelog' = Overwrite(changelog, ed[e].log)
    /\ ed' = [ed EXCEPT ![e].version = ed[e].new_ver, ![e].log = <<>>,
                        ![e].ids_loaded = FALSE, ![e].par_ids = {},
                        ![e].pc = IF ed[e].op = "add" THEN "recopy_open"
                                  ELSE IF ed[e].op \in Insertions THEN "write_open"
                                  ELSE "read_lines"]
    /\ UNCHANGED <<majors, files, par_files, current, ops, crashes>>

(***************************************************************************)
(* The last steps of the four methods: fill the new version file.          *)
(***************************************************************************)
\* add_paragraph_obj copies its own old version once more, if it has a file.
RecopyOpen(e) ==
    /\ ed[e].pc = "recopy_open"
    /\ IF ed[e].old_ver \in DOMAIN files
       THEN SetFile(ed[e].new_ver, <<>>) /\ Goto(e, "recopy_write")
       ELSE UNCHANGED files /\ Goto(e, "append")
    /\ UNCHANGED <<majors, par_files, current, changelog, ops, crashes>>

RecopyWrite(e) ==
    /\ ed[e].pc = "recopy_write"
    /\ WriteFile(e, LinesOf(ed[e].old_ver))
    /\ Goto(e, "append")
    /\ UNCHANGED <<majors, par_files, current, changelog, ops, crashes>>

AppendLine(e) ==
    /\ ed[e].pc = "append"
    /\ SetFile(ed[e].new_ver, Append(LinesOf(ed[e].new_ver), LineOf(e)))
    /\ ed' = [ed EXCEPT ![e] = Ready(e)]
    /\ UNCHANGED <<majors, par_files, current, changelog, ops, crashes>>

\* delete_paragraph and modify_paragraph_obj read the lines of the version the
\* method began with, whatever version __increment_version ended at.
ReadLines(e) ==
    /\ ed[e].pc = "read_lines"
    /\ ed' = [ed EXCEPT ![e].lines = LinesOf(ed[e].old_ver), ![e].pc = "write_open"]
    /\ UNCHANGED <<disk, ops, crashes>>

\* Slip: the lines go into the version the method has read.
WriteOpenOld(e) ==
    /\ ed[e].pc = "write_open"
    /\ SetFile(ed[e].old_ver, <<>>)
    /\ Goto(e, "write_lines")
    /\ UNCHANGED <<majors, par_files, current, changelog, ops, crashes>>

WriteOpen(e) ==
    /\ ed[e].pc = "write_open"
    /\ SetFile(ed[e].new_ver, <<>>)
    /\ Goto(e, "write_lines")
    /\ UNCHANGED <<majors, par_files, current, changelog, ops, crashes>>

WriteLines(e) ==
    /\ ed[e].pc = "write_lines"
    /\ WriteFile(e, Edited(ed[e].op, ed[e].lines, ed[e].ref, LineOf(e)))
    /\ ed' = [ed EXCEPT ![e] = Ready(e)]
    /\ UNCHANGED <<majors, par_files, current, changelog, ops, crashes>>

(***************************************************************************)
(* The system.                                                             *)
(***************************************************************************)
\* The worker dies; a new one takes its place.
Crash(e) ==
    /\ ed[e].pc # "idle"
    /\ crashes < MaxCrashes
    /\ crashes' = crashes + 1
    /\ Abort(e)
    /\ UNCHANGED <<disk, ops>>

\* Steps that end a request or carry it on; the code never waits in between.
Step(e) ==
    \/ ListMajor(e) \/ ListMinor(e) \/ EndRequest(e)
    \/ GetLatest(e) \/ StoreOpen(e) \/ StoreWrite(e)
    \/ SetLatest(e) \/ Unlink(e) \/ Symlink(e)
    \/ IncrementVersion(e) \/ Probe(e) \/ Mkdir(e) \/ CopyOpen(e) \/ CopyWrite(e)
    \/ LogRead(e) \/ LogOpen(e) \/ LogWrite(e)
    \/ RecopyOpen(e) \/ RecopyWrite(e) \/ AppendLine(e)
    \/ ReadLines(e) \/ WriteOpen(e) \/ WriteLines(e)

StartMethod(e) == StartAdd(e) \/ StartInsert(e) \/ StartDelete(e) \/ StartModify(e)

\* No request is running and none will come.
Rest ==
    /\ ops = MaxOps
    /\ \A e \in Editors : ed[e].pc = "idle"
    /\ UNCHANGED vars

Next ==
    \/ \E e \in Editors : BeginRequest(e) \/ StartMethod(e) \/ Step(e) \/ Crash(e)
    \/ Rest

Spec == Init /\ [][Next]_vars

FairSpec == Spec /\ \A e \in Editors : WF_vars(Step(e))

(***************************************************************************)
(* Properties that hold for any number of workers and any crashes.         *)
(***************************************************************************)
\* Steps at which the file of new_ver exists and the method still works on it.
Filling == {"copy_write", "log_read", "log_open", "log_write", "recopy_open",
            "recopy_write", "append", "read_lines", "write_open", "write_lines"}

PCs == Filling \cup {"idle", "list_major", "list_minor", "ready", "get_latest",
        "store_open", "store_write", "set_latest", "unlink", "symlink",
        "increment_version", "probe", "mkdir", "copy_open"}

Fills(e, ver) == ed[e].pc \in Filling /\ ed[e].new_ver = ver

LogEntry == [ver : Version, op : Ops, par : ParIds]

Worker ==
    [pc : PCs, version : Version, ids_loaded : BOOLEAN, par_ids : SUBSET ParIds,
     op : Ops \cup {None}, par : ParIds \cup {None}, hash : Hashes \cup {None},
     ref : ParIds \cup {None}, src : Hashes \cup {None},
     old_ver : Version, from : Version, new_ver : Version,
     lines : Seq(Line), log : Seq(LogEntry)]

\* The values of all variables are of the expected types.
TypeOK ==
    /\ majors \in SUBSET Nat
    /\ DOMAIN files \in SUBSET Version
    /\ files \in [DOMAIN files -> Seq(Line)]
    /\ par_files \in [Line -> {"none", "empty", "full"}]
    /\ current \in [ParIds -> Hashes \cup {None}]
    /\ changelog \in Seq(LogEntry)
    /\ ed \in [Editors -> Worker]
    /\ ops \in Nat
    /\ crashes \in Nat

\* Whatever is interleaved or killed, a paragraph that a version file or a current
\* symlink names has been stored: the methods store before they name.
NamedParagraphsStored ==
    /\ \A ver \in DOMAIN files : \A i \in DOMAIN files[ver] :
          par_files[files[ver][i]] # "none"
    /\ \A p \in ParIds : current[p] # None => par_files[<<p, current[p]>>] # "none"

\* Two workers never fill the same major version, although each looks for the next
\* free number by itself: the mkdir of the directory decides.  (Minor versions have
\* no directory of their own, and two modifications do share one.)
OneWriterPerMajor ==
    \A e, f \in Editors :
        e # f /\ ed[e].pc \in Filling /\ ed[e].new_ver[2] = 0 => ~Fills(f, ed[e].new_ver)

\* The changelog never lists a version that has no file, also when entries of
\* concurrent edits are lost or a worker dies between the two writes.
LoggedVersionsExist ==
    \A i \in DOMAIN changelog : changelog[i].ver \in DOMAIN files

\* A paragraph file is empty only while a worker is writing it, unless a worker was
\* killed: this is what DocParagraph.get relies on when it reads such a file again.
EmptyParagraphHasWriter ==
    crashes = 0 =>
        \A l \in Line : par_files[l] = "empty" =>
            \E e \in Editors : ed[e].pc = "store_write" /\ LineOf(e) = l

\* A major version that its worker has finished or abandoned never changes again:
\* the history that the version views and comparisons show is not rewritten.
ClosedMajorImmutable ==
    [][\A ver \in DOMAIN files :
          ver[2] = 0 /\ (\A e \in Editors : ~Fills(e, ver)) =>
              ver \in DOMAIN files' /\ files'[ver] = files[ver]]_vars

\* Every request ends, whatever the other workers do: the loop that looks for a
\* free version catches up with them.
RequestEnds == \A e \in Editors : ed[e].pc # "idle" ~> ed[e].pc = "idle"

(***************************************************************************)
(* Statements of the source's own comments that hold for a single worker   *)
(* (UniqueIds) or without failures (ModifyTakesEffect).                    *)
(***************************************************************************)
\* ensure_free_par_id "Ensures that the paragraph id of the given paragraph is not
\* already used in the document version" (document.py:866): no version has two
\* paragraphs of the same id.
UniqueIds ==
    \A ver \in DOMAIN files : \A i, j \in DOMAIN files[ver] :
        files[ver][i][1] = files[ver][j][1] => i = j

\* modify_paragraph "Modifies the text of the given paragraph" (document.py:903):
\* when it returns, the paragraph has the given text in the version it returns with.
ModifyTakesEffect ==
    [][\A e \in Editors :
          ed[e].op = "modify" /\ ed'[e].pc = "ready" =>
              LET lines == (LinesOf(ed[e].version))' IN
              \E i \in DOMAIN lines : lines[i] = LineOf(e)]_vars
=============================================================================
