---------------------------- MODULE DocStoreInv ----------------------------
(***************************************************************************)
(* The inductive invariant of DocStore, in named parts.                    *)
(***************************************************************************)
EXTENDS DocStore

\* The paragraphs that have a file, and the log entries whose version has one.
Stored == {l \in Line : par_files[l] # "none"}
Logged == {entry \in LogEntry : entry.ver \in DOMAIN files}

\* What lies on the disk is well formed: versions are in their directories and
\* consist of stored paragraphs, links lead to stored paragraphs.
DiskOK ==
    /\ majors \in SUBSET (Nat \ {0})
    /\ \A ver \in DOMAIN files : ver \in Version /\ ver[1] \in majors
    /\ files \in [DOMAIN files -> Seq(Stored)]
    /\ par_files \in [Line -> {"none", "empty", "full"}]
    /\ current \in [ParIds -> Hashes \cup {None}]
    /\ \A p \in ParIds : current[p] # None => <<p, current[p]>> \in Stored
    /\ changelog \in Seq(Logged)
    /\ ops \in Nat
    /\ crashes \in Nat

HeldWorker ==
    [pc : PCs, version : Version, ids_loaded : BOOLEAN, par_ids : SUBSET ParIds,
     op : Ops \cup {None}, par : ParIds \cup {None}, hash : Hashes \cup {None},
     ref : ParIds \cup {None}, src : Hashes \cup {None},
     old_ver : Version, from : Version, new_ver : Version,
     lines : Seq(Stored), log : Seq(Logged)]

Storing == {"get_latest", "store_open", "store_write", "set_latest", "unlink", "symlink"}
Numbered == {"probe", "mkdir", "copy_open"} \cup Filling
InMethod == Storing \cup {"increment_version"} \cup Numbered

\* A method has its arguments, and after the store its paragraph is stored.
TaskOK(w) ==
    /\ w.pc \in InMethod => w.op \in Ops /\ w.par \in ParIds
    /\ w.pc \in InMethod /\ w.op \in Writers => w.hash \in Hashes
    /\ w.pc \in Storing => w.op \in Writers
    /\ w.pc \in InMethod \ {"get_latest", "store_open"} /\ w.op \in Writers =>
          <<w.par, w.hash>> \in Stored
    /\ w.pc \in {"recopy_open", "recopy_write", "append"} => w.op = "add"

\* A modification stays in a major version that exists; the other methods make a
\* new one.  The file of a version that is being filled exists.
NumberOK(w) ==
    /\ w.pc \in {"idle", "list_major", "list_minor"} => ~w.ids_loaded
    /\ w.ids_loaded /\ w.par_ids # {} => w.version[1] \in majors
    /\ w.pc \in InMethod /\ w.op = "modify" => w.version[1] \in majors
    /\ w.pc \in Numbered /\ w.op = "modify" =>
          w.from[1] \in majors /\ w.new_ver[1] \in majors /\ w.new_ver[2] > 0
    /\ w.pc \in Numbered /\ w.op # "modify" => w.new_ver[1] > 0 /\ w.new_ver[2] = 0
    /\ w.pc = "mkdir" => w.op # "modify"
    /\ w.pc \in {"copy_open"} \cup Filling => w.new_ver[1] \in majors
    /\ w.pc \in Filling => w.new_ver \in DOMAIN files

WorkerOK(w) == w \in HeldWorker /\ TaskOK(w) /\ NumberOK(w)

\* The worker whose mkdir made the directory of its new version.
Owns(w) == w.pc \in {"copy_open"} \cup Filling /\ w.op # "modify"

\* Nobody else owns it, and before its owner opens the version file it has none.
Ownership ==
    /\ \A e, f \in Editors : e # f /\ Owns(ed[e]) /\ Owns(ed[f]) =>
          ed[e].new_ver # ed[f].new_ver
    /\ \A e \in Editors : ed[e].pc = "copy_open" /\ ed[e].op # "modify" =>
          ed[e].new_ver \notin DOMAIN files

WorkersOK == ed = [e \in Editors |-> ed[e]] /\ \A e \in Editors : WorkerOK(ed[e])

\* DiskOK, WorkersOK and Ownership are inductive, and imply TypeOK,
\* NamedParagraphsStored, LoggedVersionsExist and OneWriterPerMajor.
IInv == DiskOK /\ WorkersOK /\ Ownership
=============================================================================
