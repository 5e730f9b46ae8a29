--------------------------- MODULE DocStoreSeqInv ---------------------------
(***************************************************************************)
(* The inductive invariant of DocStoreSeq, in named parts: one worker that *)
(* is not killed.                                                          *)
(***************************************************************************)
EXTENDS DocStoreSeq, DocStoreInv

me == ed[Me]

\* Where a method has a version of its own, and where it has made its file.
Making == {"copy_open"} \cup Filling
Versioned == {"increment_version", "probe", "mkdir"} \cup Making
Returned == {"recopy_open", "recopy_write", "append", "read_lines", "write_open", "write_lines"}
Idling == {"idle", "list_major", "list_minor", "ready"}

\* The document has no version, or v is the last one of the last directory.
Newest(v) ==
    IF majors = {} THEN v = <<0, 0>>
    ELSE /\ v \in DOMAIN files
         /\ \A m \in majors : m =< v[1]
         /\ \A u \in DOMAIN files : u[1] = v[1] => u[2] =< v[2]

\* A version that is being made comes after all others.
Coming(v) ==
    /\ v \notin DOMAIN files
    /\ \A m \in majors : m =< v[1]
    /\ \A u \in DOMAIN files : u[1] = v[1] => u[2] < v[2]

\* The worker knows the latest version from the time it has listed the directories,
\* and what it makes becomes the latest.
LatestOK ==
    /\ me.pc \in {"idle", "list_major"} => \E v \in DOMAIN files \cup {<<0, 0>>} : Newest(v)
    /\ me.pc = "list_minor" => \E v \in DOMAIN files \cup {<<0, 0>>} : Newest(v) /\ v[1] = me.version[1]
    /\ me.pc \in {"ready", "increment_version", "probe", "mkdir"} \cup Storing =>
           Newest(me.version)
    /\ me.pc = "copy_open" => Coming(me.new_ver)
    /\ me.pc \in Filling => Newest(me.new_ver)

\* The version a method read, and the one it makes.
NumbersOK ==
    /\ me.pc \in Versioned => me.version = IF me.pc \in Returned THEN me.new_ver ELSE me.old_ver
    /\ me.pc \in {"probe", "mkdir", "copy_open", "copy_write"} => me.from = me.old_ver
    /\ me.pc \in {"probe", "mkdir"} => me.new_ver = NextVersion(Me, me.old_ver)
    /\ me.pc \in Making => me.new_ver # me.old_ver
    /\ me.pc \in Making /\ me.old_ver \notin DOMAIN files => me.old_ver = <<0, 0>>
    /\ me.pc \in Storing /\ me.op # "modify" => me.old_ver = me.version
    /\ me.ids_loaded => me.par_ids = Ids(LinesOf(me.version)) /\ me.pc \notin Returned

\* What the method has read, and how far its version file has got.
Base == LinesOf(IF me.pc \in Storing THEN me.version ELSE me.old_ver)

LinesOK ==
    /\ me.pc \in InMethod /\ me.op \in Insertions => me.lines = Base
    /\ me.pc \in {"write_open", "write_lines"} => me.lines = Base /\ me.op # "add"
    /\ me.pc = "read_lines" => me.op \in {"modify", "delete"}
    /\ me.pc \in {"copy_write", "recopy_write", "write_lines"} => files[me.new_ver] = <<>>
    /\ me.pc \in {"log_read", "log_open", "log_write", "recopy_open", "append",
                  "read_lines", "write_open"} => files[me.new_ver] = Base

\* The call that is executed is one the document accepts.
CallOK ==
    /\ me.pc \in Idling => me.op = None /\ me.par = None /\ me.hash = None
    /\ me.pc \in InMethod => Req \in List!Request
    /\ me.pc = "get_latest" => me.op = "modify"
    /\ me.pc \in InMethod =>
           (me.par \in Ids(Base) <=> me.op \in {"modify", "delete"})
    /\ me.pc \in InMethod /\ me.op \in {"modify", "delete"} => me.ref = me.par

\* The links of the document's paragraphs, and the one that is being moved.
LinksOK ==
    /\ \A i \in DOMAIN Content :
           Content[i][1] # me.par \/ me.pc = "get_latest" => current[Content[i][1]] = Content[i][2]
    /\ me.pc = "unlink" => current[me.par] # None
    /\ me.pc = "symlink" => current[me.par] = None
    /\ me.pc \in Storing \ {"get_latest"} /\ me.op = "modify" =>
           \A i \in DOMAIN Base : Base[i][1] = me.par => Base[i][2] = me.src
    /\ me.pc \in Versioned /\ me.op \in Writers => current[me.par] = me.hash

\* A changelog lists a set of versions, each once, the latest one first.
Lists(log, vers) ==
    /\ {log[i].ver : i \in DOMAIN log} = vers
    /\ Len(log) = Cardinality(vers)

LogOK ==
    /\ IsFiniteSet(DOMAIN files)
    /\ me.pc \notin {"copy_write", "log_read", "log_open", "log_write"} =>
           /\ Lists(changelog, DOMAIN files)
           /\ changelog # <<>> /\ me.pc # "copy_open" => Newest(changelog[1].ver)
    /\ me.pc \in {"copy_write", "log_read"} =>
           Lists(changelog, DOMAIN files \ {me.new_ver})
    /\ me.pc \in {"log_open", "log_write"} =>
           /\ Lists(me.log, DOMAIN files)
           /\ me.log # <<>> /\ me.log[1].ver = me.new_ver
    /\ me.pc = "log_write" => changelog = <<>>

\* Without a crash a paragraph file is empty only while it is written.
FullOK == \A l \in Line : par_files[l] = "empty" => me.pc = "store_write" /\ LineOf(Me) = l

\* Inductive beside IInv; implies LogIsHistory and CurrentIsShown, and its steps are
\* those of DocList.
SeqInv ==
    LatestOK /\ NumbersOK /\ LinesOK /\ CallOK /\ LinksOK /\ LogOK /\ FullOK /\ UniqueIds
=============================================================================
