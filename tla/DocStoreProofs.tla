--------------------------- MODULE DocStoreProofs ---------------------------
(***************************************************************************)
(* Proofs about DocStore, for any number of workers, any paragraphs and    *)
(* any number of crashes.                                                  *)
(***************************************************************************)
EXTENDS DocStoreInv, SequenceTheorems, TLAPS

(***************************************************************************)
(* The line operators keep to the lines they are given.                    *)
(***************************************************************************)
\* A sequence is a function from an initial segment of the naturals.
LEMMA SeqIntro ==
    ASSUME NEW S, NEW n \in Nat, NEW f \in [1..n -> S]
    PROVE  f \in Seq(S)
  BY SeqDef

\* Nothing but the line that is sought is found.
LEMMA FindInDomain ==
    ASSUME NEW S, NEW lines \in Seq(S), NEW par_id
    PROVE  find_par_id(lines, par_id) \in {0} \cup 1..Len(lines)
  <1> DEFINE hits  == {i \in DOMAIN lines : lines[i][1] = par_id}
             first == {i \in hits : \A j \in hits : i <= j}
  <1>1. first \subseteq 1..Len(lines)
    BY LenProperties
  <1>2. CASE first = {}
    BY <1>2 DEF find_par_id
  <1>3. CASE first # {}
    <2>1. (CHOOSE i \in first : TRUE) \in first
      BY <1>3
    <2> QED BY <2>1, <1>1, <1>3 DEF find_par_id
  <1> QED BY <1>2, <1>3

\* What is found has the id that is sought.
LEMMA FindFinds ==
    ASSUME NEW S, NEW lines \in Seq(S), NEW par_id, find_par_id(lines, par_id) # 0
    PROVE  lines[find_par_id(lines, par_id)][1] = par_id
  <1> DEFINE hits  == {i \in DOMAIN lines : lines[i][1] = par_id}
             first == {i \in hits : \A j \in hits : i <= j}
  <1>1. CASE first = {}
    BY <1>1 DEF find_par_id
  <1>2. CASE first # {}
    <2>1. (CHOOSE i \in first : TRUE) \in first
      BY <1>2
    <2> QED BY <2>1, <1>2 DEF find_par_id
  <1> QED BY <1>1, <1>2

LEMMA InsertLineType ==
    ASSUME NEW S, NEW lines \in Seq(S), NEW at \in 1..Len(lines) + 1, NEW line \in S
    PROVE  InsertLine(lines, at, line) \in Seq(S)
  <1>1. Len(lines) \in Nat /\ \A i \in 1..Len(lines) : lines[i] \in S
    BY LenProperties, ElementOfSeq
  <1>2. InsertLine(lines, at, line) \in [1..Len(lines) + 1 -> S]
    BY <1>1 DEF InsertLine
  <1> QED BY <1>1, <1>2, SeqIntro

LEMMA RemoveLineType ==
    ASSUME NEW S, NEW lines \in Seq(S), NEW at \in 1..Len(lines)
    PROVE  RemoveLine(lines, at) \in Seq(S)
  <1>1. Len(lines) \in Nat /\ \A i \in 1..Len(lines) : lines[i] \in S
    BY LenProperties, ElementOfSeq
  <1>2. RemoveLine(lines, at) \in [1..Len(lines) - 1 -> S]
    BY <1>1 DEF RemoveLine
  <1>3. Len(lines) - 1 \in Nat
    BY <1>1
  <1> QED BY <1>2, <1>3, SeqIntro

\* A method writes lines it has read and, unless it deletes, its own line.
LEMMA EditedType ==
    ASSUME NEW S, NEW op \in Ops, NEW lines \in Seq(S), NEW ref, NEW line,
           op # "delete" => line \in S
    PROVE  Edited(op, lines, ref, line) \in Seq(S)
  <1> DEFINE at == find_par_id(lines, ref)
  <1>1. at \in {0} \cup 1..Len(lines)
    BY FindInDomain
  <1>2. CASE at = 0
    BY <1>2 DEF Edited
  <1>3. CASE at # 0
    <2>0. at \in 1..Len(lines) /\ Len(lines) \in Nat
      BY <1>1, <1>3, LenProperties
    <2>1. CASE op = "insert_before"
      <3>1. InsertLine(lines, at, line) \in Seq(S)
        BY <2>0, <2>1, InsertLineType
      <3> QED BY <3>1, <2>1, <1>3 DEF Edited
    <2>2. CASE op = "insert_after"
      <3>1. InsertLine(lines, at + 1, line) \in Seq(S)
        BY <2>0, <2>2, InsertLineType
      <3> QED BY <3>1, <2>2, <1>3 DEF Edited
    <2>3. CASE op = "modify"
      <3>1. [lines EXCEPT ![at] = line] \in Seq(S)
        BY <2>0, <2>3, ExceptSeq
      <3> QED BY <3>1, <2>3, <1>3 DEF Edited
    <2>4. CASE op \in {"add", "delete"}
      <3>1. RemoveLine(lines, at) \in Seq(S)
        BY <2>0, RemoveLineType
      <3> QED BY <3>1, <2>4, <1>3 DEF Edited
    <2> QED BY <2>1, <2>2, <2>3, <2>4 DEF Ops, Writers, Insertions
  <1> QED BY <1>2, <1>3

\* Two writes into one file leave lines of the two.
LEMMA OverwriteType ==
    ASSUME NEW S, NEW there \in Seq(S), NEW new \in Seq(S)
    PROVE  Overwrite(there, new) \in Seq(S)
  <1> DEFINE n == IF Len(there) > Len(new) THEN Len(there) ELSE Len(new)
  <1>1. /\ Len(there) \in Nat /\ \A i \in 1..Len(there) : there[i] \in S
        /\ Len(new) \in Nat /\ \A i \in 1..Len(new) : new[i] \in S
    BY LenProperties, ElementOfSeq
  <1>2. n \in Nat
    BY <1>1
  <1>3. Overwrite(there, new) \in [1..n -> S]
    BY <1>1 DEF Overwrite
  <1> QED BY <1>2, <1>3, SeqIntro

LEMMA LargestFileNumberType ==
    ASSUME NEW names \in SUBSET Nat
    PROVE  LargestFileNumber(names) \in Nat /\ (LargestFileNumber(names) = 0 \/ LargestFileNumber(names) \in names)
  <1> DEFINE largest == {n \in names : \A m \in names : m <= n}
  <1>1. CASE largest = {}
    BY <1>1 DEF LargestFileNumber
  <1>2. CASE largest # {}
    <2>1. (CHOOSE n \in largest : TRUE) \in largest
      BY <1>2
    <2> QED BY <2>1, <1>2 DEF LargestFileNumber
  <1> QED BY <1>1, <1>2

(***************************************************************************)
(* How a step of one worker leaves the others and the disk.                *)
(***************************************************************************)
\* What a worker holds stays right while the disk grows.
LEMMA WorkerKept ==
    ASSUME NEW f \in Editors, WorkerOK(ed[f]), ed'[f] = ed[f],
           Stored \subseteq Stored', Logged \subseteq Logged',
           DOMAIN files \subseteq DOMAIN files', majors \subseteq majors'
    PROVE  WorkerOK(ed[f])'
  <1>1. Seq(Stored) \subseteq Seq(Stored') /\ Seq(Logged) \subseteq Seq(Logged')
    BY SeqMonotonic
  <1>2. HeldWorker \subseteq HeldWorker'
    BY <1>1 DEF HeldWorker
  <1>3. TaskOK(ed[f])'
    BY DEF WorkerOK, TaskOK
  <1>4. NumberOK(ed[f])'
    BY DEF WorkerOK, NumberOK
  <1> QED BY <1>2, <1>3, <1>4 DEF WorkerOK

LEMMA OthersKept ==
    ASSUME WorkersOK, NEW e \in Editors, ed' = [ed EXCEPT ![e] = ed'[e]],
           Stored \subseteq Stored', Logged \subseteq Logged',
           DOMAIN files \subseteq DOMAIN files', majors \subseteq majors',
           WorkerOK(ed[e])'
    PROVE  WorkersOK'
  <1>1. DOMAIN ed = Editors /\ DOMAIN ed' = Editors
    BY DEF WorkersOK
  <1>2. ASSUME NEW f \in Editors PROVE WorkerOK(ed[f])'
    <2>1. CASE f = e
      BY <2>1
    <2>2. CASE f # e
      <3>1. ed'[f] = ed[f] /\ WorkerOK(ed[f])
        BY <1>1, <2>2 DEF WorkersOK
      <3> QED BY <3>1, WorkerKept
    <2> QED BY <2>1, <2>2
  <1> QED BY <1>1, <1>2 DEF WorkersOK

\* A step that neither writes nor acquires a new version.
LEMMA OwnershipKept ==
    ASSUME WorkersOK, Ownership, NEW e \in Editors, ed' = [ed EXCEPT ![e] = ed'[e]],
           DOMAIN files' = DOMAIN files,
           Owns(ed'[e]) => /\ Owns(ed[e]) /\ ed'[e].new_ver = ed[e].new_ver
                           /\ ed'[e].pc # "copy_open"
    PROVE  Ownership'
  BY DEF WorkersOK, Ownership, Owns

\* A step that writes the new version of its worker.
LEMMA OwnershipFilled ==
    ASSUME WorkersOK, Ownership, NEW e \in Editors, ed' = [ed EXCEPT ![e] = ed'[e]],
           ed[e].pc \in {"copy_open"} \cup Filling,
           DOMAIN files' = DOMAIN files \cup {ed[e].new_ver},
           Owns(ed'[e]) => /\ Owns(ed[e]) /\ ed'[e].new_ver = ed[e].new_ver
                           /\ ed'[e].pc # "copy_open"
    PROVE  Ownership'
  <1>1. ASSUME NEW f \in Editors, f # e, ed[f].pc = "copy_open", ed[f].op # "modify"
        PROVE  ed[f].new_ver # ed[e].new_ver
    <2>1. CASE ed[e].op = "modify"
      <3>1. ed[e].new_ver[2] > 0 /\ ed[f].new_ver[2] = 0
        BY <1>1, <2>1 DEF WorkersOK, WorkerOK, NumberOK, Numbered
      <3> QED BY <3>1
    <2>2. CASE ed[e].op # "modify"
      BY <1>1, <2>2 DEF Ownership, Owns
    <2> QED BY <2>1, <2>2
  <1> QED BY <1>1 DEF WorkersOK, Ownership, Owns

\* A step that leaves the disk alone.
LEMMA DiskKept ==
    ASSUME DiskOK, UNCHANGED disk, ops' \in Nat, crashes' \in Nat
    PROVE  /\ DiskOK'
           /\ Stored \subseteq Stored' /\ Logged \subseteq Logged'
           /\ DOMAIN files \subseteq DOMAIN files' /\ majors \subseteq majors'
           /\ DOMAIN files' = DOMAIN files
  BY DEF DiskOK, disk, Stored, Logged

\* v may follow w: what v holds is right, and it owns no version that w did not own.
Follows(v, w) ==
    /\ v \in HeldWorker /\ TaskOK(v) /\ NumberOK(v)
    /\ Owns(v) => Owns(w) /\ v.new_ver = w.new_ver /\ v.pc # "copy_open"

LEMMA IdleFollows == ASSUME NEW w PROVE Follows(Idle, w)
  <1>1. <<>> \in Seq(Stored) /\ <<>> \in Seq(Logged)
    BY EmptySeq
  <1> QED
    BY <1>1 DEF Follows, Idle, HeldWorker, TaskOK, NumberOK, Owns, PCs, Filling, InMethod,
                Storing, Numbered, Version

\* After its method a worker keeps the caches of its Document object only.
LEMMA ReadyFollows ==
    ASSUME NEW e \in Editors, ed[e] \in HeldWorker, NumberOK(ed[e]), NEW w
    PROVE  Follows(Ready(e), w)
  <1> DEFINE v == Ready(e)
  <1>1. Idle \in HeldWorker
    BY IdleFollows DEF Follows
  <1>2. /\ v \in HeldWorker /\ v.pc = "ready" /\ v.version = ed[e].version
        /\ v.ids_loaded = ed[e].ids_loaded /\ v.par_ids = ed[e].par_ids
    BY <1>1 DEF Ready, HeldWorker, PCs
  <1> HIDE DEF v
  <1>3. TaskOK(v) /\ NumberOK(v) /\ ~Owns(v)
    BY <1>2 DEF TaskOK, NumberOK, Owns, InMethod, Storing, Numbered, Filling
  <1>4. Follows(v, w)
    BY <1>2, <1>3 DEF Follows
  <1> QED BY <1>4 DEF v

LEMMA WorkerFacts ==
    ASSUME IInv, NEW e \in Editors
    PROVE  /\ ed[e] \in HeldWorker /\ TaskOK(ed[e]) /\ NumberOK(ed[e])
           /\ DOMAIN ed = Editors
           /\ ops \in Nat /\ crashes \in Nat
  BY DEF IInv, WorkersOK, WorkerOK, DiskOK

\* A step that leaves the disk alone.
LEMMA QuietStep ==
    ASSUME IInv, NEW e \in Editors, UNCHANGED disk, ops' \in Nat, crashes' \in Nat,
           ed' = [ed EXCEPT ![e] = ed'[e]],
           Follows(ed'[e], ed[e])
    PROVE  IInv'
  <1>1. DiskOK /\ WorkersOK /\ Ownership
    BY DEF IInv
  <1>2. DiskOK' /\ DOMAIN files' = DOMAIN files
    BY <1>1, DiskKept
  <1>3. UNCHANGED <<HeldWorker, Stored, majors>>
    BY <1>2 DEF disk, HeldWorker, Stored, Logged
  <1>4. WorkerOK(ed[e])'
    BY <1>2, <1>3 DEF Follows, WorkerOK, TaskOK, NumberOK
  <1>5. WorkersOK'
    BY <1>1, <1>4, DiskKept, OthersKept
  <1>6. Ownership'
    BY <1>1, <1>2, OwnershipKept DEF Follows
  <1> QED BY <1>2, <1>5, <1>6 DEF IInv

LEMMA AbortStep ==
    ASSUME IInv, NEW e \in Editors, UNCHANGED disk, ops' \in Nat, crashes' \in Nat, Abort(e)
    PROVE  IInv'
  <1>1. ed'[e] = Idle /\ ed' = [ed EXCEPT ![e] = ed'[e]]
    BY WorkerFacts DEF Abort
  <1> QED BY <1>1, IdleFollows, QuietStep

\* The number that __increment_version tries after ver.
LEMMA NextVersionType ==
    ASSUME NEW e \in Editors, NEW ver \in Version
    PROVE  /\ NextVersion(e, ver) \in Version
           /\ ed[e].op = "modify" =>
                 NextVersion(e, ver)[1] = ver[1] /\ NextVersion(e, ver)[2] > 0
           /\ ed[e].op # "modify" =>
                 NextVersion(e, ver)[1] > 0 /\ NextVersion(e, ver)[2] = 0
  BY DEF NextVersion, Version

LEMMA BeginRequestStep ==
    ASSUME IInv, NEW e \in Editors, BeginRequest(e)
    PROVE  IInv'
  <1>1. /\ UNCHANGED disk /\ ops' \in Nat /\ crashes' \in Nat
        /\ ed' = [ed EXCEPT ![e] = ed'[e]]
    BY WorkerFacts DEF BeginRequest, Goto, Abort, disk
  <1>2. /\ ed[e].pc = "idle"
        /\ ed'[e] = [ed[e] EXCEPT !.pc = "list_major"]
    BY WorkerFacts DEF BeginRequest, Goto, Abort, HeldWorker
  <1>3. Follows(ed'[e], ed[e])
    BY WorkerFacts, <1>2 DEF Follows, HeldWorker, TaskOK, NumberOK, Owns, PCs, Filling,
       InMethod, Storing, Numbered
  <1> QED BY <1>1, <1>3, QuietStep

LEMMA SetLatestStep ==
    ASSUME IInv, NEW e \in Editors, SetLatest(e)
    PROVE  IInv'
  <1>1. /\ UNCHANGED disk /\ ops' \in Nat /\ crashes' \in Nat
        /\ ed' = [ed EXCEPT ![e] = ed'[e]]
    BY WorkerFacts DEF SetLatest, Goto, Start, disk
  <1>2. /\ ed[e].pc = "set_latest" /\ ed'[e].pc \in {"symlink", "unlink"}
        /\ ed'[e] = [ed[e] EXCEPT !.pc = ed'[e].pc]
    BY WorkerFacts DEF SetLatest, Goto, HeldWorker
  <1>3. Follows(ed'[e], ed[e])
    BY WorkerFacts, <1>2 DEF Follows, HeldWorker, TaskOK, NumberOK, Owns, PCs, Filling,
       InMethod, Storing, Numbered
  <1> QED BY <1>1, <1>3, QuietStep

LEMMA LinesOfType ==
    ASSUME DiskOK, NEW ver
    PROVE  /\ LinesOf(ver) \in Seq(Stored)
           /\ Ids(LinesOf(ver)) \in SUBSET ParIds
           /\ Ids(LinesOf(ver)) # {} => ver[1] \in majors
  <1>1. LinesOf(ver) \in Seq(Stored)
    BY EmptySeq DEF DiskOK, LinesOf
  <1>2. ASSUME NEW i \in DOMAIN LinesOf(ver) PROVE LinesOf(ver)[i] \in Line
    <2>1. LinesOf(ver)[i] \in Stored
      BY <1>1, LenProperties, ElementOfSeq
    <2> QED BY <2>1 DEF Stored
  <1>3. Ids(LinesOf(ver)) \in SUBSET ParIds
    BY <1>2 DEF Ids, Line
  <1>4. CASE ver \in DOMAIN files
    BY <1>1, <1>3, <1>4 DEF DiskOK
  <1>5. CASE ver \notin DOMAIN files
    <2>1. Ids(LinesOf(ver)) = {}
      BY <1>5 DEF LinesOf, Ids
    <2> QED BY <1>1, <2>1
  <1> QED BY <1>1, <1>3, <1>4, <1>5

LEMMA EndRequestStep ==
    ASSUME IInv, NEW e \in Editors, EndRequest(e) PROVE IInv'
  BY WorkerFacts, AbortStep DEF EndRequest

LEMMA CrashStep ==
    ASSUME IInv, NEW e \in Editors, Crash(e) PROVE IInv'
  BY WorkerFacts, AbortStep DEF Crash, disk

\* The numbers listed are those of directories and files.
LEMMA ListMajorStep ==
    ASSUME IInv, NEW e \in Editors, ListMajor(e)
    PROVE  IInv'
  <1> DEFINE major == LargestFileNumber(majors)
  <1>1. /\ UNCHANGED disk /\ ops' \in Nat /\ crashes' \in Nat
        /\ ed' = [ed EXCEPT ![e] = ed'[e]]
    BY WorkerFacts DEF ListMajor, disk
  <1>2. /\ ed[e].pc = "list_major" /\ ed'[e].pc \in {"ready", "list_minor"}
        /\ ed'[e] = [ed[e] EXCEPT !.version = <<major, 0>>, !.pc = ed'[e].pc]
    BY WorkerFacts DEF ListMajor, HeldWorker
  <1>3. <<major, 0>> \in Version
    BY LargestFileNumberType DEF IInv, DiskOK, Version
  <1> HIDE DEF major
  <1>4. Follows(ed'[e], ed[e])
    BY WorkerFacts, <1>2, <1>3 DEF Follows, HeldWorker, TaskOK, NumberOK, Owns, PCs, Filling,
       InMethod, Storing, Numbered
  <1> QED BY <1>1, <1>4, QuietStep

LEMMA ListMinorStep ==
    ASSUME IInv, NEW e \in Editors, ListMinor(e)
    PROVE  IInv'
  <1> DEFINE ver == <<ed[e].version[1], LargestFileNumber(MinorsOf(ed[e].version[1]))>>
  <1>1. /\ UNCHANGED disk /\ ops' \in Nat /\ crashes' \in Nat
        /\ ed' = [ed EXCEPT ![e] = ed'[e]]
    BY WorkerFacts DEF ListMinor, disk
  <1>2. /\ ed[e].pc = "list_minor"
        /\ ed'[e] = [ed[e] EXCEPT !.version = ver, !.pc = "ready"]
    BY WorkerFacts DEF ListMinor, HeldWorker
  <1>3. ver \in Version
    <2>1. MinorsOf(ed[e].version[1]) \in SUBSET Nat
      BY DEF IInv, DiskOK, MinorsOf, Version
    <2>2. ed[e].version[1] \in Nat
      BY WorkerFacts DEF HeldWorker, Version
    <2> QED BY <2>1, <2>2, LargestFileNumberType DEF Version
  <1> HIDE DEF ver
  <1>4. Follows(ed'[e], ed[e])
    BY WorkerFacts, <1>2, <1>3 DEF Follows, HeldWorker, TaskOK, NumberOK, Owns, PCs, Filling,
       InMethod, Storing, Numbered
  <1> QED BY <1>1, <1>4, QuietStep

\* The first steps of the methods: the arguments are paragraphs and texts, and a
\* method that needs its paragraph has found it in a version that exists.
LEMMA StartAddStep ==
    ASSUME IInv, NEW e \in Editors, StartAdd(e)
    PROVE  IInv'
  <1> DEFINE w == ed[e]  v == ed'[e]
  <1>1. UNCHANGED disk /\ ops' \in Nat /\ crashes' \in Nat /\ w.pc = "ready"
    BY WorkerFacts DEF StartAdd, Start, disk
  <1>2. PICK p \in ParIds, h \in Hashes :
          ed' = [ed EXCEPT ![e].pc = "store_open", ![e].op = "add", ![e].par = p,
                           ![e].hash = h, ![e].old_ver = ed[e].version]
    BY DEF StartAdd
  <1>3. /\ ed' = [ed EXCEPT ![e] = v]
        /\ v = [w EXCEPT !.pc = "store_open", !.op = "add", !.par = p, !.hash = h,
                         !.old_ver = w.version]
    BY WorkerFacts, <1>2
  <1>4. w \in HeldWorker /\ NumberOK(w)
    BY WorkerFacts
  <1> HIDE DEF w, v
  <1>5. v \in HeldWorker
    BY <1>1, <1>2, <1>3, <1>4 DEF HeldWorker, PCs, Filling, Ops, Writers
  <1>6. TaskOK(v)
    BY <1>1, <1>2, <1>3, <1>4 DEF HeldWorker, TaskOK, InMethod, Numbered, Storing, Filling, Ops, Writers
  <1>7. NumberOK(v)
    BY <1>1, <1>2, <1>3, <1>4 DEF HeldWorker, NumberOK, InMethod, Numbered, Storing, Filling, Ops, Writers
  <1>8. ~Owns(v)
    BY <1>1, <1>2, <1>3, <1>4 DEF HeldWorker, Owns, Filling
  <1>9. Follows(v, w)
    BY <1>5, <1>6, <1>7, <1>8 DEF Follows
  <1> QED BY <1>1, <1>3, <1>9, QuietStep DEF w, v

LEMMA StartInsertStep ==
    ASSUME IInv, NEW e \in Editors, StartInsert(e)
    PROVE  IInv'
  <1> DEFINE w == ed[e]  v == ed'[e]  lines == LinesOf(w.version)
  <1>1. UNCHANGED disk /\ ops' \in Nat /\ crashes' \in Nat /\ w.pc = "ready"
    BY WorkerFacts DEF StartInsert, Start, disk
  <1>2. lines \in Seq(Stored)
    BY LinesOfType DEF IInv
  <1>3. PICK op \in Insertions, ref \in ParIds, p \in ParIds \ Ids(lines), h \in Hashes :
          ed' = [ed EXCEPT ![e].pc = "store_open", ![e].op = op, ![e].ref = ref, ![e].par = p,
                           ![e].hash = h, ![e].old_ver = w.version, ![e].lines = lines]
    BY Zenon DEF StartInsert
  <1> HIDE DEF lines
  <1>4. /\ ed' = [ed EXCEPT ![e] = v]
        /\ v = [w EXCEPT !.pc = "store_open", !.op = op, !.ref = ref, !.par = p,
                         !.hash = h, !.old_ver = w.version, !.lines = lines]
    BY WorkerFacts, <1>3
  <1>5. w \in HeldWorker /\ NumberOK(w) /\ op \in Ops /\ w.version \in Version
    BY WorkerFacts DEF HeldWorker, Ops, Writers
  <1> HIDE DEF w, v
  <1>6. v \in HeldWorker
    BY <1>1, <1>2, <1>3, <1>4, <1>5 DEF HeldWorker, PCs, Filling, Ops, Writers, Insertions
  <1>7. TaskOK(v)
    BY <1>1, <1>2, <1>3, <1>4, <1>5 DEF HeldWorker, TaskOK, InMethod, Numbered, Storing, Filling, Ops, Writers, Insertions
  <1>8. NumberOK(v)
    BY <1>1, <1>2, <1>3, <1>4, <1>5 DEF HeldWorker, NumberOK, InMethod, Numbered, Storing, Filling, Ops, Writers, Insertions
  <1>9. ~Owns(v)
    BY <1>1, <1>2, <1>3, <1>4, <1>5 DEF HeldWorker, Owns, Filling
  <1>10. Follows(v, w)
    BY <1>6, <1>7, <1>8, <1>9 DEF Follows
  <1> QED BY <1>1, <1>4, <1>10, QuietStep DEF w, v

LEMMA LoadedIdsType ==
    ASSUME IInv, NEW e \in Editors
    PROVE  /\ LoadedIds(e) \in SUBSET ParIds
           /\ LoadedIds(e) # {} => ed[e].version[1] \in majors
  BY WorkerFacts, LinesOfType DEF IInv, LoadedIds, HeldWorker, NumberOK

LEMMA StartDeleteStep ==
    ASSUME IInv, NEW e \in Editors, StartDelete(e)
    PROVE  IInv'
  <1> DEFINE w == ed[e]  v == ed'[e]
  <1>1. UNCHANGED disk /\ ops' \in Nat /\ crashes' \in Nat /\ w.pc = "ready"
    BY WorkerFacts DEF StartDelete, Start, disk
  <1>2. CASE Abort(e)
    BY <1>1, <1>2, AbortStep
  <1>3. CASE ~Abort(e)
    <2>1. PICK p \in ParIds :
            ed' = [ed EXCEPT ![e].pc = "increment_version", ![e].op = "delete",
                             ![e].par = p, ![e].ref = p, ![e].old_ver = w.version]
      BY <1>3 DEF StartDelete
    <2>2. /\ ed' = [ed EXCEPT ![e] = v]
          /\ v = [w EXCEPT !.pc = "increment_version", !.op = "delete",
                           !.par = p, !.ref = p, !.old_ver = w.version]
      BY WorkerFacts, <2>1
    <2>3. w \in HeldWorker /\ NumberOK(w)
      BY WorkerFacts
    <2> HIDE DEF w, v
    <2>4. v \in HeldWorker
      BY <1>1, <2>1, <2>2, <2>3 DEF HeldWorker, PCs, Filling, Ops, Writers, Insertions
    <2>5. TaskOK(v)
      BY <1>1, <2>1, <2>2, <2>3 DEF HeldWorker, TaskOK, InMethod, Numbered, Storing, Filling, Ops, Writers, Insertions
    <2>6. NumberOK(v)
      BY <1>1, <2>1, <2>2, <2>3 DEF HeldWorker, NumberOK, InMethod, Numbered, Storing, Filling, Ops, Writers, Insertions
    <2>7. ~Owns(v)
      BY <1>1, <2>1, <2>2, <2>3 DEF HeldWorker, Owns, Filling
    <2>8. Follows(v, w)
      BY <2>4, <2>5, <2>6, <2>7 DEF Follows
    <2> QED BY <1>1, <2>2, <2>8, QuietStep DEF w, v
  <1> QED BY <1>2, <1>3

LEMMA StartModifyStep ==
    ASSUME IInv, NEW e \in Editors, StartModify(e)
    PROVE  IInv'
  <1> DEFINE w == ed[e]  v == ed'[e]
  <1>1. UNCHANGED disk /\ ops' \in Nat /\ crashes' \in Nat /\ w.pc = "ready"
    BY WorkerFacts DEF StartModify, Start, disk
  <1>2. CASE Abort(e)
    BY <1>1, <1>2, AbortStep
  <1>3. CASE ~Abort(e)
    <2> DEFINE loaded == LoadedIds(e)
    <2>1. PICK p \in ParIds, h \in Hashes :
            /\ p \in loaded
            /\ ed' = [ed EXCEPT ![e].pc = "get_latest", ![e].op = "modify", ![e].par = p,
                                ![e].ref = p, ![e].hash = h,
                                ![e].ids_loaded = TRUE, ![e].par_ids = loaded]
      BY <1>3 DEF StartModify
    <2>2. loaded \in SUBSET ParIds /\ w.version[1] \in majors
      BY <2>1, LoadedIdsType
    <2> HIDE DEF loaded
    <2>3. /\ ed' = [ed EXCEPT ![e] = v]
          /\ v = [w EXCEPT !.pc = "get_latest", !.op = "modify", !.par = p, !.ref = p,
                           !.hash = h, !.ids_loaded = TRUE, !.par_ids = loaded]
      BY WorkerFacts, <2>1
    <2>4. w \in HeldWorker /\ NumberOK(w)
      BY WorkerFacts
    <2> HIDE DEF w, v
    <2>5. v \in HeldWorker
      BY <1>1, <2>1, <2>2, <2>3, <2>4 DEF HeldWorker, PCs, Filling, Ops, Writers, Insertions
    <2>6. TaskOK(v)
      BY <1>1, <2>1, <2>2, <2>3, <2>4 DEF HeldWorker, TaskOK, InMethod, Numbered, Storing, Filling, Ops, Writers, Insertions
    <2>7. NumberOK(v)
      BY <1>1, <2>1, <2>2, <2>3, <2>4 DEF HeldWorker, NumberOK, InMethod, Numbered, Storing, Filling, Ops, Writers, Insertions
    <2>8. ~Owns(v)
      BY <1>1, <2>1, <2>2, <2>3, <2>4 DEF HeldWorker, Owns, Filling
    <2>9. Follows(v, w)
      BY <2>5, <2>6, <2>7, <2>8 DEF Follows
    <2> QED BY <1>1, <2>3, <2>9, QuietStep DEF w, v
  <1> QED BY <1>2, <1>3

LEMMA GetLatestStep ==
    ASSUME IInv, NEW e \in Editors, GetLatest(e)
    PROVE  IInv'
  <1> DEFINE w == ed[e]  v == ed'[e]
  <1>1. UNCHANGED disk /\ ops' \in Nat /\ crashes' \in Nat /\ w.pc = "get_latest"
    BY WorkerFacts DEF GetLatest, disk
  <1>2. CASE Abort(e)
    BY <1>1, <1>2, AbortStep
  <1>3. CASE ~Abort(e)
    <2> DEFINE src == current[w.par]
    <2>1. ed' = [ed EXCEPT ![e].src = src, ![e].pc = "store_open"]
      BY <1>3 DEF GetLatest
    <2>2. w \in HeldWorker /\ TaskOK(w) /\ NumberOK(w)
      BY WorkerFacts
    <2>3. src \in Hashes \cup {None}
      BY <1>1, <2>2 DEF IInv, DiskOK, TaskOK, InMethod, Storing
    <2> HIDE DEF src
    <2>4. ed' = [ed EXCEPT ![e] = v] /\ v = [w EXCEPT !.src = src, !.pc = "store_open"]
      BY WorkerFacts, <2>1
    <2> HIDE DEF w, v
    <2>5. v \in HeldWorker
      BY <1>1, <2>2, <2>3, <2>4 DEF HeldWorker, PCs, Filling
    <2>6. TaskOK(v)
      BY <1>1, <2>2, <2>3, <2>4 DEF HeldWorker, TaskOK, InMethod, Numbered, Storing, Filling
    <2>7. NumberOK(v)
      BY <1>1, <2>2, <2>3, <2>4 DEF HeldWorker, NumberOK, InMethod, Numbered, Storing, Filling
    <2>8. ~Owns(v)
      BY <1>1, <2>2, <2>3, <2>4 DEF HeldWorker, Owns, Filling
    <2>9. Follows(v, w)
      BY <2>5, <2>6, <2>7, <2>8 DEF Follows
    <2> QED BY <1>1, <2>4, <2>9, QuietStep DEF w, v
  <1> QED BY <1>2, <1>3

LEMMA IncrementVersionStep ==
    ASSUME IInv, NEW e \in Editors, IncrementVersion(e)
    PROVE  IInv'
  <1> DEFINE w == ed[e]  v == ed'[e]  next == NextVersion(e, w.version)
  <1>1. /\ UNCHANGED disk /\ ops' \in Nat /\ crashes' \in Nat
        /\ ed' = [ed EXCEPT ![e] = v]
    BY WorkerFacts DEF IncrementVersion, disk
  <1>2. w.pc = "increment_version" /\ v = [w EXCEPT !.from = w.version, !.new_ver = next, !.pc = "probe"]
    BY WorkerFacts DEF IncrementVersion
  <1>3. w \in HeldWorker /\ TaskOK(w) /\ NumberOK(w) /\ w.version \in Version
    BY WorkerFacts DEF HeldWorker
  <1>4. /\ next \in Version
        /\ w.op = "modify" => next[1] = w.version[1] /\ next[2] > 0
        /\ w.op # "modify" => next[1] > 0 /\ next[2] = 0
    BY <1>3, NextVersionType
  <1> HIDE DEF w, v, next
  <1>5. v \in HeldWorker
    BY <1>2, <1>3, <1>4 DEF HeldWorker, PCs
  <1>6. TaskOK(v)
    BY <1>2, <1>3 DEF HeldWorker, TaskOK, InMethod, Numbered, Storing, Filling
  <1>7. NumberOK(v)
    BY <1>2, <1>3, <1>4 DEF HeldWorker, NumberOK, InMethod, Numbered, Storing, Filling
  <1>8. ~Owns(v)
    BY <1>2, <1>3 DEF HeldWorker, Owns, Filling
  <1>9. Follows(v, w)
    BY <1>5, <1>6, <1>7, <1>8 DEF Follows
  <1> QED BY <1>1, <1>9, QuietStep DEF w, v

LEMMA ProbeStep ==
    ASSUME IInv, NEW e \in Editors, Probe(e)
    PROVE  IInv'
  <1> DEFINE w == ed[e]  v == ed'[e]  next == NextVersion(e, w.new_ver)
  <1>1. /\ UNCHANGED disk /\ ops' \in Nat /\ crashes' \in Nat /\ w.pc = "probe"
        /\ ed' = [ed EXCEPT ![e] = v]
    BY WorkerFacts DEF Probe, disk
  <1>2. w \in HeldWorker /\ TaskOK(w) /\ NumberOK(w) /\ w.new_ver \in Version
    BY WorkerFacts DEF HeldWorker
  <1>3. CASE w.new_ver \in DOMAIN files
    <2>1. v = [w EXCEPT !.from = w.new_ver, !.new_ver = next]
      BY <1>3, WorkerFacts DEF Probe
    <2>2. /\ next \in Version
          /\ w.op = "modify" => next[1] = w.new_ver[1] /\ next[2] > 0
          /\ w.op # "modify" => next[1] > 0 /\ next[2] = 0
      BY <1>2, NextVersionType
    <2>3. w.new_ver[1] \in majors
      BY <1>3 DEF IInv, DiskOK
    <2> HIDE DEF next
    <2> HIDE DEF w, v
    <2>4. v \in HeldWorker
      BY <1>1, <1>2, <2>1, <2>2, <2>3 DEF HeldWorker, PCs, Filling
    <2>5. TaskOK(v)
      BY <1>1, <1>2, <2>1, <2>2, <2>3 DEF HeldWorker, TaskOK, InMethod, Numbered, Storing, Filling
    <2>6. NumberOK(v)
      BY <1>1, <1>2, <2>1, <2>2, <2>3 DEF HeldWorker, NumberOK, InMethod, Numbered, Storing, Filling
    <2>7. ~Owns(v)
      BY <1>1, <1>2, <2>1, <2>2, <2>3 DEF HeldWorker, Owns, Filling
    <2>8. Follows(v, w)
      BY <2>4, <2>5, <2>6, <2>7 DEF Follows
    <2> QED BY <1>1, <2>8, QuietStep DEF w, v
  <1>4. CASE w.new_ver \notin DOMAIN files /\ w.op = "modify"
    <2>1. v = [w EXCEPT !.pc = "copy_open"]
      BY <1>4, WorkerFacts DEF Probe
    <2> HIDE DEF w, v
    <2>2. v \in HeldWorker
      BY <1>2, <2>1 DEF HeldWorker, PCs
    <2>3. TaskOK(v) /\ NumberOK(v) /\ ~Owns(v)
      BY <1>1, <1>2, <1>4, <2>1 DEF HeldWorker, TaskOK, NumberOK, Owns, InMethod, Numbered, Storing, Filling
    <2>4. Follows(v, w)
      BY <2>2, <2>3 DEF Follows
    <2> QED BY <1>1, <2>4, QuietStep DEF w, v
  <1>5. CASE w.new_ver \notin DOMAIN files /\ w.op # "modify"
    <2>1. v = [w EXCEPT !.pc = "mkdir"]
      BY <1>5, WorkerFacts DEF Probe
    <2> HIDE DEF w, v
    <2>2. v \in HeldWorker
      BY <1>2, <2>1 DEF HeldWorker, PCs
    <2>3. TaskOK(v) /\ NumberOK(v) /\ ~Owns(v)
      BY <1>1, <1>2, <1>5, <2>1 DEF HeldWorker, TaskOK, NumberOK, Owns, InMethod, Numbered, Storing, Filling
    <2>4. Follows(v, w)
      BY <2>2, <2>3 DEF Follows
    <2> QED BY <1>1, <2>4, QuietStep DEF w, v
  <1> QED BY <1>3, <1>4, <1>5

\* The log a worker is about to write names versions that have a file.
LEMMA LogReadStep ==
    ASSUME IInv, NEW e \in Editors, LogRead(e)
    PROVE  IInv'
  <1> DEFINE w == ed[e]  v == ed'[e]
             entry == [ver |-> w.new_ver, op |-> w.op, par |-> w.par]
             log == <<entry>> \o changelog
  <1>1. UNCHANGED disk /\ ops' \in Nat /\ crashes' \in Nat /\ w.pc = "log_read"
    BY WorkerFacts DEF LogRead, disk
  <1>2. /\ ed' = [ed EXCEPT ![e] = v]
        /\ v = [w EXCEPT !.log = log, !.pc = "log_open"]
    BY WorkerFacts DEF LogRead
  <1>3. w \in HeldWorker /\ TaskOK(w) /\ NumberOK(w)
    BY WorkerFacts
  <1>4. entry \in Logged
    BY <1>1, <1>3 DEF Logged, LogEntry, HeldWorker, TaskOK, NumberOK, InMethod, Numbered, Filling
  <1>5. log \in Seq(Logged)
    <2>1. changelog \in Seq(Logged) /\ <<entry>> \in Seq(Logged)
      BY <1>4 DEF IInv, DiskOK
    <2> QED BY <2>1, ConcatProperties
  <1> HIDE DEF log, w, v
  <1>6. v \in HeldWorker
    BY <1>2, <1>3, <1>5 DEF HeldWorker, PCs, Filling
  <1>7. TaskOK(v) /\ NumberOK(v)
    BY <1>1, <1>2, <1>3 DEF HeldWorker, TaskOK, NumberOK, InMethod, Numbered, Storing, Filling
  <1>8. Owns(v) => Owns(w) /\ v.new_ver = w.new_ver /\ v.pc # "copy_open"
    BY <1>1, <1>2, <1>3 DEF HeldWorker, Owns, Filling
  <1>9. Follows(v, w)
    BY <1>6, <1>7, <1>8 DEF Follows
  <1> QED BY <1>1, <1>2, <1>9, QuietStep DEF w, v

LEMMA ReadLinesStep ==
    ASSUME IInv, NEW e \in Editors, ReadLines(e)
    PROVE  IInv'
  <1> DEFINE w == ed[e]  v == ed'[e]  lines == LinesOf(w.old_ver)
  <1>1. UNCHANGED disk /\ ops' \in Nat /\ crashes' \in Nat /\ w.pc = "read_lines"
    BY WorkerFacts DEF ReadLines, disk
  <1>2. /\ ed' = [ed EXCEPT ![e] = v]
        /\ v = [w EXCEPT !.lines = lines, !.pc = "write_open"]
    BY WorkerFacts DEF ReadLines
  <1>3. w \in HeldWorker /\ TaskOK(w) /\ NumberOK(w)
    BY WorkerFacts
  <1>4. lines \in Seq(Stored)
    BY LinesOfType DEF IInv
  <1> HIDE DEF lines, w, v
  <1>5. v \in HeldWorker
    BY <1>2, <1>3, <1>4 DEF HeldWorker, PCs, Filling
  <1>6. TaskOK(v) /\ NumberOK(v)
    BY <1>1, <1>2, <1>3 DEF HeldWorker, TaskOK, NumberOK, InMethod, Numbered, Storing, Filling
  <1>7. Owns(v) => Owns(w) /\ v.new_ver = w.new_ver /\ v.pc # "copy_open"
    BY <1>1, <1>2, <1>3 DEF HeldWorker, Owns, Filling
  <1>8. Follows(v, w)
    BY <1>5, <1>6, <1>7 DEF Follows
  <1> QED BY <1>1, <1>2, <1>8, QuietStep DEF w, v

(***************************************************************************)
(* Steps that write to the disk.                                           *)
(***************************************************************************)
Grows ==
    /\ Stored \subseteq Stored' /\ Logged \subseteq Logged'
    /\ DOMAIN files \subseteq DOMAIN files' /\ majors \subseteq majors'

\* What holds of a worker's fields before the disk grows holds of them afterwards.
LEMMA GrownWorker ==
    ASSUME Grows, NEW e \in Editors,
           ed'[e] \in HeldWorker, TaskOK(ed'[e]), NumberOK(ed'[e])
    PROVE  WorkerOK(ed[e])'
  <1>1. Seq(Stored) \subseteq Seq(Stored') /\ Seq(Logged) \subseteq Seq(Logged')
    BY SeqMonotonic DEF Grows
  <1>2. HeldWorker \subseteq HeldWorker'
    BY <1>1 DEF HeldWorker
  <1>3. TaskOK(ed[e])'
    BY DEF TaskOK, Grows
  <1>4. NumberOK(ed[e])'
    BY DEF NumberOK, Grows
  <1> QED BY <1>2, <1>3, <1>4 DEF WorkerOK

LEMMA DiskStep ==
    ASSUME IInv, NEW e \in Editors, Grows, ed' = [ed EXCEPT ![e] = ed'[e]],
           DiskOK', WorkerOK(ed[e])', Ownership'
    PROVE  IInv'
  BY OthersKept DEF IInv, Grows

\* A step that writes a paragraph file.
LEMMA ParFileStep ==
    ASSUME IInv, NEW e \in Editors, ed[e].pc \in {"store_open", "store_write"},
           NEW x \in {"empty", "full"}, par_files' = [par_files EXCEPT ![LineOf(e)] = x],
           NEW pc \in {"store_write", "set_latest"}, Goto(e, pc),
           UNCHANGED <<majors, files, current, changelog, ops, crashes>>
    PROVE  IInv'
  <1> DEFINE w == ed[e]  v == ed'[e]
  <1>1. w \in HeldWorker /\ TaskOK(w) /\ NumberOK(w)
    BY WorkerFacts
  <1>2. LineOf(e) \in Line
    BY <1>1 DEF TaskOK, Line, LineOf, InMethod, Storing
  <1>3. Stored' = Stored \cup {LineOf(e)} /\ Logged' = Logged
    BY <1>2 DEF IInv, DiskOK, Stored, Logged
  <1>4. Grows
    BY <1>3 DEF Grows
  <1>5. DiskOK'
    <2>1. Seq(Stored) \subseteq Seq(Stored')
      BY <1>3, SeqMonotonic
    <2> QED BY <1>2, <1>3, <2>1 DEF IInv, DiskOK
  <1>6. ed' = [ed EXCEPT ![e] = v] /\ v = [w EXCEPT !.pc = pc]
    BY WorkerFacts DEF Goto
  <1>7. v \in HeldWorker'
    <2>1. Seq(Stored) \subseteq Seq(Stored')
      BY <1>3, SeqMonotonic
    <2> QED BY <1>1, <1>3, <1>6, <2>1 DEF HeldWorker, PCs
  <1>8. TaskOK(w)' /\ <<v.par, v.hash>> \in Stored' /\ v.op \in Writers
    <2>1. v.par = w.par /\ v.hash = w.hash /\ v.op = w.op /\ v.pc = pc
      BY <1>1, <1>6 DEF HeldWorker
    <2> QED BY <1>1, <1>3, <2>1 DEF TaskOK, LineOf, InMethod, Storing, Numbered, Filling
  <1>9. NumberOK(w)'
    <2>1. /\ v.pc = pc /\ v.op = w.op /\ v.version = w.version
          /\ v.ids_loaded = w.ids_loaded /\ v.par_ids = w.par_ids
      BY <1>1, <1>6 DEF HeldWorker
    <2> QED BY <1>1, <2>1 DEF NumberOK, InMethod, Storing, Numbered, Filling
  <1>10. WorkerOK(ed[e])'
    BY <1>7, <1>8, <1>9 DEF WorkerOK
  <1>11. Ownership'
    <2>1. ~Owns(v)
      BY <1>1, <1>6 DEF Owns, HeldWorker, Filling
    <2> QED BY <1>6, <2>1, OwnershipKept DEF IInv
  <1> QED BY <1>4, <1>5, <1>6, <1>10, <1>11, DiskStep

LEMMA StoreOpenStep ==
    ASSUME IInv, NEW e \in Editors, StoreOpen(e) PROVE IInv'
  BY ParFileStep DEF StoreOpen

LEMMA StoreWriteStep ==
    ASSUME IInv, NEW e \in Editors, StoreWrite(e) PROVE IInv'
  BY ParFileStep DEF StoreWrite

\* A step that changes where the current symlink of the worker's paragraph leads.
LEMMA LinkStep ==
    ASSUME IInv, NEW e \in Editors, ed' = [ed EXCEPT ![e] = ed'[e]],
           Follows(ed'[e], ed[e]),
           NEW x, x = None \/ (x \in Hashes /\ <<ed[e].par, x>> \in Stored),
           current' = [current EXCEPT ![ed[e].par] = x],
           UNCHANGED <<majors, files, par_files, changelog, ops, crashes>>
    PROVE  IInv'
  <1>1. UNCHANGED <<Stored, Logged>> /\ Grows
    BY DEF Stored, Logged, Grows
  <1>2. DiskOK'
    BY <1>1 DEF IInv, DiskOK
  <1>3. WorkerOK(ed[e])'
    BY <1>1, GrownWorker DEF Follows
  <1>4. Ownership'
    BY OwnershipKept DEF IInv, Follows
  <1> QED BY <1>1, <1>2, <1>3, <1>4, DiskStep

LEMMA UnlinkStep ==
    ASSUME IInv, NEW e \in Editors, Unlink(e)
    PROVE  IInv'
  <1> DEFINE w == ed[e]  v == ed'[e]
  <1>1. CASE current[w.par] = None
    BY <1>1, WorkerFacts, AbortStep DEF Unlink, disk
  <1>2. CASE current[w.par] # None
    <2>1. /\ ed' = [ed EXCEPT ![e] = v] /\ v = [w EXCEPT !.pc = "symlink"]
          /\ current' = [current EXCEPT ![w.par] = None]
          /\ UNCHANGED <<majors, files, par_files, changelog, ops, crashes>>
      BY <1>2, WorkerFacts DEF Unlink, Goto
    <2>2. w \in HeldWorker /\ TaskOK(w) /\ NumberOK(w) /\ w.pc = "unlink"
      BY WorkerFacts DEF Unlink
    <2>3. Follows(v, w)
      BY <2>1, <2>2 DEF Follows, HeldWorker, TaskOK, NumberOK, Owns, PCs, Filling,
         InMethod, Storing, Numbered
    <2> QED BY <2>1, <2>3, LinkStep
  <1> QED BY <1>1, <1>2

LEMMA SymlinkStep ==
    ASSUME IInv, NEW e \in Editors, Symlink(e)
    PROVE  IInv'
  <1> DEFINE w == ed[e]  v == ed'[e]
  <1>1. CASE current[w.par] # None
    BY <1>1, WorkerFacts, AbortStep DEF Symlink, disk
  <1>2. CASE current[w.par] = None
    <2>1. /\ ed' = [ed EXCEPT ![e] = v]
          /\ v = Ready(e) \/ v = [w EXCEPT !.pc = "increment_version", !.old_ver = w.version]
          /\ current' = [current EXCEPT ![w.par] = w.hash]
          /\ UNCHANGED <<majors, files, par_files, changelog, ops, crashes>>
      BY <1>2, WorkerFacts DEF Symlink
    <2>2. w \in HeldWorker /\ TaskOK(w) /\ NumberOK(w) /\ w.pc = "symlink"
      BY WorkerFacts DEF Symlink
    <2>3. w.hash \in Hashes /\ <<w.par, w.hash>> \in Stored
      BY <2>2 DEF TaskOK, InMethod, Storing
    <2>4. CASE v = Ready(e)
      <3>1. Follows(v, w)
        BY <2>2, <2>4, ReadyFollows
      <3> QED BY <2>1, <2>3, <3>1, LinkStep
    <2>5. CASE v = [w EXCEPT !.pc = "increment_version", !.old_ver = w.version]
      <3>1. Follows(v, w)
        BY <2>2, <2>5 DEF Follows, HeldWorker, TaskOK, NumberOK, Owns, PCs, Filling,
           InMethod, Storing, Numbered
      <3> QED BY <2>1, <2>3, <3>1, LinkStep
    <2> QED BY <2>1, <2>4, <2>5
  <1> QED BY <1>1, <1>2

\* A step that writes the file of the worker's new version.
LEMMA SetFileGrows ==
    ASSUME IInv, NEW ver \in Version, ver[1] \in majors, NEW lines \in Seq(Stored),
           SetFile(ver, lines), UNCHANGED <<majors, par_files, current, changelog, ops, crashes>>
    PROVE  DiskOK' /\ Grows /\ DOMAIN files' = DOMAIN files \cup {ver}
  <1>1. DOMAIN files' = DOMAIN files \cup {ver} /\ Stored' = Stored
    BY DEF SetFile, Stored
  <1>2. Logged \subseteq Logged'
    BY <1>1 DEF Logged
  <1>3. files' \in [DOMAIN files' -> Seq(Stored')]
    BY <1>1 DEF SetFile, IInv, DiskOK
  <1>4. changelog' \in Seq(Logged')
    BY <1>2, SeqMonotonic DEF IInv, DiskOK
  <1>5. \A u \in DOMAIN files' : u \in Version /\ u[1] \in majors'
    BY <1>1 DEF IInv, DiskOK
  <1>6. DiskOK'
    BY <1>1, <1>3, <1>4, <1>5 DEF IInv, DiskOK
  <1> QED BY <1>1, <1>2, <1>6 DEF Grows

LEMMA FileStep ==
    ASSUME IInv, NEW e \in Editors, ed[e].pc \in {"copy_open"} \cup Filling,
           NEW lines \in Seq(Stored), SetFile(ed[e].new_ver, lines),
           UNCHANGED <<majors, par_files, current, changelog, ops, crashes>>,
           ed' = [ed EXCEPT ![e] = ed'[e]],
           ed'[e] \in HeldWorker, TaskOK(ed'[e]), NumberOK(ed[e])',
           Owns(ed'[e]) => /\ Owns(ed[e]) /\ ed'[e].new_ver = ed[e].new_ver
                           /\ ed'[e].pc # "copy_open"
    PROVE  IInv'
  <1>1. ed[e].new_ver \in Version /\ ed[e].new_ver[1] \in majors
    BY WorkerFacts DEF HeldWorker, NumberOK
  <1>2. DiskOK' /\ Grows /\ DOMAIN files' = DOMAIN files \cup {ed[e].new_ver}
    BY <1>1, SetFileGrows
  <1>3. WorkerOK(ed[e])'
    <2>1. Seq(Stored) \subseteq Seq(Stored') /\ Seq(Logged) \subseteq Seq(Logged')
      BY <1>2, SeqMonotonic DEF Grows
    <2>2. HeldWorker \subseteq HeldWorker'
      BY <2>1 DEF HeldWorker
    <2>3. TaskOK(ed[e])'
      BY <1>2 DEF TaskOK, Grows
    <2> QED BY <2>2, <2>3 DEF WorkerOK
  <1>4. Ownership'
    BY <1>2, OwnershipFilled DEF IInv
  <1> QED BY <1>2, <1>3, <1>4, DiskStep

\* ... and goes on in the same method, or ends it.
LEMMA FillStep ==
    ASSUME IInv, NEW e \in Editors, ed[e].pc \in Filling,
           NEW lines \in Seq(Stored), SetFile(ed[e].new_ver, lines),
           UNCHANGED <<majors, par_files, current, changelog, ops, crashes>>,
           \/ /\ ed' = [ed EXCEPT ![e] = Ready(e)]
           \/ \E pc \in Filling :
                 /\ Goto(e, pc)
                 /\ pc \in {"recopy_open", "recopy_write", "append"} => ed[e].op = "add"
    PROVE  IInv'
  <1> DEFINE w == ed[e]  v == ed'[e]
  <1>1. w \in HeldWorker /\ TaskOK(w) /\ NumberOK(w) /\ DOMAIN ed = Editors
    BY WorkerFacts
  <1>2. w.new_ver \in Version /\ w.new_ver[1] \in majors
    BY <1>1 DEF HeldWorker, NumberOK
  <1>3. Grows
    BY <1>2, SetFileGrows
  <1>4. ed' = [ed EXCEPT ![e] = v] /\ Follows(v, w)
    <2>1. CASE ed' = [ed EXCEPT ![e] = Ready(e)]
      BY <1>1, <2>1, ReadyFollows
    <2>2. ASSUME NEW pc \in Filling, Goto(e, pc),
                 pc \in {"recopy_open", "recopy_write", "append"} => w.op = "add"
          PROVE  ed' = [ed EXCEPT ![e] = v] /\ Follows(v, w)
      <3>1. ed' = [ed EXCEPT ![e] = v] /\ v = [w EXCEPT !.pc = pc]
        BY <1>1, <2>2 DEF Goto
      <3> HIDE DEF v, w
      <3>2. v \in HeldWorker
        BY <1>1, <3>1 DEF HeldWorker, PCs
      <3>3. TaskOK(v) /\ NumberOK(v)
        BY <1>1, <2>2, <3>1 DEF w, HeldWorker, TaskOK, NumberOK, InMethod, Storing, Numbered, Filling
      <3>4. Owns(v) => Owns(w) /\ v.new_ver = w.new_ver /\ v.pc # "copy_open"
        BY <1>1, <3>1 DEF w, HeldWorker, Owns, Filling
      <3> QED BY <3>1, <3>2, <3>3, <3>4 DEF Follows
    <2> QED BY <2>1, <2>2
  <1>5. NumberOK(ed[e])'
    BY <1>3, <1>4, GrownWorker DEF Follows, WorkerOK
  <1> QED BY <1>4, <1>5, FileStep DEF Follows

LEMMA CopyWriteStep ==
    ASSUME IInv, NEW e \in Editors, CopyWrite(e)
    PROVE  IInv'
  <1> DEFINE lines == Overwrite(LinesOf(ed[e].new_ver), LinesOf(ed[e].from))
  <1>1. lines \in Seq(Stored)
    BY LinesOfType, OverwriteType DEF IInv
  <1>2. /\ ed[e].pc \in Filling /\ SetFile(ed[e].new_ver, lines) /\ Goto(e, "log_read")
        /\ UNCHANGED <<majors, par_files, current, changelog, ops, crashes>>
    BY DEF CopyWrite, WriteFile, Filling
  <1> QED BY <1>1, <1>2, FillStep DEF Filling

LEMMA RecopyOpenStep ==
    ASSUME IInv, NEW e \in Editors, RecopyOpen(e)
    PROVE  IInv'
  <1> DEFINE w == ed[e]  v == ed'[e]
  <1>1. w \in HeldWorker /\ TaskOK(w) /\ NumberOK(w) /\ w.pc = "recopy_open" /\ w.op = "add"
    BY WorkerFacts DEF RecopyOpen, TaskOK
  <1>2. CASE w.old_ver \in DOMAIN files
    <2>1. /\ SetFile(w.new_ver, <<>>) /\ Goto(e, "recopy_write")
          /\ UNCHANGED <<majors, par_files, current, changelog, ops, crashes>>
      BY <1>2 DEF RecopyOpen
    <2> QED BY <1>1, <2>1, FillStep, EmptySeq DEF Filling
  <1>3. CASE w.old_ver \notin DOMAIN files
    <2>1. /\ UNCHANGED disk /\ ops' \in Nat /\ crashes' \in Nat
          /\ ed' = [ed EXCEPT ![e] = v] /\ v = [w EXCEPT !.pc = "append"]
      BY <1>3, WorkerFacts DEF RecopyOpen, Goto, disk
    <2> HIDE DEF w, v
    <2>2. v \in HeldWorker
      BY <1>1, <2>1 DEF HeldWorker, PCs, Filling
    <2>3. TaskOK(v) /\ NumberOK(v)
      BY <1>1, <2>1 DEF HeldWorker, TaskOK, NumberOK, InMethod, Storing, Numbered, Filling
    <2>4. Owns(v) => Owns(w) /\ v.new_ver = w.new_ver /\ v.pc # "copy_open"
      BY <1>1, <2>1 DEF HeldWorker, Owns, Filling
    <2>5. Follows(v, w)
      BY <2>2, <2>3, <2>4 DEF Follows
    <2> QED BY <2>1, <2>5, QuietStep DEF w, v
  <1> QED BY <1>2, <1>3

LEMMA RecopyWriteStep ==
    ASSUME IInv, NEW e \in Editors, RecopyWrite(e)
    PROVE  IInv'
  <1> DEFINE lines == Overwrite(LinesOf(ed[e].new_ver), LinesOf(ed[e].old_ver))
  <1>1. lines \in Seq(Stored)
    BY LinesOfType, OverwriteType DEF IInv
  <1>2. /\ ed[e].pc = "recopy_write" /\ SetFile(ed[e].new_ver, lines) /\ Goto(e, "append")
        /\ UNCHANGED <<majors, par_files, current, changelog, ops, crashes>>
    BY DEF RecopyWrite, WriteFile
  <1>3. ed[e].op = "add"
    BY <1>2, WorkerFacts DEF TaskOK
  <1> QED BY <1>1, <1>2, <1>3, FillStep DEF Filling

LEMMA AppendLineStep ==
    ASSUME IInv, NEW e \in Editors, AppendLine(e)
    PROVE  IInv'
  <1> DEFINE lines == Append(LinesOf(ed[e].new_ver), LineOf(e))
  <1>1. /\ ed[e].pc = "append" /\ SetFile(ed[e].new_ver, lines)
        /\ ed' = [ed EXCEPT ![e] = Ready(e)]
        /\ UNCHANGED <<majors, par_files, current, changelog, ops, crashes>>
    BY DEF AppendLine
  <1>2. LineOf(e) \in Stored
    BY <1>1, WorkerFacts DEF TaskOK, LineOf, InMethod, Storing, Numbered, Filling, Writers
  <1>3. lines \in Seq(Stored)
    BY <1>2, LinesOfType, AppendProperties DEF IInv
  <1> QED BY <1>1, <1>3, FillStep DEF Filling

LEMMA WriteOpenStep ==
    ASSUME IInv, NEW e \in Editors, WriteOpen(e)
    PROVE  IInv'
  <1>1. /\ ed[e].pc \in Filling /\ SetFile(ed[e].new_ver, <<>>) /\ Goto(e, "write_lines")
        /\ UNCHANGED <<majors, par_files, current, changelog, ops, crashes>>
    BY DEF WriteOpen, Filling
  <1> QED BY <1>1, FillStep, EmptySeq DEF Filling

\* What is written last are lines the method has read and the one it has stored.
LEMMA WriteLinesStep ==
    ASSUME IInv, NEW e \in Editors, WriteLines(e)
    PROVE  IInv'
  <1> DEFINE edited == Edited(ed[e].op, ed[e].lines, ed[e].ref, LineOf(e))
             lines == Overwrite(LinesOf(ed[e].new_ver), edited)
  <1>1. /\ ed[e].pc = "write_lines" /\ SetFile(ed[e].new_ver, lines)
        /\ ed' = [ed EXCEPT ![e] = Ready(e)]
        /\ UNCHANGED <<majors, par_files, current, changelog, ops, crashes>>
    BY DEF WriteLines, WriteFile
  <1>2. /\ ed[e].op \in Ops /\ ed[e].lines \in Seq(Stored)
        /\ ed[e].op # "delete" => LineOf(e) \in Stored
    BY <1>1, WorkerFacts DEF HeldWorker, TaskOK, LineOf, InMethod, Storing, Numbered, Filling, Ops
  <1>3. edited \in Seq(Stored)
    BY <1>2, EditedType
  <1>4. lines \in Seq(Stored)
    BY <1>3, LinesOfType, OverwriteType DEF IInv
  <1> QED BY <1>1, <1>4, FillStep DEF Filling

\* The version file is created; a copy that finds no source ends the request.
LEMMA CopyOpenStep ==
    ASSUME IInv, NEW e \in Editors, CopyOpen(e)
    PROVE  IInv'
  <1> DEFINE w == ed[e]  v == ed'[e]
  <1>1. w \in HeldWorker /\ TaskOK(w) /\ NumberOK(w) /\ w.pc = "copy_open"
    BY WorkerFacts DEF CopyOpen
  <1>2. CASE Abort(e) /\ UNCHANGED files
    BY <1>2, WorkerFacts, AbortStep DEF CopyOpen, disk
  <1>3. ASSUME NEW pc \in {"copy_write", "log_read"}, SetFile(w.new_ver, <<>>), Goto(e, pc)
        PROVE  IInv'
    <2>1. /\ UNCHANGED <<majors, par_files, current, changelog, ops, crashes>>
          /\ ed' = [ed EXCEPT ![e] = v] /\ v = [w EXCEPT !.pc = pc]
      BY <1>3, WorkerFacts DEF CopyOpen, Goto
    <2>2. w.new_ver \in DOMAIN files' /\ majors' = majors
      BY <1>3, <2>1 DEF SetFile
    <2> HIDE DEF w, v
    <2>3. v \in HeldWorker
      BY <1>1, <2>1 DEF HeldWorker, PCs, Filling
    <2>4. TaskOK(v)
      BY <1>1, <2>1 DEF HeldWorker, TaskOK, InMethod, Storing, Numbered, Filling
    <2>5. NumberOK(ed[e])'
      BY <1>1, <2>1, <2>2 DEF v, HeldWorker, NumberOK, InMethod, Storing, Numbered, Filling
    <2>6. Owns(v) => Owns(w) /\ v.new_ver = w.new_ver /\ v.pc # "copy_open"
      BY <1>1, <2>1 DEF HeldWorker, Owns, Filling
    <2> QED BY <1>1, <1>3, <2>1, <2>3, <2>4, <2>5, <2>6, FileStep, EmptySeq DEF w, v
  <1> QED BY <1>2, <1>3 DEF CopyOpen

\* A step that writes the changelog.
LEMMA LogStep ==
    ASSUME IInv, NEW e \in Editors, NEW log \in Seq(Logged), changelog' = log,
           UNCHANGED <<majors, files, par_files, current, ops, crashes>>,
           ed' = [ed EXCEPT ![e] = ed'[e]], Follows(ed'[e], ed[e])
    PROVE  IInv'
  <1>1. UNCHANGED <<Stored, Logged>> /\ Grows
    BY DEF Stored, Logged, Grows
  <1>2. DiskOK'
    BY <1>1 DEF IInv, DiskOK
  <1>3. WorkerOK(ed[e])'
    BY <1>1, GrownWorker DEF Follows
  <1>4. Ownership'
    BY OwnershipKept DEF IInv, Follows
  <1> QED BY <1>1, <1>2, <1>3, <1>4, DiskStep

LEMMA LogOpenStep ==
    ASSUME IInv, NEW e \in Editors, LogOpen(e)
    PROVE  IInv'
  <1> DEFINE w == ed[e]  v == ed'[e]
  <1>1. w \in HeldWorker /\ TaskOK(w) /\ NumberOK(w) /\ w.pc = "log_open"
    BY WorkerFacts DEF LogOpen
  <1>2. /\ changelog' = <<>> /\ UNCHANGED <<majors, files, par_files, current, ops, crashes>>
        /\ ed' = [ed EXCEPT ![e] = v] /\ v = [w EXCEPT !.pc = "log_write"]
    BY WorkerFacts DEF LogOpen, Goto
  <1> HIDE DEF w, v
  <1>3. v \in HeldWorker
    BY <1>1, <1>2 DEF HeldWorker, PCs, Filling
  <1>4. TaskOK(v) /\ NumberOK(v)
    BY <1>1, <1>2 DEF HeldWorker, TaskOK, NumberOK, InMethod, Storing, Numbered, Filling
  <1>5. Owns(v) => Owns(w) /\ v.new_ver = w.new_ver /\ v.pc # "copy_open"
    BY <1>1, <1>2 DEF HeldWorker, Owns, Filling
  <1>6. Follows(v, w)
    BY <1>3, <1>4, <1>5 DEF Follows
  <1> QED BY <1>2, <1>6, LogStep, EmptySeq DEF w, v

LEMMA LogWriteStep ==
    ASSUME IInv, NEW e \in Editors, LogWrite(e)
    PROVE  IInv'
  <1> DEFINE w == ed[e]  v == ed'[e]  log == Overwrite(changelog, w.log)
  <1>1. w \in HeldWorker /\ TaskOK(w) /\ NumberOK(w) /\ w.pc = "log_write"
    BY WorkerFacts DEF LogWrite
  <1>2. log \in Seq(Logged)
    BY <1>1, OverwriteType DEF IInv, DiskOK, HeldWorker
  <1>3. /\ changelog' = log /\ UNCHANGED <<majors, files, par_files, current, ops, crashes>>
        /\ ed' = [ed EXCEPT ![e] = v]
    BY WorkerFacts DEF LogWrite
  <1> DEFINE next == IF w.op = "add" THEN "recopy_open"
                     ELSE IF w.op \in Insertions THEN "write_open" ELSE "read_lines"
  <1>4. v = [w EXCEPT !.version = w.new_ver, !.log = <<>>, !.ids_loaded = FALSE,
                      !.par_ids = {}, !.pc = next]
    BY WorkerFacts DEF LogWrite
  <1>5. /\ next \in {"recopy_open", "write_open", "read_lines"}
        /\ next = "recopy_open" => w.op = "add"
    OBVIOUS
  <1>6. <<>> \in Seq(Logged) /\ {} \in SUBSET ParIds
    BY EmptySeq
  <1> HIDE DEF w, v, log, next
  <1>7. v \in HeldWorker
    BY <1>1, <1>4, <1>5, <1>6 DEF HeldWorker, PCs, Filling
  <1>8. TaskOK(v)
    BY <1>1, <1>4, <1>5 DEF HeldWorker, TaskOK, InMethod, Storing, Numbered, Filling
  <1>9. NumberOK(v)
    BY <1>1, <1>4, <1>5 DEF HeldWorker, NumberOK, InMethod, Storing, Numbered, Filling
  <1>10. Owns(v) => Owns(w) /\ v.new_ver = w.new_ver /\ v.pc # "copy_open"
    BY <1>1, <1>4, <1>5 DEF HeldWorker, Owns, Filling
  <1>11. Follows(v, w)
    BY <1>7, <1>8, <1>9, <1>10 DEF Follows
  <1> QED BY <1>2, <1>3, <1>11, LogStep DEF w, v

\* The worker whose mkdir succeeds is the only one to own the new major version,
\* and no file of it exists.
LEMMA MkdirStep ==
    ASSUME IInv, NEW e \in Editors, Mkdir(e)
    PROVE  IInv'
  <1> DEFINE w == ed[e]  v == ed'[e]  major == w.new_ver[1]
  <1>1. /\ w \in HeldWorker /\ TaskOK(w) /\ NumberOK(w) /\ w.pc = "mkdir" /\ w.op # "modify"
        /\ w.new_ver \in Version /\ major > 0
    BY WorkerFacts DEF Mkdir, HeldWorker, NumberOK, Numbered
  <1>2. CASE major \in majors
    BY <1>2, WorkerFacts, AbortStep DEF Mkdir, disk
  <1>3. CASE major \notin majors
    <2>1. /\ majors' = majors \cup {major}
          /\ UNCHANGED <<files, par_files, current, changelog, ops, crashes>>
          /\ ed' = [ed EXCEPT ![e] = v] /\ v = [w EXCEPT !.pc = "copy_open"]
      BY <1>3, WorkerFacts DEF Mkdir, Goto
    <2>2. UNCHANGED <<Stored, Logged>> /\ Grows
      BY <2>1 DEF Stored, Logged, Grows
    <2>3. major \in Nat \ {0}
      BY <1>1 DEF Version
    <2>4. DiskOK'
      BY <2>1, <2>2, <2>3 DEF IInv, DiskOK
    <2>5. WorkerOK(ed[e])'
      <3>1. v \in HeldWorker' /\ v.pc = "copy_open" /\ v.new_ver = w.new_ver /\ v.op = w.op
        BY <1>1, <2>1, <2>2 DEF HeldWorker, PCs
      <3>2. /\ v.par = w.par /\ v.hash = w.hash
            /\ v.version = w.version /\ v.ids_loaded = w.ids_loaded /\ v.par_ids = w.par_ids
        BY <1>1, <2>1 DEF HeldWorker
      <3>3. TaskOK(ed[e])'
        BY <1>1, <2>2, <3>1, <3>2 DEF TaskOK, InMethod, Storing, Numbered, Filling
      <3>4. NumberOK(ed[e])'
        BY <1>1, <2>1, <3>1, <3>2 DEF NumberOK, InMethod, Storing, Numbered, Filling
      <3> QED BY <3>1, <3>3, <3>4 DEF WorkerOK
    <2>6. Ownership'
      <3>1. v.new_ver = w.new_ver
        BY <1>1, <2>1 DEF HeldWorker
      <3>2. ASSUME NEW f \in Editors, f # e, Owns(ed[f])
            PROVE  ed[f].new_ver # w.new_ver
        <4>1. ed[f].new_ver[1] \in majors
          BY <3>2, WorkerFacts DEF Owns, NumberOK
        <4> QED BY <1>3, <4>1
      <3>3. w.new_ver \notin DOMAIN files
        BY <1>3 DEF IInv, DiskOK
      <3>4. ASSUME NEW f \in Editors, f # e PROVE ed'[f] = ed[f]
        BY <2>1, <3>4, WorkerFacts
      <3>5. ASSUME NEW f \in Editors, NEW g \in Editors, f # g, Owns(ed'[f]), Owns(ed'[g])
            PROVE  ed'[f].new_ver # ed'[g].new_ver
        <4>1. CASE f = e
          BY <3>1, <3>2, <3>4, <3>5, <4>1
        <4>2. CASE g = e
          BY <3>1, <3>2, <3>4, <3>5, <4>2
        <4>3. CASE f # e /\ g # e
          BY <3>4, <3>5, <4>3 DEF IInv, Ownership
        <4> QED BY <4>1, <4>2, <4>3
      <3>6. ASSUME NEW f \in Editors, ed'[f].pc = "copy_open", ed'[f].op # "modify"
            PROVE  ed'[f].new_ver \notin DOMAIN files'
        <4>1. CASE f = e
          BY <2>1, <3>1, <3>3, <4>1
        <4>2. CASE f # e
          BY <2>1, <3>4, <3>6, <4>2 DEF IInv, Ownership
        <4> QED BY <4>1, <4>2
      <3> QED BY <3>5, <3>6 DEF Ownership, Owns
    <2> QED BY <2>1, <2>2, <2>4, <2>5, <2>6, DiskStep
  <1> QED BY <1>2, <1>3

(***************************************************************************)
(* The invariant.                                                          *)
(***************************************************************************)
\* The document the runs start from was made by one addition after another.
LEMMA InitIInv ==
    ASSUME Init PROVE IInv
  <1> DEFINE n == Len(InitDoc)
  <1>1. n \in Nat /\ DOMAIN InitDoc = 1..n /\ \A i \in 1..n : InitDoc[i] \in Line
    BY InitDocAssumption, LenProperties, ElementOfSeq
  <1>2. DOMAIN files = {<<m, 0>> : m \in 1..n} /\ majors = 1..n
    BY DEF Init
  <1>3. par_files \in [Line -> {"none", "empty", "full"}]
    BY DEF Init
  <1>4. \A i \in 1..n : InitDoc[i] \in Stored
    BY <1>1 DEF Init, Stored
  <1>5. files \in [DOMAIN files -> Seq(Stored)]
    <2>1. ASSUME NEW m \in 1..n PROVE files[<<m, 0>>] \in Seq(Stored)
      <3>1. files[<<m, 0>>] = SubSeq(InitDoc, 1, m)
        BY DEF Init
      <3>2. SubSeq(InitDoc, 1, m) \in Seq(Stored)
        BY <1>1, <1>4, SubSeqProperties
      <3> QED BY <3>1, <3>2
    <2> QED BY <1>2, <2>1 DEF Init
  <1>6. ASSUME NEW p \in ParIds
        PROVE  /\ current[p] \in Hashes \cup {None}
               /\ current[p] # None => <<p, current[p]>> \in Stored
    <2> DEFINE at == find_par_id(InitDoc, p)
    <2>1. at \in {0} \cup 1..n /\ (at # 0 => InitDoc[at][1] = p)
      BY FindInDomain, FindFinds, InitDocAssumption
    <2>2. current[p] = IF at = 0 THEN None ELSE InitDoc[at][2]
      BY DEF Init
    <2> HIDE DEF at
    <2>3. CASE at # 0
      <3>1. InitDoc[at] \in Line /\ InitDoc[at] \in Stored
        BY <1>1, <1>4, <2>1, <2>3
      <3> QED BY <2>1, <2>2, <2>3, <3>1 DEF Line
    <2> QED BY <2>2, <2>3
  <1>7. current \in [ParIds -> Hashes \cup {None}]
    BY <1>6 DEF Init
  <1>8. changelog \in Seq(Logged)
    <2> DEFINE entry(i) == [ver |-> <<n + 1 - i, 0>>, op |-> "add", par |-> InitDoc[n + 1 - i][1]]
    <2>1. changelog = [i \in 1..n |-> entry(i)]
      BY DEF Init
    <2>2. ASSUME NEW i \in 1..n PROVE entry(i) \in Logged
      <3>1. n + 1 - i \in 1..n
        BY <1>1
      <3>2. InitDoc[n + 1 - i][1] \in ParIds
        BY <1>1, <3>1 DEF Line
      <3>3. <<n + 1 - i, 0>> \in DOMAIN files /\ <<n + 1 - i, 0>> \in Version
        BY <1>1, <1>2, <3>1 DEF Version
      <3> QED BY <3>2, <3>3 DEF Logged, LogEntry, Ops, Writers
    <2> HIDE DEF entry
    <2>3. changelog \in [1..n -> Logged]
      BY <2>1, <2>2
    <2> QED BY <1>1, <2>3, SeqIntro
  <1>9. DiskOK
    <2>1. \A ver \in DOMAIN files : ver \in Version /\ ver[1] \in majors
      BY <1>1, <1>2 DEF Version
    <2>2. majors \in SUBSET (Nat \ {0}) /\ ops \in Nat /\ crashes \in Nat
      BY <1>1 DEF Init
    <2> QED BY <1>3, <1>5, <1>6, <1>7, <1>8, <2>1, <2>2 DEF DiskOK
  <1>10. WorkersOK
    <2>1. WorkerOK(Idle)
      BY IdleFollows DEF Follows, WorkerOK
    <2> QED BY <2>1 DEF Init, WorkersOK
  <1>11. Ownership
    BY DEF Init, Ownership, Owns, Idle, Filling
  <1> QED BY <1>9, <1>10, <1>11 DEF IInv

LEMMA NextIInv ==
    ASSUME IInv, [Next]_vars PROVE IInv'
  <1>1. CASE UNCHANGED vars
    <2>1. UNCHANGED <<Stored, Logged, majors, files, par_files, current, changelog, ed, ops, crashes>>
      BY <1>1 DEF vars, Stored, Logged
    <2>2. DiskOK'
      BY <2>1 DEF IInv, DiskOK
    <2>3. ASSUME NEW e \in Editors PROVE WorkerOK(ed[e])'
      <3>1. UNCHANGED HeldWorker
        BY <2>1 DEF HeldWorker
      <3> QED BY <2>1, <3>1 DEF IInv, WorkersOK, WorkerOK, TaskOK, NumberOK
    <2>4. WorkersOK' /\ Ownership'
      BY <2>1, <2>3 DEF IInv, WorkersOK, Ownership, Owns
    <2> QED BY <2>2, <2>4 DEF IInv
  <1>2. CASE Rest
    BY <1>1, <1>2 DEF Rest
  <1>3. ASSUME NEW e \in Editors, BeginRequest(e) \/ StartMethod(e) \/ Step(e) \/ Crash(e)
        PROVE  IInv'
    <2>1. CASE BeginRequest(e) \/ Crash(e)
      BY <2>1, BeginRequestStep, CrashStep
    <2>2. CASE StartMethod(e)
      BY <2>2, StartAddStep, StartInsertStep, StartDeleteStep, StartModifyStep DEF StartMethod
    <2>3. CASE Step(e)
      <3>1. CASE ListMajor(e) \/ ListMinor(e) \/ EndRequest(e)
        BY <3>1, ListMajorStep, ListMinorStep, EndRequestStep
      <3>2. CASE GetLatest(e) \/ StoreOpen(e) \/ StoreWrite(e)
        BY <3>2, GetLatestStep, StoreOpenStep, StoreWriteStep
      <3>3. CASE SetLatest(e) \/ Unlink(e) \/ Symlink(e)
        BY <3>3, SetLatestStep, UnlinkStep, SymlinkStep
      <3>4. CASE IncrementVersion(e) \/ Probe(e) \/ Mkdir(e) \/ CopyOpen(e) \/ CopyWrite(e)
        BY <3>4, IncrementVersionStep, ProbeStep, MkdirStep, CopyOpenStep, CopyWriteStep
      <3>5. CASE LogRead(e) \/ LogOpen(e) \/ LogWrite(e)
        BY <3>5, LogReadStep, LogOpenStep, LogWriteStep
      <3>6. CASE RecopyOpen(e) \/ RecopyWrite(e) \/ AppendLine(e)
        BY <3>6, RecopyOpenStep, RecopyWriteStep, AppendLineStep
      <3>7. CASE ReadLines(e) \/ WriteOpen(e) \/ WriteLines(e)
        BY <3>7, ReadLinesStep, WriteOpenStep, WriteLinesStep
      <3> QED BY <2>3, <3>1, <3>2, <3>3, <3>4, <3>5, <3>6, <3>7 DEF Step
    <2> QED BY <1>3, <2>1, <2>2, <2>3
  <1> QED BY <1>1, <1>2, <1>3 DEF Next

\* IInv holds in every state: versions lie in their directories and consist of stored
\* paragraphs, every worker's locals agree with the disk, and a major version that is
\* being made has one owner.
THEOREM Invariance == Spec => []IInv
  <1>1. Init => IInv
    BY InitIInv
  <1>2. IInv /\ [Next]_vars => IInv'
    BY NextIInv
  <1> QED BY <1>1, <1>2, PTL DEF Spec

\* The variables keep their types.
THEOREM TypeCorrect == Spec => []TypeOK
  <1>1. IInv => TypeOK
    <2> SUFFICES ASSUME IInv PROVE TypeOK
      OBVIOUS
    <2>1. Seq(Stored) \subseteq Seq(Line) /\ Seq(Logged) \subseteq Seq(LogEntry)
      BY SeqMonotonic DEF Stored, Logged
    <2>2. files \in [DOMAIN files -> Seq(Line)] /\ changelog \in Seq(LogEntry)
      BY <2>1 DEF IInv, DiskOK
    <2>3. ed \in [Editors -> Worker]
      <3>1. HeldWorker \subseteq Worker
        BY <2>1 DEF HeldWorker, Worker
      <3>2. ed = [e \in Editors |-> ed[e]]
        BY DEF IInv, WorkersOK
      <3> QED BY <3>1, <3>2 DEF IInv, WorkersOK, WorkerOK
    <2> QED BY <2>2, <2>3 DEF IInv, DiskOK, TypeOK
  <1> QED BY <1>1, Invariance, PTL

\* A paragraph that a version file or a current symlink names has been stored.
THEOREM NamedStored == Spec => []NamedParagraphsStored
  <1>1. IInv => NamedParagraphsStored
    <2> SUFFICES ASSUME IInv PROVE NamedParagraphsStored
      OBVIOUS
    <2>1. ASSUME NEW ver \in DOMAIN files, NEW i \in DOMAIN files[ver]
          PROVE  files[ver][i] \in Stored
      <3>1. files[ver] \in Seq(Stored)
        BY DEF IInv, DiskOK
      <3> QED BY <3>1, LenProperties, ElementOfSeq
    <2> QED BY <2>1 DEF IInv, DiskOK, NamedParagraphsStored, Stored
  <1> QED BY <1>1, Invariance, PTL

\* The changelog lists only versions that have a file.
THEOREM LoggedExist == Spec => []LoggedVersionsExist
  <1>1. IInv => LoggedVersionsExist
    <2> SUFFICES ASSUME IInv PROVE LoggedVersionsExist
      OBVIOUS
    <2>1. ASSUME NEW i \in DOMAIN changelog PROVE changelog[i] \in Logged
      BY LenProperties, ElementOfSeq DEF IInv, DiskOK
    <2> QED BY <2>1 DEF LoggedVersionsExist, Logged
  <1> QED BY <1>1, Invariance, PTL

\* Two workers never fill the same major version.
THEOREM OneWriter == Spec => []OneWriterPerMajor
  <1>1. IInv => OneWriterPerMajor
    <2> SUFFICES ASSUME IInv, NEW e \in Editors, NEW f \in Editors, e # f,
                        ed[e].pc \in Filling, ed[e].new_ver[2] = 0
                 PROVE  ~Fills(f, ed[e].new_ver)
      BY DEF OneWriterPerMajor
    <2>1. ASSUME NEW g \in Editors, ed[g].pc \in Filling, ed[g].new_ver[2] = 0
          PROVE  Owns(ed[g])
      BY <2>1, WorkerFacts DEF NumberOK, Numbered, Owns
    <2> QED BY <2>1 DEF IInv, Ownership, Fills
  <1> QED BY <1>1, Invariance, PTL

(***************************************************************************)
(* What a step does to the files.                                          *)
(***************************************************************************)
\* No step removes a version file, and a worker changes only the file of the version
\* it is making.
LEMMA FilesChange ==
    ASSUME NEW e \in Editors, BeginRequest(e) \/ StartMethod(e) \/ Step(e) \/ Crash(e)
    PROVE  \/ UNCHANGED files
           \/ /\ ed[e].pc \in {"copy_open"} \cup Filling
              /\ DOMAIN files \subseteq DOMAIN files'
              /\ \A ver \in DOMAIN files : ver # ed[e].new_ver => files'[ver] = files[ver]
  <1>1. CASE BeginRequest(e) \/ StartMethod(e) \/ Crash(e)
    BY <1>1 DEF BeginRequest, StartMethod, StartAdd, StartInsert, StartDelete, StartModify,
                Start, Crash, disk
  <1>2. CASE \/ ListMajor(e) \/ ListMinor(e) \/ EndRequest(e) \/ GetLatest(e)
             \/ StoreOpen(e) \/ StoreWrite(e) \/ SetLatest(e) \/ Unlink(e) \/ Symlink(e)
             \/ IncrementVersion(e) \/ Probe(e) \/ Mkdir(e)
             \/ LogRead(e) \/ LogOpen(e) \/ LogWrite(e) \/ ReadLines(e)
    BY <1>2 DEF ListMajor, ListMinor, EndRequest, GetLatest, StoreOpen, StoreWrite, SetLatest,
                Unlink, Symlink, IncrementVersion, Probe, Mkdir, LogRead, LogOpen, LogWrite,
                ReadLines, disk
  <1>3. CASE CopyOpen(e) \/ CopyWrite(e) \/ RecopyOpen(e) \/ RecopyWrite(e)
             \/ AppendLine(e) \/ WriteOpen(e) \/ WriteLines(e)
    <2>1. ed[e].pc \in {"copy_open"} \cup Filling
      BY <1>3 DEF CopyOpen, CopyWrite, RecopyOpen, RecopyWrite, AppendLine, WriteOpen,
                  WriteLines, Filling
    <2>2. UNCHANGED files \/ \E lines : SetFile(ed[e].new_ver, lines)
      BY <1>3, Zenon DEF CopyOpen, CopyWrite, RecopyOpen, RecopyWrite, AppendLine, WriteOpen,
                         WriteLines, WriteFile
    <2>3. ASSUME NEW lines, SetFile(ed[e].new_ver, lines)
          PROVE  /\ DOMAIN files \subseteq DOMAIN files'
                 /\ \A ver \in DOMAIN files : ver # ed[e].new_ver => files'[ver] = files[ver]
      BY <2>3 DEF SetFile
    <2> QED BY <2>1, <2>2, <2>3
  <1> QED BY <1>1, <1>2, <1>3 DEF Step

\* A major version that its worker has finished or abandoned never changes again.
THEOREM ClosedMajors == Spec => ClosedMajorImmutable
  <1>1. ASSUME IInv, [Next]_vars, NEW ver \in DOMAIN files, ver[2] = 0,
               \A e \in Editors : ~Fills(e, ver)
        PROVE  ver \in DOMAIN files' /\ files'[ver] = files[ver]
    <2>1. CASE UNCHANGED vars \/ Rest
      BY <2>1, <1>1 DEF vars, Rest
    <2>2. ASSUME NEW e \in Editors, BeginRequest(e) \/ StartMethod(e) \/ Step(e) \/ Crash(e)
          PROVE  ver \in DOMAIN files' /\ files'[ver] = files[ver]
      <3>1. CASE UNCHANGED files
        BY <3>1, <1>1
      <3>2. CASE ed[e].pc \in Filling
        <4>1. ver # ed[e].new_ver
          BY <3>2, <1>1 DEF Fills
        <4> QED BY <4>1, <2>2, <1>1, FilesChange
      <3>3. CASE ed[e].pc = "copy_open"
        <4>1. ver # ed[e].new_ver
          <5>1. CASE ed[e].op = "modify"
            <6>1. ed[e].new_ver[2] > 0
              BY <3>3, <5>1, <1>1, WorkerFacts DEF NumberOK, Numbered
            <6> QED BY <6>1, <1>1
          <5>2. CASE ed[e].op # "modify"
            BY <3>3, <5>2, <1>1 DEF IInv, Ownership
          <5> QED BY <5>1, <5>2
        <4> QED BY <4>1, <2>2, <1>1, FilesChange
      <3> QED BY <3>1, <3>2, <3>3, <2>2, FilesChange
    <2> QED BY <1>1, <2>1, <2>2 DEF Next
  <1>2. IInv /\ [Next]_vars =>
            [\A ver \in DOMAIN files :
                ver[2] = 0 /\ (\A e \in Editors : ~Fills(e, ver)) =>
                    ver \in DOMAIN files' /\ files'[ver] = files[ver]]_vars
    BY <1>1
  <1> QED BY <1>2, Invariance, PTL DEF Spec, ClosedMajorImmutable

(***************************************************************************)
(* What a step does to the paragraph files.                                *)
(***************************************************************************)
\* Only store opens and writes a paragraph file, and a worker that has opened one
\* writes it next unless it is killed.
LEMMA ParFilesChange ==
    ASSUME IInv, NEW e \in Editors, BeginRequest(e) \/ StartMethod(e) \/ Step(e)
    PROVE  \/ StoreOpen(e) \/ StoreWrite(e)
           \/ /\ UNCHANGED par_files /\ ed[e].pc # "store_write"
              /\ \A f \in Editors : f # e => ed'[f] = ed[f]
  <1>0. DOMAIN ed = Editors
    BY WorkerFacts
  <1>1. CASE BeginRequest(e)
    BY <1>0, <1>1 DEF BeginRequest, Goto, disk
  <1>2. CASE StartMethod(e)
    <2>1. UNCHANGED par_files /\ ed[e].pc # "store_write"
      BY <1>2 DEF StartMethod, StartAdd, StartInsert, StartDelete, StartModify, Start, disk
    <2>2. CASE StartAdd(e)
      BY <1>0, <2>1, <2>2 DEF StartAdd
    <2>4. CASE StartInsert(e)
      <3>1. PICK op \in Insertions, ref \in ParIds,
                 p \in ParIds \ Ids(LinesOf(ed[e].version)), h \in Hashes :
              ed' = [ed EXCEPT ![e].pc = "store_open", ![e].op = op, ![e].ref = ref,
                               ![e].par = p, ![e].hash = h,
                               ![e].old_ver = ed[e].version,
                               ![e].lines = LinesOf(ed[e].version)]
        BY <2>4, Zenon DEF StartInsert
      <3> QED BY <1>0, <2>1, <3>1
    <2>3. CASE StartDelete(e) \/ StartModify(e)
      <3>1. \A f \in Editors : f # e => ed'[f] = ed[f]
        BY <1>0, <2>3 DEF StartDelete, StartModify, Abort
      <3> QED BY <2>1, <3>1
    <2> QED BY <1>2, <2>2, <2>3, <2>4 DEF StartMethod
  <1>3. CASE ListMajor(e) \/ ListMinor(e) \/ EndRequest(e) \/ GetLatest(e)
    BY <1>0, <1>3 DEF ListMajor, ListMinor, EndRequest, GetLatest, Abort, disk
  <1>4. CASE SetLatest(e) \/ Unlink(e) \/ Symlink(e)
    BY <1>0, <1>4 DEF SetLatest, Unlink, Symlink, Goto, Abort, disk
  <1>5. CASE IncrementVersion(e) \/ Probe(e) \/ Mkdir(e) \/ CopyOpen(e) \/ CopyWrite(e)
    BY <1>0, <1>5 DEF IncrementVersion, Probe, Mkdir, CopyOpen, CopyWrite, Goto, Abort, disk
  <1>6. CASE LogRead(e) \/ LogOpen(e) \/ LogWrite(e)
    BY <1>0, <1>6 DEF LogRead, LogOpen, LogWrite, Goto, disk
  <1>7. CASE RecopyOpen(e) \/ RecopyWrite(e) \/ AppendLine(e)
    BY <1>0, <1>7 DEF RecopyOpen, RecopyWrite, AppendLine, Goto
  <1>8. CASE ReadLines(e) \/ WriteOpen(e) \/ WriteLines(e)
    BY <1>0, <1>8 DEF ReadLines, WriteOpen, WriteLines, Goto, disk
  <1> QED BY <1>1, <1>2, <1>3, <1>4, <1>5, <1>6, <1>7, <1>8 DEF Step

\* A paragraph file is empty only while a worker is writing it, unless one was killed.
THEOREM EmptyHasWriter == Spec => []EmptyParagraphHasWriter
  <1>1. Init => EmptyParagraphHasWriter
    BY DEF Init, EmptyParagraphHasWriter
  <1>2. ASSUME IInv, EmptyParagraphHasWriter, [Next]_vars
        PROVE  EmptyParagraphHasWriter'
    <2>1. CASE UNCHANGED vars \/ Rest
      BY <2>1, <1>2 DEF vars, Rest, EmptyParagraphHasWriter, LineOf
    <2>2. ASSUME NEW e \in Editors, Crash(e) PROVE EmptyParagraphHasWriter'
      <3>1. crashes' # 0
        BY <2>2, <1>2, WorkerFacts DEF Crash
      <3> QED BY <3>1 DEF EmptyParagraphHasWriter
    <2>3. ASSUME NEW e \in Editors, BeginRequest(e) \/ StartMethod(e) \/ Step(e)
          PROVE  EmptyParagraphHasWriter'
      <3> SUFFICES ASSUME crashes' = 0, NEW l \in Line, par_files'[l] = "empty"
                   PROVE  \E f \in Editors : ed'[f].pc = "store_write" /\ LineOf(f)' = l
        BY DEF EmptyParagraphHasWriter
      <3>0. par_files \in [Line -> {"none", "empty", "full"}] /\ ed[e] \in HeldWorker
            /\ DOMAIN ed = Editors
        BY <1>2, WorkerFacts DEF IInv, DiskOK
      <3>1. crashes = 0
        BY <2>3 DEF BeginRequest, StartMethod, StartAdd, StartInsert, StartDelete, StartModify,
                    Start, Step, ListMajor, ListMinor, EndRequest, GetLatest, StoreOpen,
                    StoreWrite, SetLatest, Unlink, Symlink, IncrementVersion, Probe, Mkdir,
                    CopyOpen, CopyWrite, LogRead, LogOpen, LogWrite, RecopyOpen, RecopyWrite,
                    AppendLine, ReadLines, WriteOpen, WriteLines
      <3>2. ASSUME par_files[l] = "empty"
            PROVE  \E f \in Editors : ed[f].pc = "store_write" /\ LineOf(f) = l
        BY <1>2, <3>1, <3>2 DEF EmptyParagraphHasWriter
      <3>3. CASE StoreOpen(e)
        <4>1. /\ ed'[e].pc = "store_write" /\ LineOf(e)' = LineOf(e)
              /\ \A f \in Editors : f # e => ed'[f] = ed[f] /\ LineOf(f)' = LineOf(f)
          BY <3>0, <3>3 DEF StoreOpen, Goto, LineOf, HeldWorker
        <4>2. CASE l = LineOf(e)
          BY <4>1, <4>2
        <4>3. CASE l # LineOf(e)
          <5>1. par_files[l] = "empty"
            BY <3>0, <3>3, <4>3 DEF StoreOpen
          <5> QED BY <5>1, <3>2, <3>3, <4>1 DEF StoreOpen
        <4> QED BY <4>2, <4>3
      <3>4. CASE StoreWrite(e)
        <4>1. \A f \in Editors : f # e => ed'[f] = ed[f] /\ LineOf(f)' = LineOf(f)
          BY <3>0, <3>4 DEF StoreWrite, Goto, LineOf
        <4>2. par_files[l] = "empty" /\ l # LineOf(e)
          BY <3>0, <3>4 DEF StoreWrite
        <4> QED BY <4>1, <4>2, <3>2
      <3>5. CASE /\ UNCHANGED par_files /\ ed[e].pc # "store_write"
                 /\ \A f \in Editors : f # e => ed'[f] = ed[f]
        BY <3>2, <3>5 DEF LineOf
      <3> QED BY <1>2, <2>3, <3>3, <3>4, <3>5, ParFilesChange
    <2> QED BY <1>2, <2>1, <2>2, <2>3 DEF Next
  <1> QED BY <1>1, <1>2, Invariance, PTL DEF Spec

=============================================================================
