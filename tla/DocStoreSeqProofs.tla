-------------------------- MODULE DocStoreSeqProofs --------------------------
(***************************************************************************)
(* Proofs about DocStoreSeq, for any paragraphs, any document without      *)
(* repeated ids and any number of methods: the files implement DocList.    *)
(***************************************************************************)
EXTENDS DocStoreSeqInv, DocStoreProofs, FiniteSetTheorems

(***************************************************************************)
(* The worker and the latest version.                                      *)
(***************************************************************************)
LEMMA TheWorker == Me \in Editors /\ Editors = {Me}
  BY OneWorker DEF Me

LEMMA MyFacts ==
    ASSUME IInv
    PROVE  /\ Me \in Editors /\ DOMAIN ed = Editors
           /\ me \in HeldWorker /\ TaskOK(me) /\ NumberOK(me)
           /\ majors \subseteq Nat \ {0}
           /\ DOMAIN files \subseteq Version /\ \A v \in DOMAIN files : v[1] \in majors
           /\ files = [v \in DOMAIN files |-> files[v]]
  BY TheWorker, WorkerFacts DEF IInv, DiskOK, me

LEMMA LargestIs ==
    ASSUME NEW names \in SUBSET Nat, NEW n \in names, \A m \in names : m =< n
    PROVE  LargestFileNumber(names) = n
  <1> DEFINE largest == {i \in names : \A j \in names : j <= i}
  <1>1. n \in largest
    OBVIOUS
  <1>2. (CHOOSE i \in largest : TRUE) \in largest
    BY <1>1
  <1>3. \A i \in largest : i = n
    <2> SUFFICES ASSUME NEW i \in largest PROVE i = n
      OBVIOUS
    <2>1. i \in Nat /\ n \in Nat /\ i =< n /\ n =< i
      OBVIOUS
    <2> QED BY <2>1
  <1> QED BY <1>1, <1>2, <1>3 DEF LargestFileNumber

\* LatestVersion finds the last version of the last directory.
LEMMA NewestIsLatest ==
    ASSUME IInv, NEW v, Newest(v)
    PROVE  v \in Version /\ LatestVersion = v /\ (v \notin DOMAIN files => v = <<0, 0>>)
  <1>0. /\ majors \subseteq Nat \ {0} /\ DOMAIN files \subseteq Version
        /\ \A u \in DOMAIN files : u[1] \in majors
    BY MyFacts
  <1>1. CASE majors = {}
    <2>1. v = <<0, 0>> /\ v \in Version
      BY <1>1 DEF Newest, Version
    <2>2. LargestFileNumber(majors) = 0
      BY <1>1 DEF LargestFileNumber
    <2>3. MinorsOf(0) = {}
      BY <1>0, <1>1 DEF MinorsOf
    <2>4. LargestFileNumber(MinorsOf(0)) = 0
      BY <2>3 DEF LargestFileNumber
    <2> QED BY <2>1, <2>2, <2>4 DEF LatestVersion
  <1>2. CASE majors # {}
    <2>1. /\ v \in DOMAIN files /\ v \in Version /\ v[1] \in majors
          /\ \A m \in majors : m =< v[1]
          /\ \A u \in DOMAIN files : u[1] = v[1] => u[2] =< v[2]
      BY <1>0, <1>2 DEF Newest
    <2>2. LargestFileNumber(majors) = v[1]
      BY <1>0, <2>1, LargestIs
    <2>3. LargestFileNumber(MinorsOf(v[1])) = v[2]
      <3>1. v[2] \in MinorsOf(v[1]) /\ \A n \in MinorsOf(v[1]) : n \in Nat /\ n =< v[2]
        BY <1>0, <2>1 DEF MinorsOf, Version
      <3> QED BY <3>1, LargestIs
    <2>4. v = <<v[1], v[2]>>
      BY <2>1 DEF Version
    <2> QED BY <2>1, <2>2, <2>3, <2>4 DEF LatestVersion
  <1> QED BY <1>1, <1>2

\* What the document is, in terms of what the worker knows.
ContentOK ==
    /\ me.pc \in InMethod => Content = Base
    /\ me.pc = "ready" => Content = LinesOf(me.version)

LEMMA ContentIs ==
    ASSUME IInv, LatestOK, NumbersOK
    PROVE  ContentOK
  <1>1. CASE me.pc \in {"ready", "increment_version", "probe", "mkdir"} \cup Storing
    <2>1. LatestVersion = me.version
      BY <1>1, NewestIsLatest DEF LatestOK
    <2>2. Content = LinesOf(me.version)
      BY <1>1, <2>1 DEF Content, me, Filling, Storing
    <2>3. me.pc \in {"increment_version", "probe", "mkdir"} => me.version = me.old_ver
      BY DEF NumbersOK, Versioned, Returned
    <2> QED BY <1>1, <2>2, <2>3 DEF ContentOK, Base, InMethod, Storing, Numbered, Filling
  <1>2. CASE me.pc \in Making
    <2>1. Content = LinesOf(me.old_ver)
      BY <1>2 DEF Content, me, Making
    <2> QED BY <1>2, <2>1 DEF ContentOK, Base, Making, Filling, Storing
  <1> QED BY <1>1, <1>2 DEF ContentOK, Making, InMethod, Numbered

(***************************************************************************)
(* Steps that leave the versions alone.                                    *)
(***************************************************************************)
SameCall == UNCHANGED <<me.op, me.par, me.hash, me.ref>>
SameNumbers ==
    UNCHANGED <<me.version, me.ids_loaded, me.par_ids, me.old_ver, me.from, me.new_ver>>
SameLocals == UNCHANGED <<me.src, me.lines, me.log>>

LEMMA GotoKeeps ==
    ASSUME IInv, NEW pc, Goto(Me, pc)
    PROVE  me'.pc = pc /\ SameCall /\ SameNumbers /\ SameLocals
  BY MyFacts DEF Goto, me, HeldWorker, SameCall, SameNumbers, SameLocals

LEMMA AbortForgets ==
    ASSUME IInv, Abort(Me)
    PROVE  me' = Idle
  BY MyFacts DEF Abort, me

\* Between two methods.
LEMMA IdlingStep ==
    ASSUME IInv, IInv', SeqInv, UNCHANGED disk, me.pc \in Idling, me'.pc \in Idling,
           me'.op = None, me'.par = None, me'.hash = None, ~me'.ids_loaded, LatestOK'
    PROVE  SeqInv' /\ UNCHANGED <<Content, Req>>
  <1>1. /\ me.pc \notin InMethod /\ me'.pc \notin InMethod
        /\ me.pc \notin Making /\ me'.pc \notin Making
        /\ me.pc \notin Storing /\ me'.pc \notin Storing
        /\ me.pc \notin Versioned /\ me'.pc \notin Versioned
        /\ me.op = None /\ me.par = None /\ me.hash = None
    BY DEF Idling, InMethod, Making, Storing, Numbered, Filling, Versioned, SeqInv, CallOK
  <1>2. UNCHANGED <<Content, Req>>
    BY <1>1 DEF Content, Req, me, disk, LatestVersion, MinorsOf, LinesOf, Making
  <1>3. NumbersOK' /\ LinesOK' /\ CallOK'
    BY <1>1 DEF NumbersOK, LinesOK, CallOK, Making, Filling, Versioned, Storing, InMethod, Numbered
  <1>4. LinksOK'
    BY <1>1, <1>2 DEF SeqInv, LinksOK, disk, Storing
  <1>5. LogOK' /\ FullOK' /\ UniqueIds'
    BY <1>1 DEF SeqInv, LogOK, Lists, Newest, FullOK, UniqueIds, disk, Making, Filling, Storing
  <1> QED BY <1>2, <1>3, <1>4, <1>5 DEF SeqInv

LEMMA BeginRequestSeq ==
    ASSUME IInv, IInv', SeqInv, BeginRequest(Me)
    PROVE  SeqInv' /\ UNCHANGED <<Content, Req>>
  <1>1. UNCHANGED disk /\ me.pc = "idle" /\ Goto(Me, "list_major")
    BY DEF BeginRequest, me
  <1>2. me'.pc = "list_major" /\ SameCall /\ SameNumbers /\ ~me.ids_loaded
    BY <1>1, GotoKeeps, MyFacts DEF NumberOK
  <1>3. LatestOK'
    BY <1>1, <1>2 DEF SeqInv, LatestOK, Newest, disk, Storing, Filling
  <1>4. me.op = None /\ me.par = None /\ me.hash = None
    BY <1>1 DEF SeqInv, CallOK, Idling
  <1> QED BY <1>1, <1>2, <1>3, <1>4, IdlingStep DEF Idling, SameCall, SameNumbers

LEMMA ListMajorSeq ==
    ASSUME IInv, IInv', SeqInv, ListMajor(Me)
    PROVE  SeqInv' /\ UNCHANGED <<Content, Req>>
  <1> DEFINE major == LargestFileNumber(majors)
  <1>1. UNCHANGED disk /\ me.pc = "list_major"
    BY DEF ListMajor, me
  <1>2. /\ me'.pc = IF major < 1 THEN "ready" ELSE "list_minor"
        /\ me'.version = <<major, 0>> /\ SameCall /\ UNCHANGED me.ids_loaded
    BY MyFacts DEF ListMajor, me, HeldWorker, SameCall
  <1>3. ~me.ids_loaded /\ me.op = None /\ me.par = None /\ me.hash = None
    BY <1>1, MyFacts DEF NumberOK, SeqInv, CallOK, Idling
  <1>4. PICK v : Newest(v)
    BY <1>1 DEF SeqInv, LatestOK
  <1>5. v \in Version /\ v[1] = major /\ (v \notin DOMAIN files => v = <<0, 0>>)
    BY <1>4, NewestIsLatest DEF LatestVersion
  <1>6. Newest(v)' /\ v \in (DOMAIN files \cup {<<0, 0>>})'
    BY <1>1, <1>4, <1>5 DEF Newest, disk
  <1>7. v \in DOMAIN files => v[1] > 0
    BY MyFacts
  <1>8. LatestOK'
    BY <1>2, <1>5, <1>6, <1>7 DEF LatestOK, Storing, Filling, Version
  <1>9. me'.pc \in Idling
    BY <1>2 DEF Idling
  <1> QED BY <1>1, <1>2, <1>3, <1>8, <1>9, IdlingStep DEF Idling, SameCall

LEMMA ListMinorSeq ==
    ASSUME IInv, IInv', SeqInv, ListMinor(Me)
    PROVE  SeqInv' /\ UNCHANGED <<Content, Req>>
  <1>1. UNCHANGED disk /\ me.pc = "list_minor"
    BY DEF ListMinor, me
  <1>2. /\ me'.pc = "ready" /\ SameCall /\ UNCHANGED me.ids_loaded
        /\ me'.version = <<me.version[1], LargestFileNumber(MinorsOf(me.version[1]))>>
    BY MyFacts DEF ListMinor, me, HeldWorker, SameCall
  <1>3. ~me.ids_loaded /\ me.op = None /\ me.par = None /\ me.hash = None
    BY <1>1, MyFacts DEF NumberOK, SeqInv, CallOK, Idling
  <1>4. PICK v : Newest(v) /\ v[1] = me.version[1]
    BY <1>1 DEF SeqInv, LatestOK
  <1>5. me'.version = v
    BY <1>2, <1>4, NewestIsLatest DEF LatestVersion
  <1>6. LatestOK'
    BY <1>1, <1>2, <1>4, <1>5 DEF LatestOK, Storing, Filling, Newest, disk
  <1> QED BY <1>1, <1>2, <1>3, <1>6, IdlingStep DEF Idling, SameCall

\* Of a request that ends, or whose method refuses its arguments, nothing is left.
LEMMA EndSeq ==
    ASSUME IInv, IInv', SeqInv, UNCHANGED disk, me.pc = "ready", Abort(Me)
    PROVE  SeqInv' /\ UNCHANGED <<Content, Req>>
  <1>1. me' = Idle
    BY AbortForgets
  <1>2. /\ me'.pc = "idle" /\ me'.op = None /\ me'.par = None /\ me'.hash = None
        /\ ~me'.ids_loaded
    BY <1>1 DEF Idle
  <1>3. Newest(me.version) /\ me.version \in DOMAIN files \cup {<<0, 0>>}
    BY NewestIsLatest DEF SeqInv, LatestOK
  <1>4. LatestOK'
    BY <1>2, <1>3 DEF LatestOK, Newest, disk, Storing, Filling
  <1> QED BY <1>2, <1>4, IdlingStep DEF Idling

(***************************************************************************)
(* A method is accepted.                                                   *)
(***************************************************************************)
Adding == {"add"} \cup Insertions

LEMMA AcceptStep ==
    ASSUME IInv, IInv', SeqInv, UNCHANGED disk, me.pc = "ready",
           me'.version = me.version,
           me'.ids_loaded => me'.par_ids = Ids(LinesOf(me.version)),
           Req' \in List!Request,
           me'.par \in Ids(LinesOf(me.version)) <=> me'.op \in {"modify", "delete"},
           \/ me'.op = "modify" /\ me'.pc = "get_latest"
           \/ me'.op = "delete" /\ me'.pc = "increment_version" /\ me'.old_ver = me.version
           \/ me'.op \in Adding /\ me'.pc = "store_open" /\ me'.old_ver = me.version,
           me'.op \in {"modify", "delete"} => me'.ref = me'.par,
           me'.op \in Insertions => me'.lines = LinesOf(me.version)
    PROVE  SeqInv' /\ List!Accept
  <1>1. /\ me'.pc \in InMethod /\ me'.pc \notin Making /\ me'.pc \notin Filling
        /\ me'.pc \notin {"unlink", "symlink", "probe", "mkdir", "copy_write"}
        /\ me'.pc \notin Returned /\ me'.pc \notin Idling
        /\ me'.pc \in Storing <=> me'.op # "delete"
        /\ me'.pc \in Versioned <=> me'.op = "delete"
    BY DEF Adding, Insertions, InMethod, Storing, Numbered, Making, Filling, Versioned,
           Returned, Idling
  <1>2. \A v : LinesOf(v)' = LinesOf(v)
    BY DEF LinesOf, disk
  <1>3. Newest(me.version) /\ Content = LinesOf(me.version)
    BY ContentIs DEF SeqInv, LatestOK, ContentOK
  <1>4. LatestOK'
    BY <1>1, <1>3 DEF LatestOK, Newest, disk, Storing, Adding
  <1>5. NumbersOK'
    BY <1>1, <1>2 DEF NumbersOK, Adding, Insertions
  <1>6. Base' = LinesOf(me.version)
    BY <1>1, <1>2 DEF Base, Adding, Insertions
  <1>7. Content' = LinesOf(me.version)
    <2>1. ContentOK'
      BY <1>4, <1>5, ContentIs, PTL
    <2> QED BY <1>1, <1>6, <2>1 DEF ContentOK
  <1>8. LinesOK'
    BY <1>1, <1>6 DEF LinesOK, Adding, Insertions, Filling
  <1>9. CallOK'
    BY <1>1, <1>6 DEF CallOK
  <1>10. LinksOK'
    <2>1. \A i \in DOMAIN Content : Content[i][1] \in ParIds
      BY <1>3, LinesOfType DEF Ids, IInv
    <2>2. \A i \in DOMAIN Content : current[Content[i][1]] = Content[i][2]
      BY <2>1, NoneAssumption DEF SeqInv, LinksOK, CallOK, Idling
    <2>3. UNCHANGED <<Content, current>>
      BY <1>3, <1>7 DEF disk
    <2>4. \A i \in DOMAIN Content' : current'[Content'[i][1]] = Content'[i][2]
      BY <2>2, <2>3
    <2>5. me'.pc \in Storing /\ me'.op = "modify" => me'.pc = "get_latest"
      BY DEF Adding, Insertions
    <2>6. me'.pc \in Versioned => me'.op \notin Writers
      BY <1>1 DEF Writers, Insertions
    <2> QED BY <1>1, <2>4, <2>5, <2>6 DEF LinksOK
  <1>11. LogOK'
    BY <1>1 DEF SeqInv, LogOK, Lists, Newest, disk, Making, Filling
  <1>12. FullOK' /\ UniqueIds'
    BY <1>1 DEF SeqInv, FullOK, UniqueIds, disk
  <1>13. Req = None
    BY DEF SeqInv, CallOK, Idling, Req, me
  <1>14. List!Accepted(Req')
    <2>1. List!IdsOf(Content) = Ids(LinesOf(me.version))
      BY <1>3 DEF List!IdsOf, Ids
    <2>0. Req' # None
      BY NoneIsNoRequest
    <2>2. Req'.op = me'.op /\ Req'.par = me'.par
      BY <2>0 DEF Req, me
    <2> QED
      BY <2>1, <2>2 DEF List!Accepted, List!Additions, Adding, Insertions
  <1>15. List!Accept
    BY <1>3, <1>7, <1>13, <1>14 DEF List!Accept
  <1> QED
    BY <1>4, <1>5, <1>8, <1>9, <1>10, <1>11, <1>12, <1>15 DEF SeqInv

LEMMA ReadyFacts ==
    ASSUME IInv, SeqInv, me.pc = "ready"
    PROVE  /\ me.hash = None /\ me.ref \in ParIds \cup {None}
           /\ LoadedIds(Me) = Ids(LinesOf(me.version))
  BY MyFacts DEF SeqInv, CallOK, NumbersOK, Idling, HeldWorker, LoadedIds, me

LEMMA StartAddSeq ==
    ASSUME IInv, IInv', SeqInv, StartAdd(Me)
    PROVE  SeqInv' /\ List!Accept
  <1>1. UNCHANGED disk /\ me.pc = "ready"
    BY DEF StartAdd, Start, me
  <1>2. PICK p \in ParIds \ Ids(LinesOf(me.version)), h \in Hashes :
            ed' = [ed EXCEPT ![Me].pc = "store_open", ![Me].op = "add",
                             ![Me].par = p, ![Me].hash = h, ![Me].old_ver = me.version]
    BY DEF StartAdd, me
  <1>3. /\ me'.pc = "store_open" /\ me'.op = "add" /\ me'.par = p /\ me'.hash = h
        /\ me'.old_ver = me.version
        /\ UNCHANGED <<me.version, me.ids_loaded, me.par_ids, me.ref>>
    BY <1>2, MyFacts DEF me, HeldWorker
  <1>4. Req' = [op |-> "add", par |-> p, hash |-> h, ref |-> me.ref]
    BY <1>3, NoneAssumption DEF Req, me, Ops, Writers
  <1>5. Req' \in List!Request
    <2>1. p \in ParIds /\ h \in Hashes /\ me.ref \in ParIds \cup {None}
      BY <1>1, ReadyFacts
    <2>2. Req' \in [op : List!Additions, par : ParIds, hash : Hashes, ref : ParIds \cup {None}]
      BY <1>4, <2>1 DEF List!Additions
    <2> QED BY <2>2 DEF List!Request
  <1>6. me'.ids_loaded => me'.par_ids = Ids(LinesOf(me.version))
    BY <1>3 DEF SeqInv, NumbersOK
  <1>7. me'.par \notin Ids(LinesOf(me.version)) /\ me'.op \in Adding
        /\ me'.op \notin {"modify", "delete"} \cup Insertions
    BY <1>2, <1>3 DEF Adding, Insertions
  <1> QED BY <1>1, <1>3, <1>5, <1>6, <1>7, AcceptStep

LEMMA StartInsertSeq ==
    ASSUME IInv, IInv', SeqInv, StartInsert(Me)
    PROVE  SeqInv' /\ List!Accept
  <1>1. UNCHANGED disk /\ me.pc = "ready"
    BY DEF StartInsert, Start, me
  <1>2. PICK op \in Insertions, ref \in ParIds,
             p \in ParIds \ Ids(LinesOf(me.version)), h \in Hashes :
            ed' = [ed EXCEPT ![Me].pc = "store_open", ![Me].op = op, ![Me].ref = ref,
                             ![Me].par = p, ![Me].hash = h,
                             ![Me].old_ver = me.version, ![Me].lines = LinesOf(me.version)]
    BY Zenon DEF StartInsert, me
  <1>3. /\ me'.pc = "store_open" /\ me'.op = op /\ me'.par = p /\ me'.hash = h
        /\ me'.ref = ref /\ me'.old_ver = me.version /\ me'.lines = LinesOf(me.version)
        /\ UNCHANGED <<me.version, me.ids_loaded, me.par_ids>>
    BY <1>2, MyFacts DEF me, HeldWorker
  <1>4. Req' = [op |-> op, par |-> p, hash |-> h, ref |-> ref]
    BY <1>3, NoneAssumption DEF Req, me, Ops, Writers
  <1>5. Req' \in List!Request
    <2>1. Req' \in [op : List!Additions, par : ParIds, hash : Hashes, ref : ParIds \cup {None}]
      BY <1>4 DEF List!Additions, Insertions
    <2> QED BY <2>1 DEF List!Request
  <1>6. me'.ids_loaded => me'.par_ids = Ids(LinesOf(me.version))
    BY <1>3 DEF SeqInv, NumbersOK
  <1>7. me'.par \notin Ids(LinesOf(me.version)) /\ me'.op \in Adding
        /\ me'.op \notin {"modify", "delete"}
    BY <1>2, <1>3 DEF Adding, Insertions
  <1> QED BY <1>1, <1>3, <1>5, <1>6, <1>7, AcceptStep

LEMMA StartDeleteSeq ==
    ASSUME IInv, IInv', SeqInv, StartDelete(Me)
    PROVE  SeqInv' /\ (List!Accept \/ UNCHANGED <<Content, Req>>)
  <1>1. UNCHANGED disk /\ me.pc = "ready"
    BY DEF StartDelete, Start, me
  <1>2. PICK p \in ParIds :
            IF p \in LoadedIds(Me)
            THEN ed' = [ed EXCEPT ![Me].pc = "increment_version", ![Me].op = "delete",
                                  ![Me].par = p, ![Me].ref = p, ![Me].old_ver = me.version]
            ELSE Abort(Me)
    BY Zenon DEF StartDelete, me
  <1>3. CASE p \notin LoadedIds(Me)
    BY <1>1, <1>2, <1>3, EndSeq
  <1>4. CASE p \in LoadedIds(Me)
    <2>1. /\ me'.pc = "increment_version" /\ me'.op = "delete" /\ me'.par = p
          /\ me'.ref = p /\ me'.old_ver = me.version
          /\ UNCHANGED <<me.hash, me.version, me.ids_loaded, me.par_ids>>
      BY <1>2, <1>4, MyFacts DEF me, HeldWorker
    <2>2. me.hash = None /\ p \in Ids(LinesOf(me.version))
      BY <1>1, <1>4, ReadyFacts
    <2>3. Req' = [op |-> "delete", par |-> p, hash |-> None, ref |-> p]
      BY <2>1, <2>2, NoneAssumption DEF Req, me, Ops
    <2>4. Req' \in List!Request
      BY <2>3 DEF List!Request
    <2>5. me'.ids_loaded => me'.par_ids = Ids(LinesOf(me.version))
      BY <2>1 DEF SeqInv, NumbersOK
    <2>6. me'.op \notin Insertions
      BY <2>1 DEF Insertions
    <2> QED BY <1>1, <2>1, <2>2, <2>4, <2>5, <2>6, AcceptStep
  <1> QED BY <1>3, <1>4

LEMMA StartModifySeq ==
    ASSUME IInv, IInv', SeqInv, StartModify(Me)
    PROVE  SeqInv' /\ (List!Accept \/ UNCHANGED <<Content, Req>>)
  <1>1. UNCHANGED disk /\ me.pc = "ready"
    BY DEF StartModify, Start, me
  <1>2. PICK p \in ParIds, h \in Hashes :
            IF p \in LoadedIds(Me)
            THEN ed' = [ed EXCEPT ![Me].pc = "get_latest", ![Me].op = "modify",
                                  ![Me].par = p, ![Me].ref = p, ![Me].hash = h,
                                  ![Me].ids_loaded = TRUE, ![Me].par_ids = LoadedIds(Me)]
            ELSE Abort(Me)
    BY Zenon DEF StartModify, me
  <1>3. CASE p \notin LoadedIds(Me)
    BY <1>1, <1>2, <1>3, EndSeq
  <1>4. CASE p \in LoadedIds(Me)
    <2>1. /\ me'.pc = "get_latest" /\ me'.op = "modify" /\ me'.par = p
          /\ me'.ref = p /\ me'.hash = h /\ UNCHANGED me.version
          /\ me'.par_ids = LoadedIds(Me)
      BY <1>2, <1>4, MyFacts DEF me, HeldWorker
    <2>2. p \in Ids(LinesOf(me.version)) /\ me'.par_ids = Ids(LinesOf(me.version))
      BY <1>1, <1>4, <2>1, ReadyFacts
    <2>3. Req' = [op |-> "modify", par |-> p, hash |-> h, ref |-> p]
      BY <2>1, NoneAssumption DEF Req, me, Ops, Writers
    <2>4. Req' \in List!Request
      BY <2>3 DEF List!Request
    <2>5. me'.op \notin Insertions
      BY <2>1 DEF Insertions
    <2> QED BY <1>1, <2>1, <2>2, <2>4, <2>5, AcceptStep
  <1> QED BY <1>3, <1>4

(***************************************************************************)
(* The steps of a method that leave the version files alone.               *)
(***************************************************************************)
\* What the document is stays what the method has read.
LEMMA MethodStep ==
    ASSUME IInv, IInv', SeqInv, me.pc \in InMethod, me'.pc \in InMethod, SameCall,
           me'.pc = "get_latest" => me'.op = "modify",
           Base' = Base, LatestOK', NumbersOK'
    PROVE  CallOK' /\ UNCHANGED <<Content, Req>>
  <1>1. ContentOK /\ ContentOK'
    <2>1. ContentOK
      BY ContentIs DEF SeqInv
    <2>2. ContentOK'
      BY ContentIs, PTL
    <2> QED BY <2>1, <2>2
  <1>2. Content' = Content
    BY <1>1 DEF ContentOK
  <1>3. Req' = Req
    BY DEF Req, me, SameCall
  <1>4. me'.pc \notin Idling
    BY DEF Idling, InMethod, Storing, Numbered, Filling
  <1>5. CallOK'
    BY <1>3, <1>4 DEF SeqInv, CallOK, SameCall
  <1> QED BY <1>2, <1>3, <1>5

\* Of those before the new version, the links apart.
LEMMA StoringStep ==
    ASSUME IInv, IInv', SeqInv, me.pc \in Storing, me'.pc \in Storing \ {"get_latest"},
           SameCall, SameNumbers, UNCHANGED me.lines, UNCHANGED <<majors, files, changelog>>
    PROVE  /\ LatestOK' /\ NumbersOK' /\ LinesOK' /\ CallOK' /\ LogOK' /\ UniqueIds'
           /\ UNCHANGED <<Content, Req, Base>>
  <1>2. /\ me.pc \in InMethod /\ me'.pc \in InMethod
        /\ me'.pc \notin Making /\ me'.pc \notin Filling /\ me'.pc \notin Versioned
        /\ me'.pc \notin Idling /\ me'.pc \notin {"probe", "mkdir", "copy_open"}
        /\ me'.pc \notin Returned
        /\ me.pc \notin {"copy_write", "log_read", "log_open", "log_write", "copy_open"}
        /\ me'.pc \notin {"copy_write", "log_read", "log_open", "log_write", "recopy_write",
                          "write_lines", "recopy_open", "append", "read_lines", "write_open"}
    BY DEF InMethod, Storing, Making, Filling, Versioned, Idling, Returned
  <1>3. \A v : LinesOf(v)' = LinesOf(v)
    BY DEF LinesOf
  <1>4. LatestOK'
    BY <1>2 DEF SeqInv, LatestOK, Newest, SameNumbers, Making, Storing
  <1>5. NumbersOK'
    BY <1>2, <1>3 DEF SeqInv, NumbersOK, SameNumbers, SameCall
  <1>6. Base' = Base
    BY <1>3 DEF Base, SameNumbers
  <1>7. CallOK' /\ UNCHANGED <<Content, Req>>
    BY <1>2, <1>4, <1>5, <1>6, MethodStep
  <1>8. LinesOK'
    BY <1>2, <1>6 DEF SeqInv, LinesOK, SameCall
  <1>9. LogOK' /\ UniqueIds'
    BY <1>2 DEF SeqInv, LogOK, Lists, Newest, UniqueIds
  <1> QED BY <1>4, <1>5, <1>6, <1>7, <1>8, <1>9

\* A paragraph file that nobody is writing is whole.
LEMMA Whole ==
    ASSUME IInv, SeqInv, me.pc # "store_write", NEW l \in Line, l \in Stored
    PROVE  par_files[l] = "full"
  BY DEF IInv, DiskOK, Stored, SeqInv, FullOK

\* What the document shows of the paragraph of a modification.
LEMMA ShownFacts ==
    ASSUME IInv, SeqInv, me.pc \in InMethod
    PROVE  /\ Content = Base /\ me.par \in ParIds
           /\ \A i \in DOMAIN Content : Content[i] \in Line
           /\ me.op = "modify" => \E i \in DOMAIN Base : Base[i][1] = me.par
           /\ me.op \in Writers => me.hash \in Hashes
  <1>1. Content = Base
    BY ContentIs DEF SeqInv, ContentOK
  <1>2. Base \in Seq(Line)
    BY LinesOfType, SeqMonotonic DEF Base, Stored, IInv
  <1>3. \A i \in DOMAIN Base : Base[i] \in Line
    BY <1>2, LenProperties, ElementOfSeq
  <1>4. me.op = "modify" => me.par \in Ids(Base)
    BY DEF SeqInv, CallOK
  <1>5. me.par \in ParIds /\ (me.op \in Writers => me.hash \in Hashes)
    BY MyFacts DEF TaskOK
  <1> QED BY <1>1, <1>3, <1>4, <1>5 DEF Ids

LEMMA GetLatestSeq ==
    ASSUME IInv, IInv', SeqInv, GetLatest(Me)
    PROVE  SeqInv' /\ UNCHANGED <<Content, Req>>
  <1> DEFINE src == current[me.par]
  <1>1. me.pc = "get_latest" /\ me.op = "modify" /\ UNCHANGED disk
        /\ me.pc \in InMethod /\ me.pc \in Storing
    BY DEF GetLatest, me, SeqInv, CallOK, InMethod, Storing
  <1>2. PICK i \in DOMAIN Base : Base[i][1] = me.par
    BY <1>1, ShownFacts
  <1>3. Content = Base /\ Base[i] \in Line
    BY <1>1, <1>2, ShownFacts
  <1>4. \A j \in DOMAIN Base : current[Base[j][1]] = Base[j][2]
    BY <1>1, <1>3 DEF SeqInv, LinksOK
  <1>5. src \in Hashes /\ src # None /\ me.par \in ParIds
    BY <1>1, <1>2, <1>3, <1>4, ShownFacts, NoneAssumption DEF Line
  <1>6. par_files[<<me.par, src>>] = "full"
    BY <1>1, <1>5, Whole DEF IInv, DiskOK, Line
  <1>7. ed' = [ed EXCEPT ![Me].src = src, ![Me].pc = "store_open"]
    BY <1>5, <1>6 DEF GetLatest, me
  <1>8. me'.pc = "store_open" /\ me'.src = src /\ SameCall /\ SameNumbers /\ UNCHANGED me.lines
    BY <1>7, MyFacts DEF me, HeldWorker, SameCall, SameNumbers
  <1>9. /\ LatestOK' /\ NumbersOK' /\ LinesOK' /\ CallOK' /\ LogOK' /\ UniqueIds'
        /\ UNCHANGED <<Content, Req, Base>>
    BY <1>1, <1>8, StoringStep DEF Storing, disk
  <1>10. LinksOK'
    BY <1>1, <1>3, <1>4, <1>8, <1>9 DEF LinksOK, disk, Storing, Versioned, Making, Filling, SameCall
  <1>11. FullOK'
    BY <1>1 DEF SeqInv, FullOK, disk
  <1> QED BY <1>9, <1>10, <1>11 DEF SeqInv

\* The store's steps leave the links alone.
LEMMA StoreStep ==
    ASSUME IInv, IInv', SeqInv, NEW pc, Goto(Me, pc), UNCHANGED <<majors, files, current, changelog>>,
           pc \in Storing \ {"get_latest"}, me.pc \in Storing \ {"get_latest", "unlink", "symlink"},
           pc = "unlink" => current[me.par] # None,
           pc = "symlink" => current[me.par] = None,
           FullOK'
    PROVE  SeqInv' /\ UNCHANGED <<Content, Req>>
  <1>1. me'.pc = pc /\ SameCall /\ SameNumbers /\ SameLocals
    BY GotoKeeps
  <1>2. /\ LatestOK' /\ NumbersOK' /\ LinesOK' /\ CallOK' /\ LogOK' /\ UniqueIds'
        /\ UNCHANGED <<Content, Req, Base>>
    BY <1>1, StoringStep DEF SameLocals
  <1>3. pc \notin Versioned
    BY DEF Storing, Versioned, Making, Filling
  <1>4. LinksOK'
    BY <1>1, <1>2, <1>3 DEF SeqInv, LinksOK, SameCall, SameLocals
  <1> QED BY <1>2, <1>4 DEF SeqInv

LEMMA StoreOpenSeq ==
    ASSUME IInv, IInv', SeqInv, StoreOpen(Me)
    PROVE  SeqInv' /\ UNCHANGED <<Content, Req>>
  <1>1. /\ me.pc = "store_open" /\ Goto(Me, "store_write")
        /\ par_files' = [par_files EXCEPT ![LineOf(Me)] = "empty"]
        /\ UNCHANGED <<majors, files, current, changelog>>
    BY DEF StoreOpen, me
  <1>2. me'.pc = "store_write" /\ LineOf(Me)' = LineOf(Me)
    BY <1>1, GotoKeeps DEF LineOf, SameCall, me
  <1>3. FullOK'
    BY <1>1, <1>2 DEF SeqInv, FullOK, IInv, DiskOK
  <1> QED BY <1>1, <1>3, StoreStep DEF Storing

LEMMA StoreWriteSeq ==
    ASSUME IInv, IInv', SeqInv, StoreWrite(Me)
    PROVE  SeqInv' /\ UNCHANGED <<Content, Req>>
  <1>1. /\ me.pc = "store_write" /\ Goto(Me, "set_latest")
        /\ par_files' = [par_files EXCEPT ![LineOf(Me)] = "full"]
        /\ UNCHANGED <<majors, files, current, changelog>>
    BY DEF StoreWrite, me
  <1>2. FullOK'
    BY <1>1 DEF SeqInv, FullOK, IInv, DiskOK
  <1> QED BY <1>1, <1>2, StoreStep DEF Storing

LEMMA SetLatestSeq ==
    ASSUME IInv, IInv', SeqInv, SetLatest(Me)
    PROVE  SeqInv' /\ UNCHANGED <<Content, Req>>
  <1> DEFINE pc == IF current[me.par] = None THEN "symlink" ELSE "unlink"
  <1>1. me.pc = "set_latest" /\ Goto(Me, pc) /\ UNCHANGED disk
    BY DEF SetLatest, me
  <1>2. FullOK'
    BY <1>1 DEF SeqInv, FullOK, disk
  <1>3. pc \in {"unlink", "symlink"}
    OBVIOUS
  <1> QED BY <1>1, <1>2, <1>3, StoreStep DEF Storing, disk

LEMMA UnlinkSeq ==
    ASSUME IInv, IInv', SeqInv, Unlink(Me)
    PROVE  SeqInv' /\ UNCHANGED <<Content, Req>>
  <1>1. /\ me.pc = "unlink" /\ current[me.par] # None
        /\ UNCHANGED <<majors, files, par_files, changelog>>
    BY DEF Unlink, me, SeqInv, LinksOK
  <1>2. Goto(Me, "symlink") /\ current' = [current EXCEPT ![me.par] = None]
    BY <1>1 DEF Unlink, me
  <1>3. me'.pc = "symlink" /\ SameCall /\ SameNumbers /\ SameLocals
    BY <1>2, GotoKeeps
  <1>4. /\ LatestOK' /\ NumbersOK' /\ LinesOK' /\ CallOK' /\ LogOK' /\ UniqueIds'
        /\ UNCHANGED <<Content, Req, Base>>
    BY <1>1, <1>3, StoringStep DEF SameLocals, Storing
  <1>5. me.par \in ParIds /\ current \in [ParIds -> Hashes \cup {None}]
        /\ \A i \in DOMAIN Content : Content[i] \in Line
    BY <1>1, ShownFacts DEF InMethod, Storing, IInv, DiskOK
  <1>6. LinksOK'
    BY <1>1, <1>2, <1>3, <1>4, <1>5
       DEF SeqInv, LinksOK, SameCall, SameLocals, Storing, Versioned, Making, Filling, Line
  <1>7. FullOK'
    BY <1>1 DEF SeqInv, FullOK
  <1> QED BY <1>4, <1>6, <1>7 DEF SeqInv

(***************************************************************************)
(* A method returns.                                                       *)
(***************************************************************************)
Unique(lines) == \A i, j \in DOMAIN lines : lines[i][1] = lines[j][1] => i = j

LEMMA LinesUnique ==
    ASSUME UniqueIds, NEW ver
    PROVE  Unique(LinesOf(ver))
  BY DEF UniqueIds, Unique, LinesOf

LEMMA PositionIs ==
    ASSUME Unique(Content), NEW i \in DOMAIN Content
    PROVE  List!PositionOf(Content[i][1]) = i
  BY DEF Unique, List!PositionOf

LEMMA ReturnStep ==
    ASSUME IInv, SeqInv, me.pc \in InMethod, ed' = [ed EXCEPT ![Me] = Ready(Me)],
           me.ids_loaded => me.par_ids = Ids(LinesOf(me.version)')
    PROVE  /\ NumbersOK' /\ LinesOK' /\ CallOK'
           /\ Content' = List!Result(Req) => List!Finish
           /\ me'.pc = "ready" /\ me'.version = me.version /\ me'.par = None
           /\ me'.pc \notin Versioned \cup Storing
  <1>1. me' = Ready(Me)
    BY MyFacts DEF me
  <1>2. /\ me'.pc = "ready" /\ me'.op = None /\ me'.par = None /\ me'.hash = None
        /\ me'.version = me.version /\ me'.ids_loaded = me.ids_loaded
        /\ me'.par_ids = me.par_ids
    <2>1. Idle \in HeldWorker /\ Idle.op = None /\ Idle.par = None /\ Idle.hash = None
      BY IdleFollows DEF Follows, Idle
    <2> QED BY <1>1, <2>1, MyFacts DEF Ready, HeldWorker, me
  <1>3. /\ me'.pc \notin Versioned /\ me'.pc \notin Storing /\ me'.pc \notin Making
        /\ me'.pc \notin InMethod /\ me'.pc \notin Returned
    BY <1>2 DEF Versioned, Storing, Making, Filling, InMethod, Numbered, Returned
  <1>4. NumbersOK' /\ LinesOK' /\ CallOK'
    BY <1>2, <1>3 DEF NumbersOK, LinesOK, CallOK, Idling
  <1>5. Req # None
    BY NoneIsNoRequest DEF SeqInv, CallOK
  <1>6. Req' = None
    BY <1>2 DEF Req, me
  <1> QED BY <1>2, <1>3, <1>4, <1>5, <1>6 DEF List!Finish

\* A modification to the text the paragraph has makes no version.
LEMMA SymlinkSame ==
    ASSUME IInv, IInv', SeqInv, Symlink(Me), me.op = "modify", me.src = me.hash
    PROVE  SeqInv' /\ List!Finish
  <1>1. /\ me.pc = "symlink" /\ current[me.par] = None /\ me.pc \in InMethod
        /\ UNCHANGED <<majors, files, par_files, changelog>>
    BY DEF Symlink, me, SeqInv, LinksOK, InMethod, Storing
  <1>2. /\ current' = [current EXCEPT ![me.par] = me.hash]
        /\ ed' = [ed EXCEPT ![Me] = Ready(Me)]
    BY <1>1 DEF Symlink, me
  <1>3. /\ Content = Base /\ me.par \in ParIds
        /\ \A i \in DOMAIN Content : Content[i] \in Line
        /\ Content = LinesOf(me.version)
    BY <1>1, ShownFacts DEF Base, Storing
  <1>4. PICK i \in DOMAIN Content : Content[i][1] = me.par
    BY <1>1, ShownFacts
  <1>5. Content[i] = <<me.par, me.hash>>
    <2>1. Content[i][2] = me.hash
      BY <1>1, <1>3, <1>4 DEF SeqInv, LinksOK, Storing
    <2> QED BY <1>3, <1>4, <2>1 DEF Line
  <1>6. List!Result(Req) = Content
    <2>1. Unique(Content)
      BY <1>3, LinesUnique DEF SeqInv
    <2>2. List!PositionOf(me.par) = i
      BY <1>4, <2>1, PositionIs
    <2>3. Req = [op |-> "modify", par |-> me.par, hash |-> me.hash, ref |-> me.ref]
      BY NoneAssumption DEF Req, me, Ops, Writers
    <2>4. [Content EXCEPT ![i] = <<me.par, me.hash>>] = Content
      <3>1. Content \in Seq(Stored)
        BY <1>3, LinesOfType DEF IInv
      <3> QED BY <1>5, <3>1
    <2> QED BY <2>2, <2>3, <2>4 DEF List!Result, List!ReplaceAt
  <1>7. me'.pc = "ready" /\ me'.version = me.version
    <2>1. me' = Ready(Me)
      BY <1>2, MyFacts DEF me
    <2> QED BY <2>1, IdleFollows DEF Ready, Follows, HeldWorker, me
  <1>8. LatestOK'
    BY <1>1, <1>7 DEF SeqInv, LatestOK, Newest, Storing, Filling
  <1>9. Content' = Content
    <2>1. Newest(me.version)'
      BY <1>1, <1>7, <1>8 DEF LatestOK
    <2>2. LatestVersion' = me.version
      <3>1. LatestVersion = me.version
        BY <1>1, NewestIsLatest DEF SeqInv, LatestOK, Storing
      <3> QED BY <1>1, <3>1 DEF LatestVersion, MinorsOf
    <2> QED BY <1>1, <1>3, <1>7, <2>2 DEF Content, me, LinesOf, Filling
  <1>10. me.ids_loaded => me.par_ids = Ids(LinesOf(me.version)')
    BY <1>1, <1>7 DEF SeqInv, NumbersOK, LinesOf
  <1>11. /\ NumbersOK' /\ LinesOK' /\ CallOK' /\ List!Finish
         /\ me'.par = None /\ me'.pc \notin Versioned \cup Storing
    BY <1>1, <1>2, <1>6, <1>8, <1>9, <1>10, ReturnStep
  <1>12. LinksOK'
    <2>1. ASSUME NEW j \in DOMAIN Content
          PROVE  current'[Content[j][1]] = Content[j][2]
      <3>1. current \in [ParIds -> Hashes \cup {None}] /\ Content[j] \in Line
        BY <1>3 DEF IInv, DiskOK
      <3>2. CASE Content[j][1] = me.par
        <4>1. Content[j][2] = me.hash
          BY <1>1, <1>3, <3>2 DEF SeqInv, LinksOK, Storing
        <4> QED BY <1>2, <1>3, <3>1, <3>2, <4>1
      <3>3. CASE Content[j][1] # me.par
        BY <1>2, <3>1, <3>3 DEF SeqInv, LinksOK
      <3> QED BY <3>2, <3>3
    <2> QED BY <1>7, <1>9, <1>11, <2>1 DEF LinksOK
  <1>13. LogOK' /\ FullOK' /\ UniqueIds'
    BY <1>1, <1>7 DEF SeqInv, LogOK, Lists, Newest, FullOK, UniqueIds
  <1> QED BY <1>8, <1>11, <1>12, <1>13 DEF SeqInv

\* Otherwise the method goes on to make a version.
LEMMA SymlinkOther ==
    ASSUME IInv, IInv', SeqInv, Symlink(Me), ~(me.op = "modify" /\ me.src = me.hash)
    PROVE  SeqInv' /\ UNCHANGED <<Content, Req>>
  <1>1. /\ me.pc = "symlink" /\ current[me.par] = None
        /\ me.pc \in InMethod /\ me.pc \in Storing
        /\ UNCHANGED <<majors, files, par_files, changelog>>
    BY DEF Symlink, me, SeqInv, LinksOK, InMethod, Storing
  <1>2. /\ current' = [current EXCEPT ![me.par] = me.hash]
        /\ ed' = [ed EXCEPT ![Me] = [me EXCEPT !.pc = "increment_version",
                                               !.old_ver = me.version]]
    BY <1>1 DEF Symlink, me
  <1>3. /\ me'.pc = "increment_version" /\ me'.old_ver = me.version /\ SameCall
        /\ UNCHANGED <<me.version, me.ids_loaded, me.par_ids, me.src, me.lines>>
    BY <1>2, MyFacts DEF me, HeldWorker, SameCall
  <1>4. /\ me'.pc \in InMethod /\ me'.pc \in Versioned
        /\ me'.pc \notin Storing /\ me'.pc \notin Making /\ me'.pc \notin Returned
        /\ me.pc \notin Making
    BY <1>1, <1>3 DEF InMethod, Versioned, Storing, Making, Filling, Returned
  <1>5. LatestOK'
    BY <1>1, <1>3, <1>4 DEF SeqInv, LatestOK, Newest, Making
  <1>6. \A v : LinesOf(v)' = LinesOf(v)
    BY <1>1 DEF LinesOf
  <1>7. NumbersOK'
    BY <1>3, <1>4, <1>6 DEF SeqInv, NumbersOK
  <1>8. Base' = Base
    BY <1>1, <1>3, <1>4, <1>6 DEF Base
  <1>9. CallOK' /\ UNCHANGED <<Content, Req>>
    BY <1>1, <1>3, <1>4, <1>5, <1>7, <1>8, MethodStep
  <1>10. LinesOK'
    BY <1>1, <1>3, <1>4, <1>8 DEF SeqInv, LinesOK, SameCall
  <1>11. LinksOK'
    <2>1. me.par \in ParIds /\ current \in [ParIds -> Hashes \cup {None}]
          /\ \A i \in DOMAIN Content : Content[i] \in Line
      BY <1>1, ShownFacts DEF IInv, DiskOK
    <2> QED
      BY <1>1, <1>2, <1>3, <1>4, <1>8, <1>9, <2>1 DEF SeqInv, LinksOK, SameCall, Line
  <1>12. LogOK' /\ FullOK' /\ UniqueIds'
    BY <1>1, <1>3 DEF SeqInv, LogOK, Lists, Newest, FullOK, UniqueIds
  <1> QED BY <1>5, <1>7, <1>9, <1>10, <1>11, <1>12 DEF SeqInv

LEMMA SymlinkSeq ==
    ASSUME IInv, IInv', SeqInv, Symlink(Me)
    PROVE  SeqInv' /\ (List!Finish \/ UNCHANGED <<Content, Req>>)
  BY SymlinkSame, SymlinkOther

(***************************************************************************)
(* A new version is numbered and made.                                     *)
(***************************************************************************)
Numbering == {"increment_version", "probe", "mkdir"}

\* The steps before the file of the version.
LEMMA NumberingStep ==
    ASSUME IInv, IInv', SeqInv, UNCHANGED <<files, par_files, current, changelog>>,
           me.pc \in Numbering, me'.pc \in {"probe", "mkdir", "copy_open"}, SameCall,
           UNCHANGED <<me.version, me.ids_loaded, me.par_ids, me.old_ver, me.src, me.lines>>,
           LatestOK', me'.pc # "copy_open" => majors' = majors,
           me'.new_ver = NextVersion(Me, me.old_ver), me'.from = me.old_ver,
           me'.pc = "copy_open" => me'.new_ver # me.old_ver
    PROVE  SeqInv' /\ UNCHANGED <<Content, Req>>
  <1>1. /\ me.pc \in InMethod /\ me.pc \in Versioned
        /\ me.pc \notin Storing /\ me.pc \notin Making /\ me.pc \notin Returned
        /\ me'.pc \in InMethod /\ me'.pc \in Versioned
        /\ me'.pc \notin Storing /\ me'.pc \notin Filling /\ me'.pc \notin Returned
        /\ me.pc \notin {"copy_write", "log_read", "log_open", "log_write", "copy_open"}
    BY DEF Numbering, InMethod, Versioned, Storing, Making, Filling, Returned, Numbered
  <1>2. \A v : LinesOf(v)' = LinesOf(v)
    BY DEF LinesOf
  <1>3. NumbersOK'
    <2>1. me.version = me.old_ver /\ Newest(me.version)
      BY <1>1 DEF SeqInv, NumbersOK, LatestOK, Numbering
    <2>2. me.old_ver \notin DOMAIN files => me.old_ver = <<0, 0>>
      BY <2>1, NewestIsLatest
    <2>3. NextVersion(Me, me.old_ver)' = NextVersion(Me, me.old_ver)
      BY DEF NextVersion, SameCall, me
    <2> QED BY <1>1, <1>2, <2>1, <2>2, <2>3 DEF SeqInv, NumbersOK, Making
  <1>4. Base' = Base
    BY <1>1, <1>2 DEF Base
  <1>5. CallOK' /\ UNCHANGED <<Content, Req>>
    BY <1>1, <1>3, <1>4, MethodStep
  <1>6. LinesOK'
    BY <1>1, <1>4 DEF SeqInv, LinesOK, SameCall, Filling
  <1>7. LinksOK'
    BY <1>1, <1>4, <1>5 DEF SeqInv, LinksOK, SameCall
  <1>8. LogOK'
    BY <1>1 DEF SeqInv, LogOK, Lists, Newest
  <1>9. FullOK' /\ UniqueIds'
    BY DEF SeqInv, FullOK, UniqueIds, Numbering
  <1> QED BY <1>3, <1>5, <1>6, <1>7, <1>8, <1>9 DEF SeqInv

LEMMA IncrementVersionSeq ==
    ASSUME IInv, IInv', SeqInv, IncrementVersion(Me)
    PROVE  SeqInv' /\ UNCHANGED <<Content, Req>>
  <1>1. UNCHANGED disk /\ me.pc = "increment_version"
        /\ ed' = [ed EXCEPT ![Me].from = me.version,
                            ![Me].new_ver = NextVersion(Me, me.version),
                            ![Me].pc = "probe"]
    BY DEF IncrementVersion, me
  <1>2. /\ me'.pc = "probe" /\ SameCall /\ me'.from = me.version
        /\ me'.new_ver = NextVersion(Me, me.version)
        /\ UNCHANGED <<me.version, me.ids_loaded, me.par_ids, me.old_ver, me.src, me.lines>>
    BY <1>1, MyFacts DEF me, HeldWorker, SameCall
  <1>3. me.version = me.old_ver
    BY <1>1 DEF SeqInv, NumbersOK, Versioned, Returned
  <1>4. LatestOK'
    BY <1>1, <1>2 DEF SeqInv, LatestOK, Newest, disk, Storing, Filling
  <1> QED BY <1>1, <1>2, <1>3, <1>4, NumberingStep DEF Numbering, disk

\* The number after the latest one is free, and comes after all others.
LEMMA NextIsFree ==
    ASSUME IInv, NEW v, Newest(v), me.op = "modify" => v[1] \in majors
    PROVE  LET new == NextVersion(Me, v) IN
           /\ new \notin DOMAIN files /\ new # v
           /\ me.op = "modify" => Coming(new)
           /\ me.op # "modify" => /\ \A m \in majors : m < new[1]
                                  /\ \A u \in DOMAIN files : u[1] # new[1]
  <1>1. /\ v \in Version /\ majors \subseteq Nat \ {0}
        /\ DOMAIN files \subseteq Version /\ \A u \in DOMAIN files : u[1] \in majors
    BY NewestIsLatest, MyFacts
  <1>2. v[1] \in Nat /\ v[2] \in Nat
    BY <1>1 DEF Version
  <1>3. CASE me.op = "modify"
    <2>1. NextVersion(Me, v) = <<v[1], v[2] + 1>>
      BY <1>3 DEF NextVersion, me
    <2>2. /\ \A m \in majors : m =< v[1]
          /\ \A u \in DOMAIN files : u[1] = v[1] => u[2] =< v[2]
      BY <1>1, <1>3 DEF Newest
    <2>3. \A u \in DOMAIN files : u[1] \in Nat /\ u[2] \in Nat
      BY <1>1 DEF Version
    <2>4. <<v[1], v[2] + 1>> # v
      BY <1>2
    <2>5. \A u \in DOMAIN files : u[1] = v[1] => u[2] < v[2] + 1
      BY <1>2, <2>2, <2>3
    <2>6. <<v[1], v[2] + 1>> \notin DOMAIN files
      BY <1>2, <2>5
    <2> QED BY <1>3, <2>1, <2>2, <2>4, <2>5, <2>6 DEF Coming
  <1>4. CASE me.op # "modify"
    <2>1. NextVersion(Me, v) = <<v[1] + 1, 0>>
      BY <1>4 DEF NextVersion, me
    <2>2. \A m \in majors : m \in Nat /\ m =< v[1]
      BY <1>1 DEF Newest
    <2>3. \A m \in majors : m < v[1] + 1
      BY <1>2, <2>2
    <2>4. \A u \in DOMAIN files : u[1] # v[1] + 1
      BY <1>1, <1>2, <2>2
    <2>5. <<v[1] + 1, 0>> # v
      BY <1>2
    <2>6. <<v[1] + 1, 0>> \notin DOMAIN files
      BY <2>4
    <2> QED BY <1>4, <2>1, <2>3, <2>4, <2>5, <2>6
  <1> QED BY <1>3, <1>4

LEMMA ProbeSeq ==
    ASSUME IInv, IInv', SeqInv, Probe(Me)
    PROVE  SeqInv' /\ UNCHANGED <<Content, Req>>
  <1>1. UNCHANGED disk /\ me.pc = "probe"
    BY DEF Probe, me
  <1>2. /\ me.version = me.old_ver /\ me.from = me.old_ver
        /\ me.new_ver = NextVersion(Me, me.old_ver) /\ Newest(me.version)
    BY <1>1 DEF SeqInv, NumbersOK, LatestOK, Versioned, Returned
  <1>3. me.op = "modify" => me.version[1] \in majors
    BY <1>1, MyFacts DEF NumberOK, InMethod, Numbered
  <1>4. /\ me.new_ver \notin DOMAIN files /\ me.new_ver # me.old_ver
        /\ me.op = "modify" => Coming(me.new_ver)
    BY <1>2, <1>3, NextIsFree
  <1>5. ed' = [ed EXCEPT ![Me] = [me EXCEPT !.pc = IF me.op = "modify" THEN "copy_open" ELSE "mkdir"]]
    BY <1>4 DEF Probe, me
  <1>6. /\ me'.pc = IF me.op = "modify" THEN "copy_open" ELSE "mkdir"
        /\ SameCall /\ SameNumbers /\ SameLocals
    BY <1>5, MyFacts DEF me, HeldWorker, SameCall, SameNumbers, SameLocals
  <1>7. LatestOK'
    BY <1>1, <1>2, <1>4, <1>6
       DEF LatestOK, Newest, Coming, disk, Storing, Filling, SameNumbers
  <1> QED
    BY <1>1, <1>2, <1>4, <1>6, <1>7, NumberingStep
       DEF Numbering, disk, SameNumbers, SameLocals

LEMMA MkdirSeq ==
    ASSUME IInv, IInv', SeqInv, Mkdir(Me)
    PROVE  SeqInv' /\ UNCHANGED <<Content, Req>>
  <1>1. UNCHANGED <<files, par_files, current, changelog>> /\ me.pc = "mkdir"
    BY DEF Mkdir, me
  <1>2. /\ me.version = me.old_ver /\ me.from = me.old_ver
        /\ me.new_ver = NextVersion(Me, me.old_ver) /\ Newest(me.version)
    BY <1>1 DEF SeqInv, NumbersOK, LatestOK, Versioned, Returned
  <1>3. me.op # "modify"
    BY <1>1, MyFacts DEF NumberOK
  <1>4. /\ me.new_ver \notin DOMAIN files /\ me.new_ver # me.old_ver
        /\ \A m \in majors : m < me.new_ver[1]
        /\ \A u \in DOMAIN files : u[1] # me.new_ver[1]
    BY <1>2, <1>3, NextIsFree
  <1>5. me.new_ver[1] \in Nat /\ majors \subseteq Nat
    BY MyFacts DEF HeldWorker, Version
  <1>6. me.new_ver[1] \notin majors
    BY <1>4, <1>5
  <1>7. Goto(Me, "copy_open") /\ majors' = majors \cup {me.new_ver[1]}
    BY <1>6 DEF Mkdir, me
  <1>8. me'.pc = "copy_open" /\ SameCall /\ SameNumbers /\ SameLocals
    BY <1>7, GotoKeeps
  <1>9. Coming(me.new_ver)'
    BY <1>1, <1>4, <1>5, <1>7, <1>8 DEF Coming, SameNumbers
  <1>10. LatestOK'
    BY <1>8, <1>9 DEF LatestOK, Storing, Filling
  <1> QED
    BY <1>1, <1>2, <1>4, <1>8, <1>10, NumberingStep
       DEF Numbering, SameNumbers, SameLocals

\* The file of the version is opened.
LEMMA CopyOpenSeq ==
    ASSUME IInv, IInv', SeqInv, CopyOpen(Me)
    PROVE  SeqInv' /\ UNCHANGED <<Content, Req>>
  <1>1. UNCHANGED <<majors, par_files, current, changelog>> /\ me.pc = "copy_open"
        /\ me.pc \in InMethod /\ me.pc \in Making /\ me.pc \in Versioned
        /\ me.pc \notin Storing /\ me.pc \notin Returned
    BY DEF CopyOpen, me, InMethod, Numbered, Making, Versioned, Storing, Filling, Returned
  <1>2. /\ Coming(me.new_ver) /\ me.from = me.old_ver /\ me.version = me.old_ver
        /\ me.new_ver # me.old_ver
        /\ (me.old_ver \notin DOMAIN files => me.old_ver = <<0, 0>>)
    BY <1>1 DEF SeqInv, LatestOK, NumbersOK, Returned
  <1>3. /\ majors \subseteq Nat \ {0} /\ \A u \in DOMAIN files : u \in Version /\ u[1] \in majors
        /\ me.new_ver \in Version /\ me.new_ver[1] \in majors
    BY <1>1, MyFacts DEF NumberOK, HeldWorker
  <1>4. me.old_ver \in DOMAIN files => me.old_ver[1] > 0
    <2>1. me.old_ver \in DOMAIN files => me.old_ver[1] \in Nat \ {0}
      BY <1>3
    <2> QED BY <2>1
  <1>5. /\ SetFile(me.new_ver, <<>>)
        /\ Goto(Me, IF me.old_ver \in DOMAIN files THEN "copy_write" ELSE "log_read")
    BY <1>2, <1>4 DEF CopyOpen, me
  <1>6. /\ me'.pc = IF me.old_ver \in DOMAIN files THEN "copy_write" ELSE "log_read"
        /\ SameCall /\ SameNumbers /\ SameLocals
    BY <1>5, GotoKeeps
  <1>7. /\ me'.pc \in InMethod /\ me'.pc \in Making /\ me'.pc \in Versioned
        /\ me'.pc \in Filling /\ me'.pc \notin Storing /\ me'.pc \notin Returned
    BY <1>6 DEF InMethod, Numbered, Making, Versioned, Storing, Filling, Returned
  <1>8. /\ DOMAIN files' = DOMAIN files \cup {me.new_ver} /\ files'[me.new_ver] = <<>>
        /\ \A v \in DOMAIN files : files'[v] = files[v]
    BY <1>2, <1>5 DEF SetFile, Coming
  <1>9. LinesOf(me.old_ver)' = LinesOf(me.old_ver)
    BY <1>2, <1>6, <1>8 DEF LinesOf, SameNumbers
  <1>10. LatestOK'
    <2>1. Newest(me.new_ver)'
      BY <1>1, <1>2, <1>3, <1>6, <1>8 DEF Newest, Coming, SameNumbers, Version
    <2> QED BY <1>6, <2>1 DEF LatestOK, Storing
  <1>11. NumbersOK'
    BY <1>1, <1>2, <1>6, <1>7, <1>8, <1>9 DEF SeqInv, NumbersOK, SameNumbers
  <1>12. Base' = Base
    BY <1>1, <1>7, <1>9 DEF Base
  <1>13. CallOK' /\ UNCHANGED <<Content, Req>>
    BY <1>1, <1>6, <1>7, <1>10, <1>11, <1>12, MethodStep
  <1>14. LinesOK'
    <2>1. me'.pc = "log_read" => Base = <<>>
      BY <1>1, <1>6 DEF Base, LinesOf
    <2> QED
      BY <1>1, <1>6, <1>7, <1>8, <1>12, <2>1 DEF SeqInv, LinesOK, SameCall, SameLocals, SameNumbers
  <1>15. LinksOK'
    BY <1>1, <1>6, <1>7, <1>13 DEF SeqInv, LinksOK, SameCall
  <1>16. LogOK'
    <2>1. IsFiniteSet(DOMAIN files) /\ Lists(changelog, DOMAIN files)
      BY <1>1 DEF SeqInv, LogOK
    <2>2. IsFiniteSet(DOMAIN files')
      BY <1>8, <2>1, FS_AddElement
    <2>3. (DOMAIN files \ {me.new_ver})' = DOMAIN files
      BY <1>2, <1>6, <1>8 DEF Coming, SameNumbers
    <2> QED BY <1>1, <1>6, <2>1, <2>2, <2>3 DEF LogOK, Lists
  <1>17. FullOK'
    BY <1>1 DEF SeqInv, FullOK
  <1>18. UniqueIds'
    BY <1>8 DEF SeqInv, UniqueIds
  <1> QED BY <1>10, <1>11, <1>13, <1>14, <1>15, <1>16, <1>17, <1>18 DEF SeqInv

(***************************************************************************)
(* A new version is filled.                                                *)
(***************************************************************************)
LEMMA FillingFacts ==
    ASSUME IInv, SeqInv, me.pc \in Filling
    PROVE  /\ me.pc \in InMethod /\ me.pc \in Making /\ me.pc \in Versioned
           /\ me.pc \notin Storing /\ me.pc \notin Idling
           /\ Newest(me.new_ver) /\ me.new_ver \in DOMAIN files
           /\ me.new_ver # me.old_ver /\ Base = LinesOf(me.old_ver) /\ Unique(Base)
           /\ Base \in Seq(Stored)
  <1>1. /\ me.pc \in InMethod /\ me.pc \in Making /\ me.pc \in Versioned
        /\ me.pc \notin Storing /\ me.pc \notin Idling
    BY DEF InMethod, Numbered, Making, Versioned, Storing, Filling, Idling
  <1>2. Base = LinesOf(me.old_ver)
    BY <1>1 DEF Base
  <1>3. Unique(Base) /\ Base \in Seq(Stored)
    BY <1>2, LinesUnique, LinesOfType DEF SeqInv, IInv
  <1>4. Newest(me.new_ver) /\ me.new_ver # me.old_ver
    BY <1>1 DEF SeqInv, LatestOK, NumbersOK
  <1>5. me.new_ver \in DOMAIN files
    BY MyFacts DEF NumberOK
  <1> QED BY <1>1, <1>2, <1>3, <1>4, <1>5

\* Only the file of the new version is written.
LEMMA FillingStep ==
    ASSUME IInv, IInv', SeqInv, UNCHANGED <<majors, par_files, current>>,
           me.pc \in Filling, me'.pc \in Filling \ {"copy_write"}, SameCall,
           UNCHANGED <<me.old_ver, me.new_ver, me.src>>,
           me'.version = IF me'.pc \in Returned THEN me.new_ver ELSE me.old_ver,
           me'.ids_loaded => /\ me'.pc \notin Returned
                             /\ UNCHANGED <<me.version, me.ids_loaded, me.par_ids>>,
           DOMAIN files' = DOMAIN files,
           \A v \in DOMAIN files : v # me.new_ver => files'[v] = files[v],
           Unique(files'[me.new_ver])
    PROVE  /\ LatestOK' /\ NumbersOK' /\ CallOK' /\ LinksOK' /\ FullOK' /\ UniqueIds'
           /\ UNCHANGED <<Content, Req, Base>>
  <1>1. /\ me.pc \in InMethod /\ me.pc \in Making /\ me.pc \in Versioned
        /\ me.pc \notin Storing /\ me.pc \notin Idling
        /\ Newest(me.new_ver) /\ me.new_ver \in DOMAIN files
        /\ me.new_ver # me.old_ver /\ Base = LinesOf(me.old_ver)
    BY FillingFacts
  <1>2. /\ me'.pc \in InMethod /\ me'.pc \in Making /\ me'.pc \in Versioned
        /\ me'.pc \notin Storing /\ me'.pc \notin Idling
        /\ me'.pc \notin {"ready", "get_latest", "unlink", "symlink", "increment_version",
                          "probe", "mkdir", "copy_open", "copy_write"}
    BY DEF InMethod, Numbered, Making, Versioned, Storing, Filling, Idling
  <1>3. LinesOf(me.old_ver)' = LinesOf(me.old_ver)
    BY <1>1 DEF LinesOf
  <1>4. LatestOK'
    <2>1. Newest(me.new_ver)'
      BY <1>1 DEF Newest
    <2> QED BY <1>2, <2>1 DEF LatestOK, Idling
  <1>5. NumbersOK'
    <2>1. me'.ids_loaded => me.version = me.old_ver /\ me'.version = me.old_ver
                            /\ me'.par_ids = Ids(LinesOf(me.old_ver))
      BY <1>1 DEF SeqInv, NumbersOK
    <2>2. me'.ids_loaded => me'.par_ids = Ids(LinesOf(me.version))'
      BY <1>3, <2>1 DEF LinesOf
    <2>3. me'.old_ver \notin DOMAIN files' => me'.old_ver = <<0, 0>>
      BY <1>1 DEF SeqInv, NumbersOK
    <2> QED BY <1>1, <1>2, <2>2, <2>3 DEF NumbersOK
  <1>6. Base' = Base
    BY <1>1, <1>2, <1>3 DEF Base
  <1>7. CallOK' /\ UNCHANGED <<Content, Req>>
    BY <1>1, <1>2, <1>4, <1>5, <1>6, MethodStep
  <1>8. LinksOK'
    BY <1>1, <1>2, <1>7 DEF SeqInv, LinksOK, SameCall
  <1>9. FullOK'
    BY DEF SeqInv, FullOK, Filling
  <1>10. UniqueIds'
    <2>1. ASSUME NEW v \in DOMAIN files' PROVE Unique(files'[v])
      <3>1. CASE v = me.new_ver
        BY <3>1
      <3>2. CASE v # me.new_ver
        BY <2>1, <3>2 DEF SeqInv, UniqueIds, Unique
      <3> QED BY <3>1, <3>2
    <2> QED BY <2>1 DEF UniqueIds, Unique
  <1> QED BY <1>4, <1>5, <1>6, <1>7, <1>8, <1>9, <1>10

\* A file that has just been emptied gets what is written.
LEMMA OverwriteEmpty ==
    ASSUME NEW S, NEW new \in Seq(S)
    PROVE  Overwrite(<<>>, new) = new
  <1>1. Len(new) \in Nat /\ new = [k \in 1..Len(new) |-> new[k]] /\ Len(<<>>) = 0
    BY LenProperties
  <1> QED BY <1>1 DEF Overwrite

LEMMA SetFileIs ==
    ASSUME NEW ver \in DOMAIN files, NEW lines, SetFile(ver, lines)
    PROVE  /\ DOMAIN files' = DOMAIN files /\ files'[ver] = lines
           /\ \A v \in DOMAIN files : v # ver => files'[v] = files[v]
  BY DEF SetFile

LEMMA CopyWriteSeq ==
    ASSUME IInv, IInv', SeqInv, CopyWrite(Me)
    PROVE  SeqInv' /\ UNCHANGED <<Content, Req>>
  <1>1. /\ me.pc = "copy_write" /\ Goto(Me, "log_read") /\ me.pc \in Filling
        /\ UNCHANGED <<majors, par_files, current, changelog>>
        /\ WriteFile(Me, LinesOf(me.from))
    BY DEF CopyWrite, me, Filling
  <1>2. me'.pc = "log_read" /\ SameCall /\ SameNumbers /\ SameLocals
    BY <1>1, GotoKeeps
  <1>3. /\ me.new_ver \in DOMAIN files /\ Base = LinesOf(me.old_ver)
        /\ Unique(Base) /\ Base \in Seq(Stored) /\ me.pc \in Versioned
    BY <1>1, FillingFacts
  <1>4. /\ me.from = me.old_ver /\ LinesOf(me.new_ver) = <<>>
        /\ me.version = me.old_ver
    BY <1>1, <1>3 DEF SeqInv, NumbersOK, LinesOK, LinesOf, Returned
  <1>5. SetFile(me.new_ver, Base)
    BY <1>1, <1>3, <1>4, OverwriteEmpty DEF WriteFile, me
  <1>6. /\ DOMAIN files' = DOMAIN files /\ files'[me.new_ver] = Base
        /\ \A v \in DOMAIN files : v # me.new_ver => files'[v] = files[v]
    BY <1>3, <1>5, SetFileIs
  <1>7. me'.pc \in Filling \ {"copy_write"} /\ me'.pc \notin Returned
    BY <1>2 DEF Filling, Returned
  <1>8. /\ LatestOK' /\ NumbersOK' /\ CallOK' /\ LinksOK' /\ FullOK' /\ UniqueIds'
        /\ UNCHANGED <<Content, Req, Base>>
    BY <1>1, <1>2, <1>3, <1>4, <1>6, <1>7, FillingStep DEF SameNumbers, SameLocals
  <1>9. LinesOK'
    BY <1>1, <1>2, <1>3, <1>6, <1>8, FillingFacts DEF SeqInv, LinesOK, SameCall, SameLocals, SameNumbers
  <1>10. LogOK'
    <2>1. (DOMAIN files \ {me.new_ver})' = DOMAIN files \ {me.new_ver}
      BY <1>2, <1>6 DEF SameNumbers
    <2>2. Lists(changelog, DOMAIN files \ {me.new_ver}) /\ IsFiniteSet(DOMAIN files)
      BY <1>1 DEF SeqInv, LogOK
    <2> QED BY <1>1, <1>2, <1>6, <2>1, <2>2 DEF LogOK, Lists
  <1> QED BY <1>8, <1>9, <1>10 DEF SeqInv

\* The three steps that write the changelog.
LEMMA LogReadSeq ==
    ASSUME IInv, IInv', SeqInv, LogRead(Me)
    PROVE  SeqInv' /\ UNCHANGED <<Content, Req>>
  <1> DEFINE entry == [ver |-> me.new_ver, op |-> me.op, par |-> me.par]
  <1>1. /\ me.pc = "log_read" /\ me.pc \in Filling /\ UNCHANGED disk
        /\ ed' = [ed EXCEPT ![Me].log = <<entry>> \o changelog, ![Me].pc = "log_open"]
    BY DEF LogRead, me, Filling
  <1>2. /\ me'.pc = "log_open" /\ SameCall /\ SameNumbers /\ me'.log = <<entry>> \o changelog
        /\ UNCHANGED <<me.src, me.lines>>
    BY <1>1, MyFacts DEF me, HeldWorker, SameCall, SameNumbers
  <1>3. /\ me.new_ver \in DOMAIN files /\ me.pc \in Versioned /\ me.pc \in InMethod
        /\ Base = LinesOf(me.old_ver) /\ Unique(files[me.new_ver])
    BY <1>1, FillingFacts DEF SeqInv, UniqueIds, Unique
  <1>4. me.version = me.old_ver
    BY <1>1, <1>3 DEF SeqInv, NumbersOK, Returned
  <1>5. me'.pc \in Filling \ {"copy_write"} /\ me'.pc \notin Returned
    BY <1>2 DEF Filling, Returned
  <1>6. /\ LatestOK' /\ NumbersOK' /\ CallOK' /\ LinksOK' /\ FullOK' /\ UniqueIds'
        /\ UNCHANGED <<Content, Req, Base>>
    BY <1>1, <1>2, <1>3, <1>4, <1>5, FillingStep DEF SameNumbers, disk
  <1>7. LinesOK'
    BY <1>1, <1>2, <1>3, <1>6 DEF SeqInv, LinesOK, SameCall, SameNumbers, disk
  <1>8. LogOK'
    <2>1. /\ IsFiniteSet(DOMAIN files) /\ Lists(changelog, DOMAIN files \ {me.new_ver})
          /\ changelog \in Seq(Logged)
      BY <1>1 DEF SeqInv, LogOK, IInv, DiskOK
    <2>2. /\ Len(changelog) \in Nat /\ DOMAIN changelog = 1..Len(changelog)
          /\ Len(me'.log) = Len(changelog) + 1 /\ DOMAIN me'.log = 1..Len(changelog) + 1
          /\ me'.log[1] = entry
          /\ \A i \in DOMAIN changelog : me'.log[i + 1] = changelog[i]
          /\ \A j \in 2..Len(changelog) + 1 : me'.log[j] = changelog[j - 1]
      BY <1>2, <2>1, LenProperties
    <2>3. {me'.log[i].ver : i \in DOMAIN me'.log} = DOMAIN files
      <3>1. ASSUME NEW v \in DOMAIN files PROVE \E i \in DOMAIN me'.log : me'.log[i].ver = v
        <4>1. CASE v = me.new_ver
          BY <4>1, <2>2
        <4>2. CASE v # me.new_ver
          <5>1. PICK j \in DOMAIN changelog : changelog[j].ver = v
            BY <2>1, <4>2 DEF Lists
          <5>2. j + 1 \in DOMAIN me'.log /\ me'.log[j + 1].ver = v
            BY <2>2, <5>1
          <5> QED BY <5>2
        <4> QED BY <4>1, <4>2
      <3>2. ASSUME NEW i \in DOMAIN me'.log PROVE me'.log[i].ver \in DOMAIN files
        <4>1. CASE i = 1
          BY <4>1, <2>2, <1>3
        <4>2. CASE i # 1
          <5>1. i \in 2..Len(changelog) + 1 /\ i - 1 \in DOMAIN changelog
            BY <2>2, <4>2
          <5> QED BY <2>1, <2>2, <5>1 DEF Lists
        <4> QED BY <4>1, <4>2
      <3> QED BY <3>1, <3>2
    <2>4. Len(me'.log) = Cardinality(DOMAIN files)
      <3>1. Cardinality(DOMAIN files \ {me.new_ver}) = Cardinality(DOMAIN files) - 1
            /\ Cardinality(DOMAIN files) \in Nat
        BY <1>3, <2>1, FS_RemoveElement, FS_CardinalityType
      <3> QED BY <2>1, <2>2, <3>1 DEF Lists
    <2>5. me'.log # <<>>
      BY <2>2
    <2>6. me'.log[1].ver = me'.new_ver
      BY <1>2, <2>2 DEF SameNumbers
    <2> QED BY <1>1, <1>2, <2>1, <2>3, <2>4, <2>5, <2>6 DEF LogOK, Lists, disk
  <1> QED BY <1>6, <1>7, <1>8 DEF SeqInv

LEMMA LogOpenSeq ==
    ASSUME IInv, IInv', SeqInv, LogOpen(Me)
    PROVE  SeqInv' /\ UNCHANGED <<Content, Req>>
  <1>1. /\ me.pc = "log_open" /\ me.pc \in Filling /\ Goto(Me, "log_write")
        /\ UNCHANGED <<majors, files, par_files, current>> /\ changelog' = <<>>
    BY DEF LogOpen, me, Filling
  <1>2. me'.pc = "log_write" /\ SameCall /\ SameNumbers /\ SameLocals
    BY <1>1, GotoKeeps
  <1>3. /\ me.new_ver \in DOMAIN files /\ me.pc \in Versioned /\ me.pc \in InMethod
        /\ Base = LinesOf(me.old_ver) /\ Unique(files[me.new_ver])
    BY <1>1, FillingFacts DEF SeqInv, UniqueIds, Unique
  <1>4. me.version = me.old_ver
    BY <1>1, <1>3 DEF SeqInv, NumbersOK, Returned
  <1>5. me'.pc \in Filling \ {"copy_write"} /\ me'.pc \notin Returned
    BY <1>2 DEF Filling, Returned
  <1>6. /\ LatestOK' /\ NumbersOK' /\ CallOK' /\ LinksOK' /\ FullOK' /\ UniqueIds'
        /\ UNCHANGED <<Content, Req, Base>>
    BY <1>1, <1>2, <1>3, <1>4, <1>5, FillingStep DEF SameNumbers, SameLocals
  <1>7. LinesOK'
    BY <1>1, <1>2, <1>3, <1>6 DEF SeqInv, LinesOK, SameCall, SameNumbers, SameLocals
  <1>8. LogOK'
    BY <1>1, <1>2 DEF SeqInv, LogOK, Lists, SameNumbers, SameLocals
  <1> QED BY <1>6, <1>7, <1>8 DEF SeqInv

LEMMA LogWriteSeq ==
    ASSUME IInv, IInv', SeqInv, LogWrite(Me)
    PROVE  SeqInv' /\ UNCHANGED <<Content, Req>>
  <1> DEFINE pc == IF me.op = "add" THEN "recopy_open"
                   ELSE IF me.op \in Insertions THEN "write_open" ELSE "read_lines"
  <1>1. /\ me.pc = "log_write" /\ me.pc \in Filling
        /\ UNCHANGED <<majors, files, par_files, current>>
        /\ changelog' = Overwrite(changelog, me.log)
    BY DEF LogWrite, me, Filling
  <1>2. ed' = [ed EXCEPT ![Me].version = me.new_ver, ![Me].log = <<>>,
                         ![Me].ids_loaded = FALSE, ![Me].par_ids = {}, ![Me].pc = pc]
    BY DEF LogWrite, me
  <1>3. /\ me'.pc = pc /\ me'.version = me.new_ver /\ ~me'.ids_loaded /\ SameCall
        /\ UNCHANGED <<me.old_ver, me.new_ver, me.src, me.lines>>
    BY <1>2, MyFacts DEF me, HeldWorker, SameCall
  <1>4. /\ me.new_ver \in DOMAIN files /\ me.pc \in Versioned /\ me.pc \in InMethod
        /\ Base = LinesOf(me.old_ver) /\ Unique(files[me.new_ver]) /\ Newest(me.new_ver)
    BY <1>1, FillingFacts DEF SeqInv, UniqueIds, Unique
  <1>5. me.op \in Ops
    BY <1>4, MyFacts DEF TaskOK
  <1> HIDE DEF pc
  <1>6. pc \in {"recopy_open", "write_open", "read_lines"}
        /\ pc \in Filling \ {"copy_write"} /\ pc \in Returned
    BY DEF pc, Filling, Returned
  <1>7. /\ LatestOK' /\ NumbersOK' /\ CallOK' /\ LinksOK' /\ FullOK' /\ UniqueIds'
        /\ UNCHANGED <<Content, Req, Base>>
    BY <1>1, <1>3, <1>4, <1>6, FillingStep
  <1>8. LinesOK'
    <2>1. files[me.new_ver] = Base /\ (me.op \in Insertions => me.lines = Base)
      BY <1>1, <1>4 DEF SeqInv, LinesOK
    <2>2. pc = "write_open" => me.op \in Insertions
      BY DEF pc
    <2>3. pc = "read_lines" => me.op \in {"modify", "delete"}
      BY <1>5 DEF pc, Ops, Writers
    <2>4. "add" \notin Insertions
      BY DEF Insertions
    <2>5. me'.pc \notin {"write_lines", "copy_write", "recopy_write"}
      BY <1>3, <1>6
    <2> QED BY <1>1, <1>3, <1>7, <2>1, <2>2, <2>3, <2>4, <2>5 DEF LinesOK, SameCall
  <1>9. changelog' = me.log
    <2>1. changelog = <<>>
      BY <1>1 DEF SeqInv, LogOK
    <2>2. me.log \in Seq(Logged)
      BY MyFacts DEF HeldWorker
    <2> QED BY <1>1, <2>1, <2>2, OverwriteEmpty
  <1>10. LogOK'
    <2>1. /\ Lists(me.log, DOMAIN files) /\ me.log[1].ver = me.new_ver
          /\ IsFiniteSet(DOMAIN files)
      BY <1>1 DEF SeqInv, LogOK
    <2>2. Newest(me.new_ver)'
      BY <1>1, <1>3, <1>4 DEF Newest
    <2>3. me'.pc \notin {"copy_write", "log_read", "log_open", "log_write"}
      BY <1>3, <1>6
    <2> QED BY <1>1, <1>3, <1>9, <2>1, <2>2, <2>3 DEF LogOK, Lists
  <1> QED BY <1>7, <1>8, <1>10 DEF SeqInv

\* Steps of a method that has made its version and is not done.
LEMMA RefillStep ==
    ASSUME IInv, IInv', SeqInv, UNCHANGED <<majors, par_files, current, changelog>>,
           me.pc \in Returned, me'.pc \in Returned, SameCall,
           SameNumbers, UNCHANGED me.src,
           DOMAIN files' = DOMAIN files,
           \A v \in DOMAIN files : v # me.new_ver => files'[v] = files[v],
           Unique(files'[me.new_ver]), (Base' = Base => LinesOK')
    PROVE  SeqInv' /\ UNCHANGED <<Content, Req>>
  <1>1. /\ me.pc \in Filling /\ me'.pc \in Filling \ {"copy_write"}
        /\ me.pc \notin {"copy_write", "log_read", "log_open", "log_write", "copy_open"}
        /\ me'.pc \notin {"copy_write", "log_read", "log_open", "log_write", "copy_open"}
    BY DEF Filling, Returned
  <1>2. me.version = me.new_ver /\ ~me.ids_loaded
    BY <1>1, FillingFacts DEF SeqInv, NumbersOK
  <1>3. /\ LatestOK' /\ NumbersOK' /\ CallOK' /\ LinksOK' /\ FullOK' /\ UniqueIds'
        /\ UNCHANGED <<Content, Req, Base>>
    BY <1>1, <1>2, FillingStep DEF SameNumbers
  <1>4. LogOK'
    BY <1>1 DEF SeqInv, LogOK, Lists, Newest
  <1> QED BY <1>3, <1>4 DEF SeqInv

LEMMA RecopyOpenSeq ==
    ASSUME IInv, IInv', SeqInv, RecopyOpen(Me)
    PROVE  SeqInv' /\ UNCHANGED <<Content, Req>>
  <1>1. /\ me.pc = "recopy_open" /\ UNCHANGED <<majors, par_files, current, changelog>>
        /\ me.pc \in Returned /\ me.pc \in Filling
    BY DEF RecopyOpen, me, Returned, Filling
  <1>2. /\ me.new_ver \in DOMAIN files /\ Base = LinesOf(me.old_ver) /\ me.pc \in InMethod
    BY <1>1, FillingFacts
  <1>3. files[me.new_ver] = Base /\ Unique(files[me.new_ver])
    BY <1>1, <1>2, FillingFacts DEF SeqInv, LinesOK
  <1>4. CASE me.old_ver \in DOMAIN files
    <2>1. Goto(Me, "recopy_write") /\ SetFile(me.new_ver, <<>>)
      BY <1>4 DEF RecopyOpen, me
    <2>2. me'.pc = "recopy_write" /\ SameCall /\ SameNumbers /\ SameLocals
      BY <2>1, GotoKeeps
    <2>3. /\ DOMAIN files' = DOMAIN files /\ files'[me.new_ver] = <<>>
          /\ \A v \in DOMAIN files : v # me.new_ver => files'[v] = files[v]
      BY <1>2, <2>1, SetFileIs
    <2>4. Base' = Base => LinesOK'
      BY <1>1, <1>2, <2>2, <2>3 DEF SeqInv, LinesOK, SameCall, SameLocals, SameNumbers
    <2> QED BY <1>1, <2>2, <2>3, <2>4, RefillStep DEF Returned, Unique, SameLocals
  <1>5. CASE me.old_ver \notin DOMAIN files
    <2>1. Goto(Me, "append") /\ UNCHANGED files
      BY <1>5 DEF RecopyOpen, me
    <2>2. me'.pc = "append" /\ SameCall /\ SameNumbers /\ SameLocals
      BY <2>1, GotoKeeps
    <2>3. Base' = Base => LinesOK'
      BY <1>1, <1>2, <1>3, <2>1, <2>2 DEF SeqInv, LinesOK, SameCall, SameLocals, SameNumbers
    <2> QED BY <1>1, <1>3, <2>1, <2>2, <2>3, RefillStep DEF Returned, SameLocals
  <1> QED BY <1>4, <1>5

LEMMA RecopyWriteSeq ==
    ASSUME IInv, IInv', SeqInv, RecopyWrite(Me)
    PROVE  SeqInv' /\ UNCHANGED <<Content, Req>>
  <1>1. /\ me.pc = "recopy_write" /\ UNCHANGED <<majors, par_files, current, changelog>>
        /\ me.pc \in Returned /\ me.pc \in Filling /\ Goto(Me, "append")
        /\ WriteFile(Me, LinesOf(me.old_ver))
    BY DEF RecopyWrite, me, Returned, Filling
  <1>2. /\ me.new_ver \in DOMAIN files /\ Base = LinesOf(me.old_ver) /\ me.pc \in InMethod
        /\ Unique(Base) /\ Base \in Seq(Stored)
    BY <1>1, FillingFacts
  <1>3. LinesOf(me.new_ver) = <<>>
    BY <1>1, <1>2 DEF SeqInv, LinesOK, LinesOf
  <1>4. SetFile(me.new_ver, Base)
    BY <1>1, <1>2, <1>3, OverwriteEmpty DEF WriteFile, me
  <1>5. me'.pc = "append" /\ SameCall /\ SameNumbers /\ SameLocals
    BY <1>1, GotoKeeps
  <1>6. /\ DOMAIN files' = DOMAIN files /\ files'[me.new_ver] = Base
        /\ \A v \in DOMAIN files : v # me.new_ver => files'[v] = files[v]
    BY <1>2, <1>4, SetFileIs
  <1>7. Base' = Base => LinesOK'
    BY <1>1, <1>2, <1>5, <1>6 DEF SeqInv, LinesOK, SameCall, SameLocals, SameNumbers
  <1> QED BY <1>1, <1>2, <1>5, <1>6, <1>7, RefillStep DEF Returned, SameLocals

LEMMA ReadLinesSeq ==
    ASSUME IInv, IInv', SeqInv, ReadLines(Me)
    PROVE  SeqInv' /\ UNCHANGED <<Content, Req>>
  <1>1. /\ me.pc = "read_lines" /\ me.pc \in Returned /\ me.pc \in Filling /\ UNCHANGED disk
        /\ ed' = [ed EXCEPT ![Me].lines = LinesOf(me.old_ver), ![Me].pc = "write_open"]
    BY DEF ReadLines, me, Returned, Filling
  <1>2. /\ me.new_ver \in DOMAIN files /\ Base = LinesOf(me.old_ver) /\ me.pc \in InMethod
    BY <1>1, FillingFacts
  <1>3. /\ me'.pc = "write_open" /\ me'.lines = LinesOf(me.old_ver) /\ SameCall /\ SameNumbers
        /\ UNCHANGED me.src
    BY <1>1, MyFacts DEF me, HeldWorker, SameCall, SameNumbers
  <1>4. files[me.new_ver] = Base /\ Unique(files[me.new_ver]) /\ me.op \in {"modify", "delete"}
    BY <1>1, <1>2, FillingFacts DEF SeqInv, LinesOK
  <1>5. Base' = Base => LinesOK'
    BY <1>1, <1>2, <1>3, <1>4 DEF LinesOK, SameCall, SameNumbers, disk, Insertions
  <1> QED BY <1>1, <1>3, <1>4, <1>5, RefillStep DEF Returned, disk

LEMMA WriteOpenSeq ==
    ASSUME IInv, IInv', SeqInv, WriteOpen(Me)
    PROVE  SeqInv' /\ UNCHANGED <<Content, Req>>
  <1>1. /\ me.pc = "write_open" /\ UNCHANGED <<majors, par_files, current, changelog>>
        /\ me.pc \in Returned /\ me.pc \in Filling /\ Goto(Me, "write_lines")
        /\ SetFile(me.new_ver, <<>>)
    BY DEF WriteOpen, me, Returned, Filling
  <1>2. /\ me.new_ver \in DOMAIN files /\ me.pc \in InMethod
    BY <1>1, FillingFacts
  <1>3. me'.pc = "write_lines" /\ SameCall /\ SameNumbers /\ SameLocals
    BY <1>1, GotoKeeps
  <1>4. /\ DOMAIN files' = DOMAIN files /\ files'[me.new_ver] = <<>>
        /\ \A v \in DOMAIN files : v # me.new_ver => files'[v] = files[v]
    BY <1>1, <1>2, SetFileIs
  <1>5. Base' = Base => LinesOK'
    BY <1>1, <1>2, <1>3, <1>4 DEF SeqInv, LinesOK, SameCall, SameLocals, SameNumbers
  <1> QED BY <1>1, <1>3, <1>4, <1>5, RefillStep DEF Returned, Unique, SameLocals

(***************************************************************************)
(* The lines a method writes are those the list has after it.              *)
(***************************************************************************)
LEMMA InsertLineIs ==
    ASSUME NEW S, NEW lines \in Seq(S), NEW at \in 1..Len(lines) + 1, NEW line \in S
    PROVE  InsertLine(lines, at, line) = List!InsertAt(lines, at, line)
  <1> DEFINE before == SubSeq(lines, 1, at - 1)
             after == SubSeq(lines, at, Len(lines))
             both == before \o <<line>>
  <1>1. /\ Len(lines) \in Nat /\ at \in Int /\ at - 1 \in Int
        /\ \A i \in 1..Len(lines) : lines[i] \in S
    BY LenProperties, ElementOfSeq
  <1>2. /\ before \in Seq(S) /\ Len(before) = at - 1
        /\ \A i \in 1..at - 1 : before[i] = lines[i]
    <2>1. \A i \in 1..at - 1 : lines[i] \in S
      BY <1>1
    <2> HIDE DEF before
    <2>2. /\ before \in Seq(S) /\ Len(before) = IF 1 =< at - 1 THEN at - 1 - 1 + 1 ELSE 0
          /\ \A i \in 1..at - 1 - 1 + 1 : before[i] = lines[1 + i - 1]
      BY <1>1, <2>1, SubSeqProperties DEF before
    <2> QED BY <1>1, <2>2
  <1>3. /\ after \in Seq(S) /\ Len(after) = Len(lines) + 1 - at
        /\ \A i \in 1..Len(lines) + 1 - at : after[i] = lines[at + i - 1]
    <2>1. \A i \in at..Len(lines) : lines[i] \in S
      BY <1>1
    <2> HIDE DEF after
    <2>2. /\ after \in Seq(S)
          /\ Len(after) = IF at =< Len(lines) THEN Len(lines) - at + 1 ELSE 0
          /\ \A i \in 1..Len(lines) - at + 1 : after[i] = lines[at + i - 1]
      BY <1>1, <2>1, SubSeqProperties DEF after
    <2> QED BY <1>1, <2>2
  <1>4. <<line>> \in Seq(S) /\ Len(<<line>>) = 1 /\ <<line>>[1] = line
    OBVIOUS
  <1> HIDE DEF before, after
  <1>5. /\ both \in Seq(S) /\ Len(both) = at
        /\ \A i \in 1..at : both[i] = IF i =< at - 1 THEN lines[i] ELSE line
    <2>1. /\ both \in Seq(S) /\ Len(both) = Len(before) + 1
          /\ \A i \in 1..Len(before) + 1 :
                both[i] = IF i =< Len(before) THEN before[i] ELSE <<line>>[i - Len(before)]
      BY <1>2, <1>4, ConcatProperties
    <2> QED BY <1>1, <1>2, <2>1
  <1> HIDE DEF both
  <1>6. /\ both \o after \in Seq(S) /\ Len(both \o after) = Len(lines) + 1
        /\ \A i \in 1..Len(lines) + 1 :
              (both \o after)[i] = IF i < at THEN lines[i]
                                   ELSE IF i = at THEN line ELSE lines[i - 1]
    <2>1. /\ both \o after \in Seq(S) /\ Len(both \o after) = Len(both) + Len(after)
          /\ \A i \in 1..Len(both) + Len(after) :
                (both \o after)[i] = IF i =< Len(both) THEN both[i] ELSE after[i - Len(both)]
      BY <1>3, <1>5, ConcatProperties
    <2>2. Len(both) + Len(after) = Len(lines) + 1
      BY <1>1, <1>3, <1>5
    <2>3. ASSUME NEW i \in 1..Len(lines) + 1, i > at
          PROVE  after[i - at] = lines[i - 1]
      <3>1. i - at \in 1..Len(lines) + 1 - at /\ at + (i - at) - 1 = i - 1
        BY <1>1, <2>3
      <3> QED BY <1>3, <3>1
    <2>4. ASSUME NEW i \in 1..Len(lines) + 1
          PROVE  (both \o after)[i] = IF i < at THEN lines[i]
                                      ELSE IF i = at THEN line ELSE lines[i - 1]
      <3>1. CASE i =< at
        <4>1. i \in 1..at /\ (both \o after)[i] = both[i]
          BY <1>1, <1>5, <2>1, <2>2, <3>1
        <4> QED BY <1>5, <3>1, <4>1
      <3>2. CASE i > at
        <4>1. (both \o after)[i] = after[i - at]
          BY <1>1, <1>5, <2>1, <2>2, <3>2
        <4> QED BY <1>1, <2>3, <3>2, <4>1
      <3>3. i =< at \/ i > at
        BY <1>1
      <3> QED BY <3>1, <3>2, <3>3, Zenon
    <2> QED BY <2>1, <2>2, <2>4
  <1>7. InsertLine(lines, at, line) = both \o after
    <2>1. both \o after = [i \in 1..Len(lines) + 1 |-> (both \o after)[i]]
      BY <1>6, LenProperties
    <2> QED BY <1>6, <2>1 DEF InsertLine
  <1> QED BY <1>7 DEF List!InsertAt, before, after, both

LEMMA RemoveLineIs ==
    ASSUME NEW S, NEW lines \in Seq(S), NEW at \in 1..Len(lines)
    PROVE  RemoveLine(lines, at) = List!RemoveAt(lines, at)
  <1> DEFINE before == SubSeq(lines, 1, at - 1)
             after == SubSeq(lines, at + 1, Len(lines))
  <1>1. /\ Len(lines) \in Nat /\ at \in Int /\ at - 1 \in Int /\ at + 1 \in Int
        /\ \A i \in 1..Len(lines) : lines[i] \in S
    BY LenProperties, ElementOfSeq
  <1>2. /\ before \in Seq(S) /\ Len(before) = at - 1
        /\ \A i \in 1..at - 1 : before[i] = lines[i]
    <2>1. \A i \in 1..at - 1 : lines[i] \in S
      BY <1>1
    <2> HIDE DEF before
    <2>2. /\ before \in Seq(S) /\ Len(before) = IF 1 =< at - 1 THEN at - 1 - 1 + 1 ELSE 0
          /\ \A i \in 1..at - 1 - 1 + 1 : before[i] = lines[1 + i - 1]
      BY <1>1, <2>1, SubSeqProperties DEF before
    <2> QED BY <1>1, <2>2
  <1>3. /\ after \in Seq(S) /\ Len(after) = Len(lines) - at
        /\ \A i \in 1..Len(lines) - at : after[i] = lines[at + i]
    <2>1. \A i \in at + 1..Len(lines) : lines[i] \in S
      BY <1>1
    <2> HIDE DEF after
    <2>2. /\ after \in Seq(S)
          /\ Len(after) = IF at + 1 =< Len(lines) THEN Len(lines) - (at + 1) + 1 ELSE 0
          /\ \A i \in 1..Len(lines) - (at + 1) + 1 : after[i] = lines[at + 1 + i - 1]
      BY <1>1, <2>1, SubSeqProperties DEF after
    <2> QED BY <1>1, <2>2
  <1> HIDE DEF before, after
  <1>4. /\ before \o after \in Seq(S) /\ Len(before \o after) = Len(lines) - 1
        /\ \A i \in 1..Len(lines) - 1 :
              (before \o after)[i] = IF i < at THEN lines[i] ELSE lines[i + 1]
    <2>1. /\ before \o after \in Seq(S) /\ Len(before \o after) = Len(before) + Len(after)
          /\ \A i \in 1..Len(before) + Len(after) :
                (before \o after)[i] =
                    IF i =< Len(before) THEN before[i] ELSE after[i - Len(before)]
      BY <1>2, <1>3, ConcatProperties
    <2>2. Len(before) + Len(after) = Len(lines) - 1
      BY <1>1, <1>2, <1>3
    <2>3. ASSUME NEW i \in 1..Len(lines) - 1, i >= at
          PROVE  after[i - (at - 1)] = lines[i + 1]
      <3>1. i - (at - 1) \in 1..Len(lines) - at /\ at + (i - (at - 1)) = i + 1
        BY <1>1, <2>3
      <3> QED BY <1>3, <3>1
    <2>4. ASSUME NEW i \in 1..Len(lines) - 1
          PROVE  (before \o after)[i] = IF i < at THEN lines[i] ELSE lines[i + 1]
      <3>1. CASE i < at
        <4>1. i \in 1..at - 1 /\ (before \o after)[i] = before[i]
          BY <1>1, <1>2, <2>1, <2>2, <3>1
        <4> QED BY <1>2, <3>1, <4>1
      <3>2. CASE i >= at
        <4>1. (before \o after)[i] = after[i - (at - 1)]
          BY <1>1, <1>2, <2>1, <2>2, <3>2
        <4> QED BY <1>1, <2>3, <3>2, <4>1
      <3>3. i < at \/ i >= at
        BY <1>1
      <3> QED BY <3>1, <3>2, <3>3, Zenon
    <2> QED BY <2>1, <2>2, <2>4
  <1>5. RemoveLine(lines, at) = before \o after
    <2>1. before \o after = [i \in 1..Len(lines) - 1 |-> (before \o after)[i]]
      BY <1>4, LenProperties
    <2> QED BY <1>4, <2>1 DEF RemoveLine
  <1> QED BY <1>5 DEF List!RemoveAt, before, after

\* The lines of a new paragraph and of those that were there before.
LEMMA InsertLineUnique ==
    ASSUME NEW S, NEW lines \in Seq(S), Unique(lines), NEW at \in 1..Len(lines) + 1,
           NEW line, \A i \in DOMAIN lines : lines[i][1] # line[1]
    PROVE  LET new == InsertLine(lines, at, line) IN
           /\ Unique(new)
           /\ \A k \in DOMAIN new : new[k] = line \/ \E i \in DOMAIN lines : new[k] = lines[i]
  <1> DEFINE new == InsertLine(lines, at, line)
             old(k) == IF k < at THEN k ELSE k - 1
  <1>1. Len(lines) \in Nat /\ DOMAIN lines = 1..Len(lines)
    BY LenProperties
  <1>2. DOMAIN new = 1..Len(lines) + 1 /\ new[at] = line
    BY <1>1 DEF InsertLine
  <1>3. ASSUME NEW k \in DOMAIN new, k # at
        PROVE  old(k) \in DOMAIN lines /\ new[k] = lines[old(k)]
    <2>1. k \in 1..Len(lines) + 1
      BY <1>2
    <2> QED BY <1>1, <1>3, <2>1 DEF InsertLine
  <1> HIDE DEF new
  <1>4. ASSUME NEW k \in DOMAIN new, NEW l \in DOMAIN new, new[k][1] = new[l][1]
        PROVE  k = l
    <2>1. CASE k = at \/ l = at
      BY <1>2, <1>3, <1>4, <2>1
    <2>2. CASE k # at /\ l # at
      <3>1. old(k) = old(l)
        BY <1>3, <1>4, <2>2 DEF Unique
      <3> QED BY <1>1, <1>2, <2>2, <3>1
    <2> QED BY <2>1, <2>2
  <1>5. \A k \in DOMAIN new : new[k] = line \/ \E i \in DOMAIN lines : new[k] = lines[i]
    BY <1>2, <1>3
  <1> QED BY <1>4, <1>5 DEF new, Unique

LEMMA RemoveLineUnique ==
    ASSUME NEW S, NEW lines \in Seq(S), Unique(lines), NEW at \in 1..Len(lines)
    PROVE  LET new == RemoveLine(lines, at) IN
           /\ Unique(new)
           /\ \A k \in DOMAIN new : \E i \in DOMAIN lines : i # at /\ new[k] = lines[i]
  <1> DEFINE new == RemoveLine(lines, at)
             old(k) == IF k < at THEN k ELSE k + 1
  <1>1. Len(lines) \in Nat /\ DOMAIN lines = 1..Len(lines)
    BY LenProperties
  <1>2. DOMAIN new = 1..Len(lines) - 1
    BY <1>1 DEF RemoveLine
  <1>3. ASSUME NEW k \in DOMAIN new
        PROVE  old(k) \in DOMAIN lines /\ new[k] = lines[old(k)] /\ old(k) # at
    <2>1. k \in 1..Len(lines) - 1
      BY <1>2
    <2> QED BY <1>1, <2>1 DEF RemoveLine
  <1> HIDE DEF new
  <1>4. ASSUME NEW k \in DOMAIN new, NEW l \in DOMAIN new, new[k][1] = new[l][1]
        PROVE  k = l
    <2>1. old(k) = old(l)
      BY <1>3, <1>4 DEF Unique
    <2> QED BY <1>1, <1>2, <2>1
  <1> QED BY <1>3, <1>4 DEF new, Unique

\* Where ids are not repeated, the paragraph that is found is the paragraph.
LEMMA FindIs ==
    ASSUME NEW S, NEW lines \in Seq(S), Unique(lines), NEW i \in DOMAIN lines
    PROVE  find_par_id(lines, lines[i][1]) = i
  <1> DEFINE hits  == {j \in DOMAIN lines : lines[j][1] = lines[i][1]}
             first == {j \in hits : \A k \in hits : j =< k}
  <1>1. hits = {i}
    BY DEF Unique
  <1>2. i \in Int
    BY LenProperties
  <1>3. first = {i}
    BY <1>1, <1>2
  <1> QED BY <1>3 DEF find_par_id

LEMMA FindsNone ==
    ASSUME NEW lines, NEW par, par \notin Ids(lines)
    PROVE  find_par_id(lines, par) = 0
  <1>1. {j \in DOMAIN lines : lines[j][1] = par} = {}
    BY DEF Ids
  <1> QED BY <1>1 DEF find_par_id

\* The document after the method, with the line of the method in it unless it deletes.
LEMMA ResultFacts ==
    ASSUME IInv, SeqInv, me.pc \in Returned
    PROVE  /\ Unique(List!Result(Req))
           /\ \A k \in DOMAIN List!Result(Req) :
                 current[List!Result(Req)[k][1]] = List!Result(Req)[k][2]
           /\ me.op = "add" => List!Result(Req) = Append(Base, LineOf(Me))
           /\ me.op # "add" => List!Result(Req) = Edited(me.op, Base, me.ref, LineOf(Me))
  <1> DEFINE line == LineOf(Me)
             new == List!Result(Req)
             at == find_par_id(Base, me.ref)
  <1>1. me.pc \in Filling /\ me.pc \in InMethod /\ me.pc \in Versioned
    BY DEF Returned, Filling, InMethod, Numbered, Versioned, Making
  <1>2. Unique(Base) /\ Base \in Seq(Stored) /\ Content = Base /\ Base \in Seq(Line)
    BY <1>1, FillingFacts, ContentIs, SeqMonotonic DEF SeqInv, ContentOK, Stored
  <1>3. /\ me.op \in Ops /\ me.par \in ParIds /\ line = <<me.par, me.hash>>
        /\ me.op \in Writers => line \in Line /\ current[me.par] = me.hash
    BY <1>1, MyFacts DEF TaskOK, LineOf, Line, me, SeqInv, LinksOK
  <1>4. Req = [op |-> me.op, par |-> me.par, hash |-> me.hash, ref |-> me.ref]
    BY <1>3, NoneAssumption DEF Req, me
  <1>5. /\ me.par \in Ids(Base) <=> me.op \in {"modify", "delete"}
        /\ me.op \in {"modify", "delete"} => me.ref = me.par
    BY <1>1 DEF SeqInv, CallOK
  <1>6. \A i \in DOMAIN Base : Base[i][1] # me.par => current[Base[i][1]] = Base[i][2]
    BY <1>1, <1>2 DEF SeqInv, LinksOK
  <1>7. Len(Base) \in Nat /\ DOMAIN Base = 1..Len(Base)
    BY <1>2, LenProperties
  <1>8. CASE me.op = "add"
    <2>1. new = Append(Base, line)
      BY <1>2, <1>3, <1>4, <1>8 DEF List!Result
    <2>2. line \in Line /\ me.par \notin Ids(Base)
      BY <1>3, <1>5, <1>8 DEF Writers
    <2>3. /\ DOMAIN new = 1..Len(Base) + 1 /\ new[Len(Base) + 1] = line
          /\ \A i \in 1..Len(Base) : new[i] = Base[i]
      BY <1>2, <2>1, <2>2, AppendProperties, LenProperties
    <2>4. \A i \in 1..Len(Base) : Base[i][1] # me.par
      BY <1>7, <2>2 DEF Ids
    <2> HIDE DEF new
    <2>5. Unique(new)
      BY <1>2, <1>3, <1>7, <2>3, <2>4 DEF Unique
    <2>6. ASSUME NEW k \in DOMAIN new PROVE current[new[k][1]] = new[k][2]
      <3>1. CASE k = Len(Base) + 1
        BY <1>3, <1>8, <2>3, <3>1 DEF Writers
      <3>2. CASE k # Len(Base) + 1
        <4>1. k \in 1..Len(Base)
          BY <1>7, <2>3, <3>2
        <4> QED BY <1>6, <1>7, <2>3, <2>4, <4>1
      <3> QED BY <3>1, <3>2
    <2> QED BY <1>8, <2>1, <2>5, <2>6 DEF new
  <1>9. CASE me.op = "modify"
    <2>1. PICK i \in DOMAIN Base : Base[i][1] = me.par
      BY <1>5, <1>9 DEF Ids
    <2>2. at = i /\ i # 0
      BY <1>2, <1>5, <1>7, <1>9, <2>1, FindIs
    <2>3. List!PositionOf(me.par) = i
      BY <1>2, <2>1, PositionIs
    <2>4. new = [Base EXCEPT ![i] = line]
      BY <1>2, <1>3, <1>4, <1>9, <2>3 DEF List!Result, List!ReplaceAt
    <2>5. Edited(me.op, Base, me.ref, line) = [Base EXCEPT ![i] = line]
      BY <1>9, <2>2 DEF Edited, Insertions
    <2>6. /\ DOMAIN new = DOMAIN Base /\ new[i] = line
          /\ \A j \in DOMAIN Base : j # i => new[j] = Base[j]
      BY <2>1, <2>4
    <2>7. \A j \in DOMAIN Base : j # i => Base[j][1] # me.par
      BY <1>2, <2>1 DEF Unique
    <2> HIDE DEF new
    <2>8. Unique(new)
      BY <1>2, <1>3, <2>6, <2>7 DEF Unique
    <2>9. \A k \in DOMAIN new : current[new[k][1]] = new[k][2]
      BY <1>3, <1>6, <1>9, <2>6, <2>7 DEF Writers
    <2> QED BY <1>9, <2>4, <2>5, <2>8, <2>9 DEF new
  <1>10. CASE me.op = "delete"
    <2>1. PICK i \in DOMAIN Base : Base[i][1] = me.par
      BY <1>5, <1>10 DEF Ids
    <2>2. at = i /\ i # 0
      BY <1>2, <1>5, <1>7, <1>10, <2>1, FindIs
    <2>3. List!PositionOf(me.par) = i
      BY <1>2, <2>1, PositionIs
    <2>4. new = RemoveLine(Base, i)
      <3>1. new = List!RemoveAt(Base, i)
        BY <1>2, <1>4, <1>10, <2>3 DEF List!Result
      <3> QED BY <1>2, <1>7, <3>1, RemoveLineIs
    <2>5. Edited(me.op, Base, me.ref, line) = RemoveLine(Base, i)
      BY <1>10, <2>2 DEF Edited
    <2> HIDE DEF new
    <2>6. /\ Unique(new)
          /\ \A k \in DOMAIN new : \E j \in DOMAIN Base : j # i /\ new[k] = Base[j]
      BY <1>2, <1>7, <2>4, RemoveLineUnique
    <2>7. \A j \in DOMAIN Base : j # i => Base[j][1] # me.par
      BY <1>2, <2>1 DEF Unique
    <2>8. \A k \in DOMAIN new : current[new[k][1]] = new[k][2]
      BY <1>6, <2>6, <2>7
    <2> QED BY <1>10, <2>4, <2>5, <2>6, <2>8 DEF new
  <1>11. CASE me.op \in Insertions
    <2>1. me.op \notin {"add", "modify", "delete"} /\ line \in Line /\ me.par \notin Ids(Base)
          /\ current[me.par] = me.hash
      BY <1>3, <1>5, <1>11 DEF Insertions, Writers
    <2>2. new = List!Inserted(Req, line)
      BY <1>3, <1>4, <2>1 DEF List!Result
    <2>3. List!IdsOf(Content) = Ids(Base)
      BY <1>2 DEF List!IdsOf, Ids
    <2>4. \A i \in DOMAIN Base : Base[i][1] # me.par
      BY <2>1 DEF Ids
    <2>5. CASE me.ref \notin Ids(Base)
      <3>1. new = Base
        BY <1>2, <1>4, <2>2, <2>3, <2>5 DEF List!Inserted
      <3>2. Edited(me.op, Base, me.ref, line) = Base
        BY <2>5, FindsNone DEF Edited
      <3> QED BY <1>2, <1>6, <2>1, <2>4, <3>1, <3>2
    <2>6. CASE me.ref \in Ids(Base)
      <3> DEFINE place(i) == i + (IF me.op = "insert_after" THEN 1 ELSE 0)
      <3>1. PICK i \in DOMAIN Base : Base[i][1] = me.ref
        BY <2>6 DEF Ids
      <3>2. at = i /\ i # 0 /\ i \in 1..Len(Base)
        BY <1>2, <1>7, <3>1, FindIs
      <3>3. List!PositionOf(me.ref) = i
        BY <1>2, <3>1, PositionIs
      <3>4. place(i) \in 1..Len(Base) + 1
        BY <1>7, <3>2
      <3>5. new = InsertLine(Base, place(i), line)
        <4>1. new = List!InsertAt(Base, place(i), line)
          BY <1>2, <1>4, <2>2, <2>3, <2>6, <3>3 DEF List!Inserted
        <4> QED BY <1>2, <2>1, <3>4, <4>1, InsertLineIs
      <3>6. Edited(me.op, Base, me.ref, line) = InsertLine(Base, place(i), line)
        BY <1>7, <1>11, <3>2 DEF Edited, Insertions
      <3> HIDE DEF new, place
      <3>7. /\ Unique(new)
            /\ \A k \in DOMAIN new : new[k] = line \/ \E j \in DOMAIN Base : new[k] = Base[j]
        BY <1>2, <1>3, <2>4, <3>4, <3>5, InsertLineUnique
      <3>8. \A k \in DOMAIN new : current[new[k][1]] = new[k][2]
        BY <1>3, <1>6, <2>1, <2>4, <3>7
      <3> QED BY <2>1, <3>5, <3>6, <3>7, <3>8 DEF new
    <2> QED BY <2>5, <2>6
  <1> QED BY <1>3, <1>8, <1>9, <1>10, <1>11 DEF Ops, Writers

\* The last write of a method.
LEMMA LastStep ==
    ASSUME IInv, IInv', SeqInv, UNCHANGED <<majors, par_files, current, changelog>>,
           me.pc \in Returned, ed' = [ed EXCEPT ![Me] = Ready(Me)],
           SetFile(me.new_ver, List!Result(Req))
    PROVE  SeqInv' /\ List!Finish
  <1> DEFINE new == List!Result(Req)
  <1>1. /\ me.pc \in Filling /\ me.pc \in InMethod
        /\ me.pc \notin {"store_write", "copy_write", "log_read", "log_open", "log_write", "copy_open"}
    BY DEF Returned, Filling, InMethod, Numbered
  <1>2. /\ me.new_ver \in DOMAIN files /\ Newest(me.new_ver) /\ me.version = me.new_ver
        /\ ~me.ids_loaded
    BY <1>1, FillingFacts DEF SeqInv, NumbersOK
  <1>3. /\ DOMAIN files' = DOMAIN files /\ files'[me.new_ver] = new
        /\ \A v \in DOMAIN files : v # me.new_ver => files'[v] = files[v]
    BY <1>2, SetFileIs
  <1>4. Unique(new) /\ \A k \in DOMAIN new : current[new[k][1]] = new[k][2]
    BY ResultFacts
  <1> HIDE DEF new
  <1>5. /\ NumbersOK' /\ LinesOK' /\ CallOK'
        /\ Content' = new => List!Finish
        /\ me'.pc = "ready" /\ me'.version = me.version /\ me'.par = None
        /\ me'.pc \notin Versioned \cup Storing
    BY <1>1, <1>2, ReturnStep DEF new
  <1>6. LatestOK'
    <2>1. Newest(me.version)'
      BY <1>2, <1>3, <1>5 DEF Newest
    <2> QED BY <1>5, <2>1 DEF LatestOK, Filling
  <1>7. Content' = new
    <2>1. ContentOK'
      BY <1>5, <1>6, ContentIs, PTL
    <2> QED BY <1>2, <1>3, <1>5, <2>1 DEF ContentOK, LinesOf
  <1>8. LinksOK'
    BY <1>4, <1>5, <1>7 DEF LinksOK
  <1>9. LogOK'
    BY <1>1, <1>3, <1>5 DEF SeqInv, LogOK, Lists, Newest
  <1>10. FullOK'
    BY <1>1 DEF SeqInv, FullOK
  <1>11. UniqueIds'
    <2>1. ASSUME NEW v \in DOMAIN files' PROVE Unique(files'[v])
      <3>1. CASE v = me.new_ver
        BY <1>3, <1>4, <3>1
      <3>2. CASE v # me.new_ver
        BY <1>3, <2>1, <3>2 DEF SeqInv, UniqueIds, Unique
      <3> QED BY <3>1, <3>2
    <2> QED BY <2>1 DEF UniqueIds, Unique
  <1> QED BY <1>5, <1>6, <1>7, <1>8, <1>9, <1>10, <1>11 DEF SeqInv

LEMMA AppendLineSeq ==
    ASSUME IInv, IInv', SeqInv, AppendLine(Me)
    PROVE  SeqInv' /\ List!Finish
  <1>1. /\ me.pc = "append" /\ UNCHANGED <<majors, par_files, current, changelog>>
        /\ SetFile(me.new_ver, Append(LinesOf(me.new_ver), LineOf(Me)))
        /\ ed' = [ed EXCEPT ![Me] = Ready(Me)]
    BY DEF AppendLine, me
  <1>2. me.pc \in Returned /\ me.pc \in Filling /\ me.op = "add"
    BY <1>1, MyFacts DEF Returned, Filling, TaskOK
  <1>3. LinesOf(me.new_ver) = Base
    BY <1>1, <1>2, FillingFacts DEF SeqInv, LinesOK, LinesOf
  <1>4. SetFile(me.new_ver, List!Result(Req))
    BY <1>1, <1>2, <1>3, ResultFacts
  <1> QED BY <1>1, <1>2, <1>4, LastStep

LEMMA WriteLinesSeq ==
    ASSUME IInv, IInv', SeqInv, WriteLines(Me)
    PROVE  SeqInv' /\ List!Finish
  <1> DEFINE lines == Edited(me.op, Base, me.ref, LineOf(Me))
  <1>1. /\ me.pc = "write_lines" /\ UNCHANGED <<majors, par_files, current, changelog>>
        /\ WriteFile(Me, Edited(me.op, me.lines, me.ref, LineOf(Me)))
        /\ ed' = [ed EXCEPT ![Me] = Ready(Me)]
    BY DEF WriteLines, me
  <1>2. me.pc \in Returned /\ me.pc \in Filling
    BY <1>1 DEF Returned, Filling
  <1>3. /\ me.lines = Base /\ me.op # "add" /\ LinesOf(me.new_ver) = <<>>
    BY <1>1, <1>2, FillingFacts DEF SeqInv, LinesOK, LinesOf
  <1>4. lines \in Seq(Stored)
    <2>1. /\ me.pc \in InMethod \ {"get_latest", "store_open"} /\ Base \in Seq(Stored)
      BY <1>1, <1>2, FillingFacts
    <2>2. me.op \in Ops /\ (me.op # "delete" => LineOf(Me) \in Stored)
      BY <2>1, MyFacts DEF TaskOK, LineOf, me, Ops
    <2> QED BY <2>1, <2>2, EditedType
  <1> HIDE DEF lines
  <1>5. SetFile(me.new_ver, lines)
    BY <1>1, <1>3, <1>4, OverwriteEmpty DEF WriteFile, me, lines
  <1>6. lines = List!Result(Req)
    BY <1>2, <1>3, ResultFacts DEF lines
  <1> QED BY <1>1, <1>2, <1>5, <1>6, LastStep

(***************************************************************************)
(* The invariant, and the steps of DocList.                                *)
(***************************************************************************)
LEMMA StepSeq ==
    ASSUME IInv, SeqInv, [Next]_vars
    PROVE  SeqInv' /\ (List!Next \/ UNCHANGED <<Content, Req>>)
  <1>1. IInv'
    BY NextIInv
  <1>2. CASE UNCHANGED vars
    <2>1. UNCHANGED <<Content, Req>>
      BY <1>2 DEF vars, Content, Req, LatestVersion, MinorsOf, LinesOf
    <2>2. /\ LatestOK' /\ NumbersOK' /\ LinesOK' /\ LogOK' /\ FullOK' /\ UniqueIds'
      BY <1>2 DEF vars, SeqInv, LatestOK, NumbersOK, LinesOK, LogOK, FullOK, UniqueIds, Newest,
                  Coming, Lists, Base, LinesOf, NextVersion, LineOf, me
    <2>3. CallOK' /\ LinksOK'
      BY <1>2, <2>1 DEF vars, SeqInv, CallOK, LinksOK, Base, LinesOf, me
    <2> QED BY <2>1, <2>2, <2>3 DEF SeqInv
  <1>3. CASE Rest
    BY <1>2, <1>3 DEF Rest
  <1>4. ASSUME NEW e \in Editors, BeginRequest(e) \/ StartMethod(e) \/ Step(e) \/ Crash(e)
        PROVE  SeqInv' /\ (List!Next \/ UNCHANGED <<Content, Req>>)
    <2>1. e = Me
      BY TheWorker
    <2>2. CASE Crash(Me)
      BY <2>2, NoCrash, WorkerFacts, TheWorker DEF Crash
    <2>3. CASE BeginRequest(Me)
      BY <1>1, <2>3, BeginRequestSeq
    <2>4. CASE StartMethod(Me)
      BY <1>1, <2>4, StartAddSeq, StartInsertSeq, StartDeleteSeq, StartModifySeq
         DEF StartMethod, List!Next
    <2>5. CASE Step(Me)
      <3>1. CASE ListMajor(Me) \/ ListMinor(Me) \/ EndRequest(Me)
        <4>1. CASE EndRequest(Me)
          BY <1>1, <4>1, EndSeq DEF EndRequest, me
        <4> QED BY <1>1, <3>1, <4>1, ListMajorSeq, ListMinorSeq
      <3>2. CASE GetLatest(Me) \/ StoreOpen(Me) \/ StoreWrite(Me)
        BY <1>1, <3>2, GetLatestSeq, StoreOpenSeq, StoreWriteSeq
      <3>3. CASE SetLatest(Me) \/ Unlink(Me) \/ Symlink(Me)
        BY <1>1, <3>3, SetLatestSeq, UnlinkSeq, SymlinkSeq DEF List!Next
      <3>4. CASE IncrementVersion(Me) \/ Probe(Me) \/ Mkdir(Me)
        BY <1>1, <3>4, IncrementVersionSeq, ProbeSeq, MkdirSeq
      <3>5. CASE CopyOpen(Me) \/ CopyWrite(Me)
        BY <1>1, <3>5, CopyOpenSeq, CopyWriteSeq
      <3>6. CASE LogRead(Me) \/ LogOpen(Me) \/ LogWrite(Me)
        BY <1>1, <3>6, LogReadSeq, LogOpenSeq, LogWriteSeq
      <3>7. CASE RecopyOpen(Me) \/ RecopyWrite(Me) \/ AppendLine(Me)
        BY <1>1, <3>7, RecopyOpenSeq, RecopyWriteSeq, AppendLineSeq DEF List!Next
      <3>8. CASE ReadLines(Me) \/ WriteOpen(Me) \/ WriteLines(Me)
        BY <1>1, <3>8, ReadLinesSeq, WriteOpenSeq, WriteLinesSeq DEF List!Next
      <3> QED BY <2>5, <3>1, <3>2, <3>3, <3>4, <3>5, <3>6, <3>7, <3>8 DEF Step
    <2> QED BY <1>4, <2>1, <2>2, <2>3, <2>4, <2>5
  <1> QED BY <1>2, <1>3, <1>4 DEF Next

LEMMA InitSeq ==
    ASSUME Init PROVE SeqInv /\ List!Init
  <1> DEFINE n == Len(InitDoc)
             all == {<<m, 0>> : m \in 1..n}
             last == <<n, 0>>
  <1>1. /\ n \in Nat /\ DOMAIN InitDoc = 1..n /\ Unique(InitDoc)
        /\ \A i \in 1..n : InitDoc[i] \in Line /\ InitDoc[i][1] \in ParIds
    <2>1. \A i \in 1..n : InitDoc[i] \in Line
      BY InitDocAssumption, ElementOfSeq
    <2> QED BY <2>1, InitDocAssumption, UniqueAtFirst, LenProperties DEF Unique, Line
  <1>2. /\ DOMAIN files = all /\ majors = 1..n
        /\ \A v \in all : files[v] = SubSeq(InitDoc, 1, v[1])
    BY DEF Init
  <1>3. IInv /\ me = Idle
    BY InitIInv, TheWorker DEF Init, me
  <1>4. /\ me.pc = "idle" /\ me.op = None /\ me.par = None /\ me.hash = None
        /\ ~me.ids_loaded
    BY <1>3 DEF Idle
  <1>5. /\ me.pc \notin InMethod /\ me.pc \notin Making /\ me.pc \notin Storing
        /\ me.pc \notin Versioned
    BY <1>4 DEF InMethod, Making, Storing, Numbered, Filling, Versioned
  <1>6. Newest(last) /\ (n # 0 => last \in all) /\ (n = 0 => last = <<0, 0>>)
    <2>1. CASE n = 0
      <3>1. majors = {}
        BY <1>2, <2>1
      <3> QED BY <2>1, <3>1 DEF Newest
    <2>2. CASE n # 0
      <3>1. n \in 1..n /\ \A m \in 1..n : m =< n
        BY <1>1, <2>2
      <3>2. majors # {} /\ last \in all /\ last \in DOMAIN files
        BY <1>2, <3>1
      <3>3. \A u \in DOMAIN files : u[2] =< 0
        BY <1>2
      <3> QED BY <1>2, <2>2, <3>1, <3>2, <3>3 DEF Newest
    <2> QED BY <2>1, <2>2
  <1>7. LatestOK
    BY <1>2, <1>4, <1>6 DEF LatestOK, Storing, Filling
  <1>8. NumbersOK /\ LinesOK /\ CallOK
    BY <1>4, <1>5 DEF NumbersOK, LinesOK, CallOK, Making, Filling
  <1>9. Content = InitDoc
    <2>1. Content = LinesOf(last)
      BY <1>3, <1>4, <1>6, NewestIsLatest DEF Content, me, Filling
    <2>2. CASE n = 0
      <3>1. InitDoc = <<>>
        BY <2>2, EmptySeq, InitDocAssumption
      <3>2. last \notin DOMAIN files
        BY <1>2, <2>2
      <3> QED BY <2>1, <3>1, <3>2 DEF LinesOf
    <2>3. CASE n # 0
      <3>1. files[last] = SubSeq(InitDoc, 1, n) /\ last \in DOMAIN files
        BY <1>2, <1>6, <2>3
      <3> QED BY <2>1, <3>1, SubSeqFull, InitDocAssumption DEF LinesOf
    <2> QED BY <2>2, <2>3
  <1>10. LinksOK
    <2>1. ASSUME NEW i \in DOMAIN InitDoc
          PROVE  current[InitDoc[i][1]] = InitDoc[i][2]
      <3>1. find_par_id(InitDoc, InitDoc[i][1]) = i /\ i # 0
        BY <1>1, InitDocAssumption, FindIs
      <3> QED BY <1>1, <3>1 DEF Init
    <2> QED BY <1>5, <1>9, <2>1, <1>4 DEF LinksOK
  <1>11. LogOK
    <2>1. /\ Len(changelog) = n /\ DOMAIN changelog = 1..n
          /\ \A i \in 1..n : changelog[i].ver = <<n + 1 - i, 0>>
      <3>1. DOMAIN changelog = 1..n /\ \A i \in 1..n : changelog[i].ver = <<n + 1 - i, 0>>
        BY DEF Init
      <3>2. DOMAIN changelog = 1..Len(changelog) /\ Len(changelog) \in Nat
        BY <1>3, LenProperties DEF IInv, DiskOK
      <3> QED BY <1>1, <3>1, <3>2
    <2>2. {changelog[i].ver : i \in DOMAIN changelog} = all
      <3>1. ASSUME NEW m \in 1..n PROVE \E i \in 1..n : changelog[i].ver = <<m, 0>>
        <4>1. n + 1 - m \in 1..n /\ n + 1 - (n + 1 - m) = m
          BY <1>1
        <4> QED BY <2>1, <4>1
      <3>2. \A i \in 1..n : n + 1 - i \in 1..n
        BY <1>1
      <3> QED BY <2>1, <3>1, <3>2
    <2>3. IsFiniteSet(all) /\ Cardinality(all) = n
      <3> DEFINE f == [m \in 1..n |-> <<m, 0>>]
      <3>1. f \in Bijection(1..n, all)
        <4>1. f \in [1..n -> all]
          OBVIOUS
        <4>2. \A i, j \in 1..n : f[i] = f[j] => i = j
          OBVIOUS
        <4>3. \A v \in all : \E m \in 1..n : f[m] = v
          OBVIOUS
        <4> HIDE DEF f, all
        <4>4. f \in Injection(1..n, all)
          BY <4>1, <4>2 DEF Injection, IsInjective
        <4>5. f \in Surjection(1..n, all)
          BY <4>1, <4>3 DEF Surjection
        <4> QED BY <4>4, <4>5 DEF Bijection
      <3>2. ExistsBijection(1..n, all)
        BY <3>1 DEF ExistsBijection
      <3>3. IsFiniteSet(1..n) /\ Cardinality(1..n) = n
        BY <1>1, FS_Interval
      <3> QED BY <3>2, <3>3, FS_Bijection
    <2>4. changelog # <<>> => changelog[1].ver = last
      <3>1. changelog # <<>> => n # 0
        BY <1>3, <2>1, EmptySeq DEF IInv, DiskOK
      <3> QED BY <1>1, <2>1, <3>1
    <2> QED BY <1>2, <1>4, <1>6, <2>1, <2>2, <2>3, <2>4 DEF LogOK, Lists
  <1>12. FullOK
    BY DEF Init, FullOK
  <1>13. UniqueIds
    <2>1. ASSUME NEW v \in DOMAIN files PROVE Unique(files[v])
      <3>1. PICK m \in 1..n : v = <<m, 0>>
        BY <1>2, <2>1
      <3>2. files[v] = SubSeq(InitDoc, 1, m)
        BY <1>2, <3>1
      <3>3. /\ m \in Int /\ SubSeq(InitDoc, 1, m) \in Seq(Line)
            /\ Len(SubSeq(InitDoc, 1, m)) = m
            /\ \A i \in 1..m : SubSeq(InitDoc, 1, m)[i] = InitDoc[i]
        <4>1. m \in Int /\ \A i \in 1..m : InitDoc[i] \in Line
          BY <1>1
        <4>2. /\ SubSeq(InitDoc, 1, m) \in Seq(Line)
              /\ Len(SubSeq(InitDoc, 1, m)) = IF 1 =< m THEN m - 1 + 1 ELSE 0
              /\ \A i \in 1..m - 1 + 1 : SubSeq(InitDoc, 1, m)[i] = InitDoc[1 + i - 1]
          BY <4>1, SubSeqProperties
        <4> QED BY <1>1, <4>1, <4>2
      <3>4. DOMAIN files[v] = 1..m
        BY <3>2, <3>3, LenProperties
      <3> QED BY <1>1, <3>2, <3>3, <3>4 DEF Unique
    <2> QED BY <2>1 DEF UniqueIds, Unique
  <1>14. List!Init
    BY <1>4, <1>9 DEF List!Init, Req, me
  <1> QED BY <1>7, <1>8, <1>10, <1>11, <1>12, <1>13, <1>14 DEF SeqInv

\* SeqInv holds in every state of a single worker.
THEOREM SeqInvariance == Spec => []SeqInv
  <1>1. Init => SeqInv
    BY InitSeq
  <1>2. IInv /\ SeqInv /\ [Next]_vars => SeqInv'
    BY StepSeq
  <1> QED BY <1>1, <1>2, Invariance, PTL DEF Spec

\* The files implement DocList, its fairness apart: a step of a method accepts a call,
\* makes it take effect as a whole, or changes nothing the user can see.
THEOREM RefinesDocList == Spec => List!Init /\ [][List!Next]_(List!vars)
  <1>1. Init => List!Init
    BY InitSeq
  <1>2. IInv /\ SeqInv /\ [Next]_vars => [List!Next]_(List!vars)
    BY StepSeq DEF List!vars
  <1> QED BY <1>1, <1>2, Invariance, SeqInvariance, PTL DEF Spec

\* No version has two paragraphs of the same id.
THEOREM IdsAreUnique == Spec => []UniqueIds
  <1>1. SeqInv => UniqueIds
    BY DEF SeqInv
  <1> QED BY <1>1, SeqInvariance, PTL

\* Between two methods the changelog lists exactly the versions that have a file.
THEOREM HistoryIsLogged == Spec => []LogIsHistory
  <1>1. ASSUME IInv, SeqInv PROVE LogIsHistory
    <2> SUFFICES ASSUME AtRest
                 PROVE  /\ Lists(changelog, DOMAIN files)
                        /\ changelog # <<>> => changelog[1].ver = LatestVersion
      BY DEF LogIsHistory, Lists
    <2>1. /\ Lists(changelog, DOMAIN files)
          /\ changelog # <<>> => Newest(changelog[1].ver)
      BY <1>1 DEF AtRest, me, SeqInv, LogOK
    <2> QED BY <1>1, <2>1, NewestIsLatest
  <1> QED BY <1>1, Invariance, SeqInvariance, PTL

\* Between two methods the current link of a paragraph names the text it has.
THEOREM LinksAreShown == Spec => []CurrentIsShown
  <1>1. ASSUME IInv, SeqInv PROVE CurrentIsShown
    <2> SUFFICES ASSUME AtRest, NEW i \in DOMAIN Content
                 PROVE  current[Content[i][1]] = Content[i][2]
      BY DEF CurrentIsShown
    <2>1. me.par = None
      BY <1>1 DEF AtRest, me, SeqInv, CallOK, Idling
    <2>2. Content[i][1] \in ParIds
      <3>1. Content \in Seq(Stored)
        BY <1>1, LinesOfType DEF Content, IInv
      <3>2. Content[i] \in Line
        BY <3>1, LenProperties, ElementOfSeq DEF Stored
      <3> QED BY <3>2 DEF Line
    <2> QED BY <1>1, <2>1, <2>2, NoneAssumption DEF SeqInv, LinksOK
  <1> QED BY <1>1, Invariance, SeqInvariance, PTL

\* A method changes no version but the one it makes.
THEOREM OldVersionsStay == Spec => OldVersionsSurvive
  <1>1. ASSUME IInv, SeqInv, [Next]_vars, NEW ver \in DOMAIN files, ~Fills(Me, ver)
        PROVE  ver \in DOMAIN files' /\ files'[ver] = files[ver]
    <2>1. CASE UNCHANGED vars \/ Rest
      BY <2>1 DEF vars, Rest
    <2>2. ASSUME NEW e \in Editors, BeginRequest(e) \/ StartMethod(e) \/ Step(e) \/ Crash(e)
          PROVE  ver \in DOMAIN files' /\ files'[ver] = files[ver]
      <3>1. e = Me
        BY TheWorker
      <3>2. me.pc = "copy_open" => ver # me.new_ver
        BY <1>1 DEF SeqInv, LatestOK, Coming
      <3>3. me.pc \in Filling => ver # me.new_ver
        BY <1>1 DEF Fills, me
      <3> QED BY <2>2, <3>1, <3>2, <3>3, FilesChange DEF me
    <2> QED BY <1>1, <2>1, <2>2 DEF Next
  <1>2. IInv /\ SeqInv /\ [Next]_vars =>
            [\A ver \in DOMAIN files :
                ~Fills(Me, ver) => ver \in DOMAIN files' /\ files'[ver] = files[ver]]_vars
    BY <1>1
  <1> QED BY <1>2, Invariance, SeqInvariance, PTL DEF Spec, OldVersionsSurvive

\* When modify_paragraph returns, the paragraph has the given text.
THEOREM ModificationsStick == Spec => ModifyTakesEffect
  <1>1. ASSUME IInv, SeqInv, IInv', SeqInv', [Next]_vars, NEW e \in Editors,
               ed[e].op = "modify", ed'[e].pc = "ready"
        PROVE  LET lines == (LinesOf(ed[e].version))' IN
               \E i \in DOMAIN lines : lines[i] = LineOf(e)
    <2>1. e = Me /\ me.op = "modify" /\ me'.pc = "ready" /\ me.op # None
      BY <1>1, TheWorker, NoneAssumption DEF me, Ops, Writers
    <2>2. me.pc \in InMethod
      <3>1. me.pc \in PCs /\ me.pc \notin Idling
        BY <1>1, <2>1, MyFacts DEF HeldWorker, SeqInv, CallOK
      <3> QED BY <3>1 DEF PCs, Idling, InMethod, Storing, Numbered
    <2>3. Req = [op |-> "modify", par |-> me.par, hash |-> me.hash, ref |-> me.ref]
      BY <2>1 DEF Req, me
    <2>4. Req # None /\ Req' = None
      <3>1. me'.op = None
        BY <1>1, <2>1 DEF SeqInv, CallOK, Idling
      <3> QED BY <1>1, <2>2, <3>1, NoneIsNoRequest DEF SeqInv, CallOK, Req, me
    <2>5. List!Finish
      <3>1. List!Next \/ UNCHANGED <<Content, Req>>
        BY <1>1, StepSeq
      <3>2. ~List!Accept /\ Req' # Req
        BY <2>4 DEF List!Accept
      <3> QED BY <3>1, <3>2 DEF List!Next
    <2>6. PICK i \in DOMAIN Content : Content[i][1] = me.par
      BY <1>1, <2>1, <2>2, ShownFacts
    <2>7. List!PositionOf(me.par) = i
      <3>1. Unique(Content)
        BY <1>1, LinesUnique DEF Content, SeqInv
      <3> QED BY <2>6, <3>1, PositionIs
    <2>8. Content' = [Content EXCEPT ![i] = LineOf(Me)]
      BY <2>3, <2>5, <2>7 DEF List!Finish, List!Result, List!ReplaceAt, LineOf, me
    <2>9. Content' = (LinesOf(ed[Me].version))'
      <3>1. ContentOK'
        BY <1>1, ContentIs, PTL DEF SeqInv
      <3> QED BY <2>1, <3>1 DEF ContentOK, me
    <2>10. i \in DOMAIN Content' /\ Content'[i] = LineOf(Me)
      BY <2>6, <2>8
    <2> QED BY <2>1, <2>9, <2>10
  <1>2. IInv /\ SeqInv /\ IInv' /\ SeqInv' /\ [Next]_vars =>
            [\A e \in Editors :
                ed[e].op = "modify" /\ ed'[e].pc = "ready" =>
                    LET lines == (LinesOf(ed[e].version))' IN
                    \E i \in DOMAIN lines : lines[i] = LineOf(e)]_vars
    BY <1>1
  <1> QED BY <1>2, Invariance, SeqInvariance, PTL DEF Spec, ModifyTakesEffect

=============================================================================
