---------------------------- MODULE DocStoreSeq ----------------------------
(***************************************************************************)
(* DocStore with one worker: the document a single user sees, and what the *)
(* store's files and symlinks say of it between two requests.              *)
(***************************************************************************)
EXTENDS DocStore, FiniteSets

ASSUME OneWorker == \E e \in Editors : Editors = {e}
ASSUME NoCrash == MaxCrashes = 0
ASSUME UniqueAtFirst == \A i, j \in DOMAIN InitDoc : InitDoc[i][1] = InitDoc[j][1] => i = j

Me == CHOOSE e \in Editors : TRUE

\* The document is what its latest version says, except while a method fills a new
\* version: then it is still what the method read.
Content ==
    IF ed[Me].pc \in {"copy_open"} \cup Filling
    THEN LinesOf(ed[Me].old_ver) ELSE LinesOf(LatestVersion)

Req ==
    IF ed[Me].op = None THEN None
    ELSE [op |-> ed[Me].op, par |-> ed[Me].par, hash |-> ed[Me].hash, ref |-> ed[Me].ref]

List == INSTANCE DocList WITH doc <- Content, req <- Req

ASSUME NoneIsNoRequest == None \notin List!Request

\* The twenty file-system steps of a method act on the document as
\* one step of the abstract list, and every accepted method takes effect: the files
\* implement DocList.
ImplementsDocList == List!Spec

AtRest == ed[Me].pc \in {"idle", "list_major", "list_minor", "ready"}

\* Between two methods the changelog lists exactly the versions that have a file, the
\* latest one first: the history page shows every edit and only those.
LogIsHistory ==
    AtRest =>
        /\ {changelog[i].ver : i \in DOMAIN changelog} = DOMAIN files
        /\ Len(changelog) = Cardinality(DOMAIN files)
        /\ changelog # <<>> => changelog[1].ver = LatestVersion

\* Between two methods the current symlink of every paragraph in the document names
\* the text the document shows: modify_paragraph_obj compares the new text with the
\* target of the link, not with the document.
CurrentIsShown ==
    AtRest =>
        \A i \in DOMAIN Content : current[Content[i][1]] = Content[i][2]

\* A method changes no version but the one it makes, minor ones included: the
\* document can always be recovered from an earlier version.
OldVersionsSurvive ==
    [][\A ver \in DOMAIN files :
          ~Fills(Me, ver) => ver \in DOMAIN files' /\ files'[ver] = files[ver]]_vars
=============================================================================
