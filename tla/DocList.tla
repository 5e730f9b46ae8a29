------------------------------ MODULE DocList ------------------------------
(***************************************************************************)
(* What the document store promises to one user at a time: a document is a *)
(* list of paragraphs with distinct ids, and a method that has been        *)
(* accepted takes effect as a whole, exactly once.                         *)
(***************************************************************************)
EXTENDS Integers, Sequences, SequencesExt

CONSTANTS ParIds, Hashes, InitDoc, None

VARIABLES
    doc,   \* the paragraphs, each with the hash of its text
    req    \* the method that is being executed, or None

vars == <<doc, req>>

IdsOf(d) == {d[i][1] : i \in DOMAIN d}

PositionOf(par) == CHOOSE i \in DOMAIN doc : doc[i][1] = par

Additions == {"add", "insert_before", "insert_after"}

Request ==
    [op : Additions, par : ParIds, hash : Hashes, ref : ParIds \cup {None}]
        \cup [op : {"modify"}, par : ParIds, hash : Hashes, ref : ParIds]
        \cup [op : {"delete"}, par : ParIds, hash : {None}, ref : ParIds]

\* Additions bring a new id, the other methods need one that is there.
Accepted(r) ==
    IF r.op \in Additions THEN r.par \notin IdsOf(doc) ELSE r.par \in IdsOf(doc)

\* An insertion whose anchor is not in the document changes nothing.
Inserted(r, line) ==
    IF r.ref \notin IdsOf(doc) THEN doc
    ELSE InsertAt(doc, PositionOf(r.ref) + (IF r.op = "insert_after" THEN 1 ELSE 0), line)

Result(r) ==
    LET line == <<r.par, r.hash>> IN
    CASE r.op = "add"    -> Append(doc, line)
      [] r.op = "delete" -> RemoveAt(doc, PositionOf(r.par))
      [] r.op = "modify" -> ReplaceAt(doc, PositionOf(r.par), line)
      [] OTHER           -> Inserted(r, line)

Init == doc = InitDoc /\ req = None

Accept ==
    /\ req = None
    /\ req' \in {r \in Request : Accepted(r)}
    /\ UNCHANGED doc

Finish ==
    /\ req # None
    /\ doc' = Result(req)
    /\ req' = None

Next == Accept \/ Finish

Spec == Init /\ [][Next]_vars /\ WF_vars(Finish)

UniquePars == \A i, j \in DOMAIN doc : doc[i][1] = doc[j][1] => i = j
=============================================================================
