---------------------------------- MODULE Kv ----------------------------------
(***************************************************************************)
(* The JSON documents of an actor (runtime/kv.py) behind their routes      *)
(* (web/routes/kv.py), edited by pages in browsers: a page reads a         *)
(* document, adds its edit and puts it back, with If-Match or without.     *)
(*                                                                         *)
(* A value is the set of edits in it; its etag is a hash of the value, so  *)
(* equal values have equal etags.  Pages are external.  A request does not *)
(* suspend between its check and its write; it may be cut by the end of    *)
(* the daemon, or its answer lost.                                         *)
(***************************************************************************)
EXTENDS Naturals, Sequences

CONSTANTS
  Pages,   \* browser pages, each with one edit of its own
  KvKeys,  \* normalized keys, as sequences of parts
  StemOf   \* a part without what with_suffix takes for its suffix

ASSUME KvAssumption == KvKeys \subseteq Seq(DOMAIN StemOf) \ {<<>>}

VARIABLES
  present,       \* the files below the actor's root
  documents,     \* value of each, {} when there is none
  folders,       \* directories there
  reading,       \* what each page has read, of which key, and whether it was there
  acknowledged   \* history: edits in force of each file whose put was answered

kvVars == <<present, documents, folders, reading, acknowledged>>

\* document_path: the last part loses its suffix, so that keys may share a file.
FileOf(k) == [k EXCEPT ![Len(k)] = StemOf[@]]
Files == {FileOf(k) : k \in KvKeys}

Ancestors(k) == {SubSeq(k, 1, n) : n \in 1..(Len(k) - 1)}

NothingRead == [key |-> <<>>, found |-> FALSE, value |-> {}]
Readings == {NothingRead} \cup [key : KvKeys, found : BOOLEAN, value : SUBSET Pages]

KvInit ==
  /\ present = {} /\ documents = [f \in Files |-> {}] /\ folders = {}
  /\ reading = [p \in Pages |-> NothingRead]
  /\ acknowledged = [f \in Files |-> {}]

-----------------------------------------------------------------------------

GetDocument(p, k) ==
  /\ reading' = [reading EXCEPT ![p] = [key |-> k, found |-> FileOf(k) \in present,
                                  value |-> documents[FileOf(k)]]]
  /\ UNCHANGED <<present, documents, folders, acknowledged>>

\* _assert_no_prefix_collision: a file on the way to the document, or a directory, also
\* an empty one, in the place of a document of the first level.
Collides(k) ==
  \/ \E a \in Ancestors(k) : FileOf(a) \in present
  \/ Len(k) = 1 /\ k \in folders

IsThere(f, value) == f \in present   \* mistake: any version will do
\* If-Match: the etag of what the page has read is that of the document.
Matches(f, value) == f \in present /\ documents[f] = value

Edited(p) == reading[p].value \cup {p}

\* _write_atomic: the directories, a temporary file beside the document, which its
\* replacement takes away, and the replacement.
WritesDocument(k, value) ==
  /\ present' = present \cup {FileOf(k)}
  /\ documents' = [documents EXCEPT ![FileOf(k)] = value]
  /\ folders' = folders \cup Ancestors(k)

HasRead(p) == reading[p] # NothingRead
Forgets(p) == reading' = [reading EXCEPT ![p] = NothingRead]

\* The answer arrives, or it is lost and what it replaced is out of force.
Answers(f, edits) ==
  \E answer \in {edits, acknowledged[f] \cap edits} :
    acknowledged' = [acknowledged EXCEPT ![f] = answer]

\* PUT with If-Match, by a page that has read a document.
PutIfMatch(p) ==
  LET k == reading[p].key  f == FileOf(k) IN
  /\ HasRead(p) /\ reading[p].found
  /\ ~Collides(k) /\ Matches(f, reading[p].value)
  /\ WritesDocument(k, Edited(p))
  /\ Answers(f, acknowledged[f] \cup {p})
  /\ Forgets(p)

\* PUT without: the page's own version replaces whatever is there.
PutAnyway(p) ==
  LET k == reading[p].key IN
  /\ HasRead(p) /\ ~Collides(k)
  /\ WritesDocument(k, Edited(p))
  /\ Answers(FileOf(k), Edited(p))
  /\ Forgets(p)

\* A conflict of the key or of the etag.
PutRefused(p) ==
  LET k == reading[p].key IN
  /\ HasRead(p)
  /\ Collides(k) \/ (reading[p].found /\ ~Matches(FileOf(k), reading[p].value))
  /\ Forgets(p)
  /\ UNCHANGED <<present, documents, folders, acknowledged>>

\* The daemon ends before the replacement.
PutIsCut(p) ==
  /\ HasRead(p) /\ ~Collides(reading[p].key)
  /\ folders' \in {folders, folders \cup Ancestors(reading[p].key)}
  /\ Forgets(p)
  /\ UNCHANGED <<present, documents, acknowledged>>

\* The file goes, its directories stay.
DeleteDocument(k) ==
  /\ FileOf(k) \in present
  /\ present' = present \ {FileOf(k)}
  /\ documents' = [documents EXCEPT ![FileOf(k)] = {}]
  /\ acknowledged' = [acknowledged EXCEPT ![FileOf(k)] = {}]
  /\ UNCHANGED <<folders, reading>>

KvNext ==
  \/ \E p \in Pages : \/ \E k \in KvKeys : GetDocument(p, k)
                      \/ PutIfMatch(p) \/ PutAnyway(p) \/ PutRefused(p) \/ PutIsCut(p)
  \/ \E k \in KvKeys : DeleteDocument(k)

KvSpec == KvInit /\ [][KvNext]_kvVars

-----------------------------------------------------------------------------

KvTypeOK ==
  /\ present \subseteq Files
  /\ documents \in [Files -> SUBSET Pages]
  /\ folders \subseteq UNION {Ancestors(k) : k \in KvKeys}
  /\ reading \in [Pages -> Readings]
  /\ acknowledged \in [Files -> SUBSET Pages]

\* An edit that was put and acknowledged is in the document until somebody deletes the
\* document or replaces it without If-Match, however the reads and puts of the pages
\* interleave, keys share a file, answers are lost or the daemon ends in a put
\* (runtime/kv.py put).
NoEditLost ==
  \A f \in Files : acknowledged[f] \subseteq documents[f]
=============================================================================
