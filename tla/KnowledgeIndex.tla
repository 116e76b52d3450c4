--------------------------- MODULE KnowledgeIndex ---------------------------
(***************************************************************************)
(* The knowledge base: markdown files in converted_md/, parent documents   *)
(* in the file docstore, child chunks with their metadata in pgvector, and *)
(* the operations that keep the three in step: upload, delete and reindex  *)
(* in rag-api (RAG/api.py), file update and removal by scripts/reindex.py, *)
(* all through IngestionService (RAG/rag_system/services/ingestion.py).    *)
(*                                                                         *)
(* A document stands for one article: index_file stores one parent and one *)
(* row of children per file.  A text stands for its SHA-256.               *)
(***************************************************************************)
EXTENDS Naturals, FiniteSets

CONSTANTS
  Actor,       \* who mutates: rag-api's event loop, a reindex.py in another container
  Doc,         \* file names without extension
  Text,        \* converted texts
  Blank,       \* those of white space only, of which the splitter makes no child
  Id,          \* parent ids (uuid4)
  Formats,     \* the formats uploaded, out of Format
  UploadModes, \* how they are uploaded, out of UploadMode
  DeleteNames, \* what DELETE /v1/documents names: the ".md" or the "original" file
  Faults,      \* the stores' operations that may raise, out of Fault
  NoFile,      \* "converted_md/<doc>.md does not exist"
  Unreadable   \* "converted_md/<doc>.md is not UTF-8"

\* "binary" stands for every upload whose conversion changes the bytes: pdf, rtf,
\* docx, and a text with CRLF line ends.
Format     == {"md", "txt", "binary"}
UploadMode == {"checked", "overwrite", "batch", "unindexed"}
Fault      == {"convert", "mset", "add", "rows", "mdelete", "unlink", "drop"}

ASSUME IndexAssumption ==
  /\ Formats \subseteq Format
  /\ UploadModes \subseteq UploadMode
  /\ DeleteNames \subseteq {".md", "original"}
  /\ Faults \subseteq Fault
  /\ Blank \subseteq Text
  /\ NoFile \notin Text
  /\ Unreadable \notin Text

VARIABLES
  md,     \* md[d]: the content of converted_md/<d>.md
  parents,\* ids of the parent documents in the docstore
  rows,   \* langchain_pg_embedding: the child chunks
  used,   \* ids handed out so far
  op      \* op[a]: the locals of the operation actor a is in

vars == <<md, parents, rows, used, op>>

Row == [parent : Id, src : Doc, hash : Text]

Stage == {"idle", "convert", "rows", "mdelete", "unlink", "drop", "rmtree", "scan",
          "mset", "add", "returned"}
Kind  == {"none", "upload", "delete", "reindex", "update", "remove"}

Op == [stage : Stage, kind : Kind, doc : SUBSET Doc, text : SUBSET Text,
       format : Format, mode : UploadMode, name : {".md", "original"},
       ids : SUBSET Id, todo : SUBSET Doc, found : BOOLEAN, failed : BOOLEAN,
       result : {"none", "ok", "partial", "skipped", "error"}]

Idle == [stage |-> "idle", kind |-> "none", doc |-> {}, text |-> {},
         format |-> "md", mode |-> "checked", name |-> ".md",
         ids |-> {}, todo |-> {}, found |-> FALSE, failed |-> FALSE, result |-> "none"]

Init ==
  /\ md = [d \in Doc |-> NoFile]
  /\ parents = {}
  /\ rows = {}
  /\ used = {}
  /\ op = [a \in Actor |-> Idle]

-----------------------------------------------------------------------------
(* Control                                                                  *)

At(a, stage) == op[a].stage = stage

\* The document an operation is about (doc is a singleton while it is).
On(a, d) == op[a].doc = {d}

Goto(a, stage) == op' = [op EXCEPT ![a].stage = stage]
Return(a, result) == op' = [op EXCEPT ![a].stage = "returned", ![a].result = result]

Start(a, stage, kind, d) ==
  [op EXCEPT ![a] = [Idle EXCEPT !.stage = stage, !.kind = kind, !.doc = {d}]]

\* index_file returned: an upload or an update is done, a reindex takes the next file.
Indexed(a) ==
  op' = [op EXCEPT ![a].stage = IF op[a].kind = "reindex" THEN "scan" ELSE "returned",
                   ![a].result = IF op[a].kind = "reindex" THEN "none" ELSE "ok",
                   ![a].ids = {}, ![a].text = {}]

\* index_file raised: process_bytes reports a partial upload, index_directory
\* counts a failure and goes on, reindex.py --file exits with an error.
IndexFailed(a) ==
  op' = [op EXCEPT ![a].stage = IF op[a].kind = "reindex" THEN "scan" ELSE "returned",
                   ![a].result = CASE op[a].kind = "upload" -> "partial"
                                   [] op[a].kind = "update" -> "error"
                                   [] OTHER -> "none",
                   ![a].failed = TRUE,
                   ![a].ids = {}, ![a].text = {}]

-----------------------------------------------------------------------------
(* POST /v1/upload and /v1/upload/batch                                     *)

\* The hash of the uploaded bytes is compared with the hashes of indexed texts:
\* they can agree only when conversion keeps the bytes.
AlreadyIndexed(t, format) ==
  /\ format \in {"md", "txt"}
  /\ \E r \in rows : r.hash = t

\* Only a single upload without overwrite looks for the hash.
Upload(a, d, t, format, mode) ==
  /\ At(a, "idle")
  /\ op' = [Start(a, "convert", "upload", d) EXCEPT
              ![a].text = {t}, ![a].format = format, ![a].mode = mode,
              ![a].stage = IF mode = "checked" /\ AlreadyIndexed(t, format)
                           THEN "returned" ELSE "convert",
              ![a].result = IF mode = "checked" /\ AlreadyIndexed(t, format)
                            THEN "skipped" ELSE "none"]
  /\ UNCHANGED <<md, parents, rows, used>>

\* FileConverter.convert_bytes writes <doc>.md; index_after_convert=false ends here, with the
\* answer of an upload that is not indexed.
Convert(a, d, t) ==
  /\ At(a, "convert") /\ On(a, d) /\ op[a].text = {t}
  /\ md' = [md EXCEPT ![d] = t]
  /\ IF op[a].mode = "unindexed" THEN Return(a, "partial") ELSE Goto(a, "mset")
  /\ UNCHANGED <<parents, rows, used>>

\* The pipeline reports a file that cannot be converted as partial, the
\* converter alone answers 400.  The bytes of an
\* upload named .md are in place before they are found not to be UTF-8.
ConvertFails(a, d) ==
  /\ "convert" \in Faults
  /\ At(a, "convert") /\ On(a, d)
  /\ md' = IF op[a].format = "md" THEN [md EXCEPT ![d] = Unreadable] ELSE md
  /\ Return(a, IF op[a].mode = "unindexed" THEN "error" ELSE "partial")
  /\ UNCHANGED <<parents, rows, used>>

-----------------------------------------------------------------------------
(* IngestionService.index_file                                              *)

\* The text is read back from the file and its parents are stored first.
StoreParents(a, d, i) ==
  /\ At(a, "mset") /\ On(a, d)
  /\ md[d] \in Text
  /\ i \in Id \ used
  /\ used' = used \cup {i}
  /\ parents' = parents \cup {i}
  /\ op' = [op EXCEPT ![a].stage = "add", ![a].ids = {i}, ![a].text = {md[d]}]
  /\ UNCHANGED <<md, rows>>

\* The file is gone or unreadable, or the docstore refuses.
StoreParentsFails(a, d) ==
  /\ At(a, "mset") /\ On(a, d)
  /\ md[d] \notin Text \/ "mset" \in Faults
  /\ IndexFailed(a)
  /\ UNCHANGED <<md, parents, rows, used>>

\* A text without children is indexed all the same: its parent is stored, nothing leads to it.
AddChildren(a, d) ==
  /\ At(a, "add") /\ On(a, d)
  /\ rows' = rows \cup [parent : op[a].ids, src : {d}, hash : op[a].text \ Blank]
  /\ Indexed(a)
  /\ UNCHANGED <<md, parents, used>>

\* The embedding service or the database refuses; the parents stay behind.
AddChildrenFails(a) ==
  /\ "add" \in Faults
  /\ At(a, "add")
  /\ IndexFailed(a)
  /\ UNCHANGED <<md, parents, rows, used>>

-----------------------------------------------------------------------------
(* DELETE /v1/documents/{filename}, reindex.py --delete and --file          *)

Delete(a, d, name) ==
  /\ At(a, "idle")
  /\ op' = [Start(a, "rows", "delete", d) EXCEPT ![a].name = name]
  /\ UNCHANGED <<md, parents, rows, used>>

Remove(a, d) ==
  /\ At(a, "idle")
  /\ op' = Start(a, "rows", "remove", d)
  /\ UNCHANGED <<md, parents, rows, used>>

\* Mutant: an update adds without deleting.
UpdateAddsOnly(a, d) ==
  /\ At(a, "idle")
  /\ md[d] # NoFile
  /\ op' = Start(a, "mset", "update", d)
  /\ UNCHANGED <<md, parents, rows, used>>

\* cmd_index_file wants the file to exist.
Update(a, d) ==
  /\ At(a, "idle")
  /\ md[d] # NoFile
  /\ op' = Start(a, "rows", "update", d)
  /\ UNCHANGED <<md, parents, rows, used>>

\* What delete_document leads to: the local file, the new index, or the end.
AfterRows(a) ==
  CASE op[a].kind = "delete" -> "unlink"
    [] op[a].kind = "update" -> "mset"
    [] OTHER -> "returned"

\* Mutant: one row per document is taken for granted.
MatchingOne(a, d) ==
  LET all == {r \in rows : r.src = d /\ op[a].name = ".md"}
  IN  IF all = {} THEN {} ELSE {CHOOSE r \in all : TRUE}

\* Rows carry the name of the markdown file as their source.
Matching(a, d) == {r \in rows : r.src = d /\ op[a].name = ".md"}

DeleteRows(a, d) ==
  /\ At(a, "rows") /\ On(a, d)
  /\ LET hit == Matching(a, d)
     IN  /\ rows' = rows \ hit
         /\ op' = [op EXCEPT
                     ![a].stage = IF hit = {} THEN AfterRows(a) ELSE "mdelete",
                     ![a].result = IF hit = {} /\ op[a].kind = "remove" THEN "ok" ELSE "none",
                     ![a].found = hit # {},
                     ![a].ids = {r.parent : r \in hit}]
  /\ UNCHANGED <<md, parents, used>>

\* The statement raises: rolled back.  reindex.py --file only warns and goes on.
DeleteRowsFails(a) ==
  /\ "rows" \in Faults
  /\ At(a, "rows")
  /\ IF op[a].kind = "update"
     THEN op' = [op EXCEPT ![a].stage = "mset", ![a].failed = TRUE]
     ELSE Return(a, "error")
  /\ UNCHANGED <<md, parents, rows, used>>

\* The parents go after the commit; a docstore that refuses is only logged.
DeleteParents(a) ==
  /\ At(a, "mdelete")
  /\ \/ parents' = parents \ op[a].ids
     \/ "mdelete" \in Faults /\ UNCHANGED parents
  /\ op' = [op EXCEPT ![a].stage = AfterRows(a), ![a].ids = {},
                      ![a].result = IF op[a].kind = "remove" THEN "ok" ELSE "none"]
  /\ UNCHANGED <<md, rows, used>>

\* <doc>.md goes, under its own name or as the sibling of another extension;
\* 404 when there was neither a row nor a file.
Unlink(a, d) ==
  /\ At(a, "unlink") /\ On(a, d)
  /\ md' = [md EXCEPT ![d] = NoFile]
  /\ Return(a, IF op[a].found \/ md[d] # NoFile THEN "ok" ELSE "error")
  /\ UNCHANGED <<parents, rows, used>>

UnlinkFails(a, d) ==
  /\ "unlink" \in Faults
  /\ At(a, "unlink") /\ On(a, d)
  /\ md[d] # NoFile
  /\ Return(a, "error")
  /\ UNCHANGED <<md, parents, rows, used>>

-----------------------------------------------------------------------------
(* POST /v1/reindex and reindex.py without arguments                        *)

Reindex(a) ==
  /\ At(a, "idle")
  /\ op' = [op EXCEPT ![a] = [Idle EXCEPT !.stage = "drop", !.kind = "reindex"]]
  /\ UNCHANGED <<md, parents, rows, used>>

\* Mutant: the docstore is emptied first.
DropDocstoreFirst(a) ==
  /\ At(a, "drop")
  /\ parents' = {}
  /\ Goto(a, "rmtree")
  /\ UNCHANGED <<md, rows, used>>

\* clear_index drops the tables; a failure is logged and the clear goes on.
DropTables(a) ==
  /\ At(a, "drop")
  /\ rows' \in {{}} \cup (IF "drop" \in Faults THEN {rows} ELSE {})
  /\ Goto(a, "rmtree")
  /\ UNCHANGED <<md, parents, used>>

\* shutil.rmtree of the docstore, then index_directory lists the files.
RemoveDocstore(a) ==
  /\ At(a, "rmtree")
  /\ parents' = {}
  /\ op' = [op EXCEPT ![a].stage = "scan", ![a].todo = {d \in Doc : md[d] # NoFile}]
  /\ UNCHANGED <<md, rows, used>>

ReindexFile(a, d) ==
  /\ At(a, "scan")
  /\ d \in op[a].todo
  /\ op' = [op EXCEPT ![a].stage = "mset", ![a].doc = {d}, ![a].todo = @ \ {d}]
  /\ UNCHANGED <<md, parents, rows, used>>

\* Mutant: the last files are not waited for.
ReindexDoneEarly(a) ==
  /\ At(a, "scan")
  /\ Return(a, "ok")
  /\ UNCHANGED <<md, parents, rows, used>>

\* Failed files are counted, the request still succeeds.
ReindexDone(a) ==
  /\ At(a, "scan")
  /\ op[a].todo = {}
  /\ Return(a, "ok")
  /\ UNCHANGED <<md, parents, rows, used>>

-----------------------------------------------------------------------------
Respond(a) ==
  /\ At(a, "returned")
  /\ op' = [op EXCEPT ![a] = Idle]
  /\ UNCHANGED <<md, parents, rows, used>>

\* The process is killed: what it stored stays, what it was about to do is lost.
Crash(a) ==
  /\ ~At(a, "idle")
  /\ op' = [op EXCEPT ![a] = Idle]
  /\ UNCHANGED <<md, parents, rows, used>>

Next ==
  \E a \in Actor :
    \/ \E d \in Doc :
         \/ \E t \in Text :
              \/ \E f \in Formats, m \in UploadModes : Upload(a, d, t, f, m)
              \/ Convert(a, d, t)
         \/ ConvertFails(a, d)
         \/ \E i \in Id : StoreParents(a, d, i)
         \/ StoreParentsFails(a, d)
         \/ AddChildren(a, d)
         \/ \E n \in DeleteNames : Delete(a, d, n)
         \/ Remove(a, d)
         \/ Update(a, d)
         \/ DeleteRows(a, d)
         \/ Unlink(a, d)
         \/ UnlinkFails(a, d)
         \/ ReindexFile(a, d)
    \/ AddChildrenFails(a)
    \/ DeleteRowsFails(a)
    \/ DeleteParents(a)
    \/ Reindex(a)
    \/ DropTables(a)
    \/ RemoveDocstore(a)
    \/ ReindexDone(a)
    \/ Respond(a)
    \/ Crash(a)

Spec == Init /\ [][Next]_vars

-----------------------------------------------------------------------------
(* Properties                                                               *)

\* Every variable has its type; what is indexed is a text, never the content of a
\* file that is missing or not UTF-8.
TypeOK ==
  /\ md \in [Doc -> Text \cup {NoFile, Unreadable}]
  /\ parents \subseteq Id
  /\ rows \subseteq Row
  /\ used \subseteq Id
  /\ op \in [Actor -> Op]

\* One mutation at a time, and dropping the tables works: what RowsHaveParents
\* and ReindexRebuilds rest on.
OneAtATime == \A a, b \in Actor : a = b
DropWorks  == "drop" \notin Faults

\* The inductive invariant behind RowsHaveParents.

\* A parent belongs to one row, and its id was handed out.
ParentsUnshared ==
  /\ \A r \in rows : r.parent \in used
  /\ \A r, s \in rows : r.parent = s.parent => r = s

\* While children are added, their one parent is stored and belongs to nobody else.
AddingToFresh ==
  \A a \in Actor : At(a, "add") =>
    /\ \E i \in parents \cap used : op[a].ids = {i} /\ \A r \in rows : r.parent # i
    /\ \E d \in Doc, t \in Text : op[a].doc = {d} /\ op[a].text = {t}

\* Parents are deleted when nothing refers to them any more.
DeletingUnused ==
  \A a \in Actor : At(a, "mdelete") => \A r \in rows : r.parent \notin op[a].ids

ClearingEmpty ==
  \A a \in Actor : At(a, "rmtree") => rows = {}

\* Every child chunk leads to a parent document, whatever failed or was killed
\* half way: a search hit whose parent is missing is silently dropped from the
\* evidence (_fetch_multiple_parent_docs).
RowsHaveParents == \A r \in rows : r.parent \in parents

\* Whatever becomes of a clear_index that cannot drop the tables, a row has one parent of
\* its own; that the parent is stored needs the tables to go before the docstore.
IndexInv ==
  /\ TypeOK
  /\ ParentsUnshared
  /\ AddingToFresh
  /\ DeletingUnused
  /\ DropWorks => ClearingEmpty /\ RowsHaveParents

\* A deletion that reports success leaves neither the file nor a searchable
\* chunk of the document.
DeleteForgets ==
  \A a \in Actor, d \in Doc :
    /\ At(a, "returned") /\ On(a, d)
    /\ op[a].kind = "delete" /\ op[a].result = "ok"
    => md[d] = NoFile /\ \A r \in rows : r.src # d

\* A reindex that reports success leaves an index of the files as they are: no chunk of
\* anything else, and one entry per file that is not blank unless a failure was counted.
ReindexRebuilds ==
  \A a \in Actor :
    At(a, "returned") /\ op[a].kind = "reindex" /\ op[a].result = "ok" =>
      /\ \A r \in rows : r.hash = md[r.src] /\ r.parent \in parents
      /\ \A r, s \in rows : r.src = s.src => r = s
      /\ ~op[a].failed => {r.src : r \in rows} = {d \in Doc : md[d] \notin Blank \cup {NoFile}}

\* reindex.py --file is an upsert: it leaves one entry, of the current text, or none when
\* that is blank, unless it warned that the old entries could not be deleted.
UpdateReplaces ==
  \A a \in Actor, d \in Doc :
    /\ At(a, "returned") /\ On(a, d)
    /\ op[a].kind = "update" /\ op[a].result = "ok" /\ ~op[a].failed
    => IF md[d] \in Blank THEN \A r \in rows : r.src # d
       ELSE \E r \in rows : r.hash = md[d] /\ {s \in rows : s.src = d} = {r}

(* The inductive invariants behind the three promises: what the stores hold of the        *)
(* document an operation is about, at each stage of it.                                   *)

RowsOf(d) == {r \in rows : r.src = d}

\* Which operations pass through a stage.
Staged ==
  \A a \in Actor :
    /\ At(a, "convert") => op[a].kind = "upload"
    /\ At(a, "rows") \/ At(a, "mdelete") => op[a].kind \in {"delete", "remove", "update"}
    /\ At(a, "unlink") => op[a].kind = "delete"
    /\ At(a, "drop") \/ At(a, "rmtree") \/ At(a, "scan") => op[a].kind = "reindex"
    /\ At(a, "mset") \/ At(a, "add") => op[a].kind \in {"upload", "update", "reindex"}

\* Only DELETE /v1/documents may name a document otherwise than its rows do.
NamedByMd == DeleteNames \subseteq {".md"}
Named == \A a \in Actor : op[a].name = ".md" \/ (op[a].kind = "delete" /\ ~NamedByMd)

\* The rows of the document to delete are gone before its file is looked for.
Deleting ==
  \A a \in Actor, d \in Doc :
    op[a].kind = "delete" /\ On(a, d) =>
      /\ At(a, "mdelete") \/ At(a, "unlink") => RowsOf(d) = {}
      /\ At(a, "returned") /\ op[a].result = "ok" => RowsOf(d) = {} /\ md[d] = NoFile

\* The text being indexed is the one in the file: nobody writes it meanwhile.
AddingCurrent == \A a \in Actor, d \in Doc : At(a, "add") /\ On(a, d) => op[a].text = {md[d]}

Replaced(d) == IF md[d] \in Blank THEN RowsOf(d) = {}
               ELSE \E r \in rows : r.hash = md[d] /\ RowsOf(d) = {r}

\* Unless a warning was given, the old rows are gone when the new ones are added.
Updating ==
  \A a \in Actor, d \in Doc :
    op[a].kind = "update" /\ On(a, d) /\ ~op[a].failed =>
      /\ op[a].stage \in {"mdelete", "mset", "add"} => RowsOf(d) = {}
      /\ At(a, "returned") /\ op[a].result = "ok" => Replaced(d)

\* The files a reindex has not come to yet, the one under way included.
Pending(a) == op[a].todo \cup (IF At(a, "mset") \/ At(a, "add") THEN op[a].doc ELSE {})

\* Past the clear, the index holds what was read so far and the rest is pending.
Rebuilding ==
  \A a \in Actor :
    op[a].kind = "reindex" /\ op[a].stage \in {"scan", "mset", "add", "returned"} =>
      /\ \A r \in rows : r.hash = md[r.src] /\ r.hash \notin Blank /\ r.src \notin Pending(a)
      /\ \A r, s \in rows : r.src = s.src => r = s
      /\ At(a, "mset") \/ At(a, "add") => op[a].doc \cap op[a].todo = {}
      /\ At(a, "returned") => op[a].todo = {}
      /\ ~op[a].failed => LET Blanks == {d \in Doc : md[d] \in Blank}
                          IN  ({r.src : r \in rows} \cup Pending(a)) \ Blanks
                                = {d \in Doc : md[d] # NoFile} \ Blanks

Outcome ==
  /\ Staged /\ Named /\ AddingCurrent /\ Updating
  /\ NamedByMd => Deleting
  /\ DropWorks => Rebuilding

OutcomeInv == IndexInv /\ Outcome

=============================================================================
