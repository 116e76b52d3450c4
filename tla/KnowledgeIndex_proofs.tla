----------------------- MODULE KnowledgeIndex_proofs -----------------------
(***************************************************************************)
(* Proofs about KnowledgeIndex, for any number of documents, texts and     *)
(* ids, as long as mutations run one at a time: an update that reports     *)
(* success replaces, a deletion that names the markdown file forgets, and  *)
(* while clear_index manages to drop the tables, a reindex rebuilds and    *)
(* every child chunk leads to a stored parent, whatever else fails or is   *)
(* killed half way.                                                        *)
(***************************************************************************)
EXTENDS KnowledgeIndex, TLAPS

LEMMA IdleType == Idle \in Op
  BY DEF Idle, Op, Stage, Kind, Format, UploadMode

\* A step that leaves the stores alone and does not enter a critical stage.
LEMMA QuietStep ==
  ASSUME IndexInv, OneAtATime, NEW a \in Actor,
         op' \in [Actor -> Op],
         md' \in [Doc -> Text \cup {NoFile, Unreadable}],
         op'[a].stage \notin {"add", "mdelete", "rmtree"},
         UNCHANGED <<parents, rows, used>>
  PROVE  IndexInv'
<1>1. TypeOK'
  BY DEF IndexInv, TypeOK
<1>2. \A b \in Actor : op'[b].stage \notin {"add", "mdelete", "rmtree"}
  BY DEF OneAtATime
<1>3. AddingToFresh' /\ DeletingUnused' /\ ClearingEmpty'
  BY <1>2 DEF AddingToFresh, DeletingUnused, ClearingEmpty, At
<1>4. ParentsUnshared' /\ (DropWorks => RowsHaveParents')
  BY DEF IndexInv, ParentsUnshared, RowsHaveParents
<1>5. QED
  BY <1>1, <1>3, <1>4 DEF IndexInv

LEMMA GotoStep ==
  ASSUME IndexInv, OneAtATime, NEW a \in Actor,
         NEW s \in Stage \ {"add", "mdelete", "rmtree"}, Goto(a, s),
         md' \in [Doc -> Text \cup {NoFile, Unreadable}],
         UNCHANGED <<parents, rows, used>>
  PROVE  IndexInv'
<1>1. op \in [Actor -> Op] /\ op[a] \in Op
  BY DEF IndexInv, TypeOK
<1>2. [op[a] EXCEPT !.stage = s] \in Op /\ [op[a] EXCEPT !.stage = s].stage = s
  BY <1>1 DEF Op
<1>3. op' = [op EXCEPT ![a] = [op[a] EXCEPT !.stage = s]]
  BY DEF Goto
<1>4. op' \in [Actor -> Op] /\ op'[a].stage = s
  BY <1>1, <1>2, <1>3
<1>5. QED
  BY <1>4, QuietStep

LEMMA ReturnStep ==
  ASSUME IndexInv, OneAtATime, NEW a \in Actor,
         NEW r \in {"none", "ok", "partial", "skipped", "error"}, Return(a, r),
         md' \in [Doc -> Text \cup {NoFile, Unreadable}],
         UNCHANGED <<parents, rows, used>>
  PROVE  IndexInv'
<1>1. op \in [Actor -> Op] /\ op[a] \in Op
  BY DEF IndexInv, TypeOK
<1> DEFINE o == [op[a] EXCEPT !.stage = "returned", !.result = r]
<1>2. o \in Op /\ o.stage = "returned"
  BY <1>1 DEF Op, Stage
<1>3. op' = [op EXCEPT ![a] = o]
  BY <1>1 DEF Return
<1>4. op' \in [Actor -> Op] /\ op'[a].stage = "returned"
  BY <1>1, <1>2, <1>3
<1>5. QED
  BY <1>4, QuietStep

\* index_file raised: every caller goes on or returns.
LEMMA IndexFailedStep ==
  ASSUME IndexInv, OneAtATime, NEW a \in Actor, IndexFailed(a),
         UNCHANGED <<md, parents, rows, used>>
  PROVE  IndexInv'
<1>1. op \in [Actor -> Op] /\ op[a] \in Op /\ md \in [Doc -> Text \cup {NoFile, Unreadable}]
  BY DEF IndexInv, TypeOK
<1> DEFINE s == IF op[a].kind = "reindex" THEN "scan" ELSE "returned"
           r == CASE op[a].kind = "upload" -> "partial"
                  [] op[a].kind = "update" -> "error"
                  [] OTHER -> "none"
           o == [op[a] EXCEPT !.stage = s, !.result = r, !.failed = TRUE,
                              !.ids = {}, !.text = {}]
<1>2. s \in {"scan", "returned"} /\ r \in {"none", "ok", "partial", "skipped", "error"}
  OBVIOUS
<1>3. o \in Op /\ o.stage = s
  <2> HIDE DEF s, r
  <2>1. QED
    BY <1>1, <1>2 DEF Op, Stage
<1>4. op' = [op EXCEPT ![a] = o]
  BY <1>1 DEF IndexFailed
<1>5. op' \in [Actor -> Op] /\ op'[a].stage \in {"scan", "returned"}
  <2> HIDE DEF o, s
  <2>1. QED
    BY <1>1, <1>2, <1>3, <1>4
<1>6. QED
  BY <1>1, <1>5, QuietStep

\* Starting an operation.
LEMMA StartKeeps ==
  ASSUME IndexInv, OneAtATime, NEW a \in Actor, NEW d \in Doc,
         \/ \E t \in Text, f \in Formats, m \in UploadModes : Upload(a, d, t, f, m)
         \/ \E n \in DeleteNames : Delete(a, d, n)
         \/ Remove(a, d)
         \/ Update(a, d)
  PROVE  IndexInv'
<1>0. TypeOK /\ op \in [Actor -> Op] /\ md \in [Doc -> Text \cup {NoFile, Unreadable}]
  BY DEF IndexInv, TypeOK
<1>1. ASSUME NEW t \in Text, NEW f \in Formats, NEW m \in UploadModes, Upload(a, d, t, f, m)
      PROVE  IndexInv'
  <2>1. f \in Format /\ m \in UploadMode
    BY IndexAssumption
  <2> DEFINE o == [Idle EXCEPT !.stage = "convert", !.kind = "upload", !.doc = {d}]
             dup == m = "checked" /\ AlreadyIndexed(t, f)
             s == IF dup THEN "returned" ELSE "convert"
             r == IF dup THEN "skipped" ELSE "none"
             n == [o EXCEPT !.text = {t}, !.format = f, !.mode = m, !.stage = s, !.result = r]
  <2>2. n \in Op /\ n.stage \in {"returned", "convert"}
    <3>1. o \in Op
      <4>1. "convert" \in Stage /\ "upload" \in Kind /\ {d} \in SUBSET Doc
        BY DEF Stage, Kind
      <4>2. QED
        BY Zenon, <4>1, IdleType DEF Op
    <3>2. s \in {"returned", "convert"} /\ r \in {"none", "ok", "partial", "skipped", "error"}
      OBVIOUS
    <3>3. s \in Stage /\ {t} \in SUBSET Text
      BY <3>2 DEF Stage
    <3> HIDE DEF s, r, o
    <3>4. n \in Op /\ n.stage = s
      BY Zenon, <2>1, <3>1, <3>2, <3>3 DEF Op
    <3>5. QED
      BY <3>2, <3>4
  <2>3. op' = [op EXCEPT ![a] = n]
    BY <1>0, <1>1 DEF Upload, Start
  <2>4. op' \in [Actor -> Op] /\ op'[a].stage \in {"returned", "convert"}
    BY <1>0, <2>2, <2>3
  <2>5. QED
    BY <1>0, <1>1, <2>4, QuietStep DEF Upload
<1>2. ASSUME NEW n \in DeleteNames, Delete(a, d, n)
      PROVE  IndexInv'
  <2> DEFINE o == [Idle EXCEPT !.stage = "rows", !.kind = "delete", !.doc = {d}]
  <2>1. [o EXCEPT !.name = n] \in Op /\ [o EXCEPT !.name = n].stage = "rows"
    BY IndexAssumption DEF Idle, Op, Stage, Kind, Format, UploadMode
  <2>2. op' = [op EXCEPT ![a] = [o EXCEPT !.name = n]]
    BY <1>0, <1>2 DEF Delete, Start
  <2>3. op' \in [Actor -> Op] /\ op'[a].stage = "rows"
    BY <1>0, <2>1, <2>2
  <2>4. QED
    BY <1>0, <1>2, <2>3, QuietStep DEF Delete
<1>3. CASE Remove(a, d) \/ Update(a, d)
  <2>1. PICK k \in {"remove", "update"} : op' = Start(a, "rows", k, d)
    BY <1>3 DEF Remove, Update
  <2> DEFINE o == [Idle EXCEPT !.stage = "rows", !.kind = k, !.doc = {d}]
  <2>2. o \in Op /\ o.stage = "rows"
    BY IdleType DEF Idle, Op, Stage, Kind
  <2>3. op' = [op EXCEPT ![a] = o]
    BY <2>1 DEF Start
  <2>4. op' \in [Actor -> Op] /\ op'[a].stage = "rows"
    BY <1>0, <2>2, <2>3
  <2>5. QED
    BY <1>0, <1>3, <2>4, QuietStep DEF Remove, Update
<1>4. QED
  BY <1>1, <1>2, <1>3

\* Steps between stages that touch at most the markdown files.
LEMMA BetweenKeeps ==
  ASSUME IndexInv, OneAtATime, NEW a \in Actor, NEW d \in Doc,
         \/ \E t \in Text : Convert(a, d, t)
         \/ ConvertFails(a, d)
         \/ StoreParentsFails(a, d)
         \/ AddChildrenFails(a)
         \/ Unlink(a, d)
         \/ UnlinkFails(a, d)
         \/ ReindexFile(a, d)
  PROVE  IndexInv'
<1>0. /\ TypeOK /\ op \in [Actor -> Op] /\ op[a] \in Op
      /\ md \in [Doc -> Text \cup {NoFile, Unreadable}]
  BY DEF IndexInv, TypeOK
<1>1. CASE \E t \in Text : Convert(a, d, t)
  <2>1. md' \in [Doc -> Text \cup {NoFile, Unreadable}] /\ UNCHANGED <<parents, rows, used>>
    BY <1>0, <1>1 DEF Convert
  <2>2. Return(a, "partial") \/ Goto(a, "mset")
    BY <1>1 DEF Convert
  <2>3. CASE Return(a, "partial")
    BY <2>1, <2>3, ReturnStep
  <2>4. CASE Goto(a, "mset")
    BY <2>1, <2>4, GotoStep DEF Stage
  <2>5. QED
    BY <2>2, <2>3, <2>4
<1>2. CASE ConvertFails(a, d)
  <2>1. md' \in [Doc -> Text \cup {NoFile, Unreadable}] /\ UNCHANGED <<parents, rows, used>>
    BY <1>0, <1>2 DEF ConvertFails
  <2>2. QED
    BY <1>2, <2>1, ReturnStep DEF ConvertFails
<1>3. CASE StoreParentsFails(a, d) \/ AddChildrenFails(a)
  BY <1>3, IndexFailedStep DEF StoreParentsFails, AddChildrenFails
<1>4. CASE Unlink(a, d) \/ UnlinkFails(a, d)
  <2>1. md' \in [Doc -> Text \cup {NoFile, Unreadable}] /\ UNCHANGED <<parents, rows, used>>
    BY <1>0, <1>4 DEF Unlink, UnlinkFails
  <2>2. Return(a, "ok") \/ Return(a, "error")
    BY <1>4 DEF Unlink, UnlinkFails
  <2>3. QED
    BY <2>1, <2>2, ReturnStep
<1>5. CASE ReindexFile(a, d)
  <2> DEFINE o == [op[a] EXCEPT !.stage = "mset", !.doc = {d}, !.todo = @ \ {d}]
  <2>1. o \in Op /\ o.stage = "mset"
    BY <1>0 DEF Op, Stage
  <2>2. op' = [op EXCEPT ![a] = o]
    BY <1>0, <1>5 DEF ReindexFile
  <2>3. op' \in [Actor -> Op] /\ op'[a].stage = "mset"
    BY <1>0, <2>1, <2>2
  <2>4. QED
    BY <1>0, <1>5, <2>3, QuietStep DEF ReindexFile
<1>6. QED
  BY <1>1, <1>2, <1>3, <1>4, <1>5

\* The steps that concern no document.
LEMMA ControlKeeps ==
  ASSUME IndexInv, OneAtATime, NEW a \in Actor,
         \/ Reindex(a)
         \/ DeleteRowsFails(a)
         \/ ReindexDone(a)
         \/ Respond(a)
         \/ Crash(a)
  PROVE  IndexInv'
<1>0. /\ TypeOK /\ op \in [Actor -> Op] /\ op[a] \in Op
      /\ md \in [Doc -> Text \cup {NoFile, Unreadable}]
  BY DEF IndexInv, TypeOK
<1>1. CASE Reindex(a)
  <2>1. [Idle EXCEPT !.stage = "drop", !.kind = "reindex"] \in Op
    BY IdleType DEF Op, Stage, Kind
  <2>2. op' \in [Actor -> Op] /\ op'[a].stage = "drop"
    BY <1>0, <1>1, <2>1 DEF Reindex, Idle
  <2>3. QED
    BY <1>0, <1>1, <2>2, QuietStep DEF Reindex
<1>2. CASE DeleteRowsFails(a)
  <2> DEFINE o == [op[a] EXCEPT !.stage = "mset", !.failed = TRUE]
  <2>1. o \in Op /\ o.stage = "mset"
    BY <1>0 DEF Op, Stage
  <2>2. CASE op[a].kind = "update"
    <3>1. op' = [op EXCEPT ![a] = o]
      BY <1>0, <1>2, <2>2 DEF DeleteRowsFails
    <3>2. op' \in [Actor -> Op] /\ op'[a].stage = "mset"
      BY <1>0, <2>1, <3>1
    <3>3. QED
      BY <1>0, <1>2, <3>2, QuietStep DEF DeleteRowsFails
  <2>3. CASE op[a].kind # "update"
    BY <1>0, <1>2, <2>3, ReturnStep DEF DeleteRowsFails
  <2>4. QED
    BY <2>2, <2>3
<1>3. CASE ReindexDone(a)
  BY <1>0, <1>3, ReturnStep DEF ReindexDone
<1>4. CASE Respond(a) \/ Crash(a)
  <2>1. op' = [op EXCEPT ![a] = Idle] /\ UNCHANGED <<md, parents, rows, used>>
    BY <1>4 DEF Respond, Crash
  <2>2. Idle.stage = "idle"
    BY DEF Idle
  <2>3. op' \in [Actor -> Op] /\ op'[a].stage = "idle"
    BY <1>0, <2>1, <2>2, IdleType
  <2>4. QED
    BY <1>0, <2>1, <2>3, QuietStep
<1>5. QED
  BY <1>1, <1>2, <1>3, <1>4

\* A new parent is stored under an id nobody has.
LEMMA StoreParentsKeeps ==
  ASSUME IndexInv, OneAtATime, NEW a \in Actor, NEW d \in Doc, NEW i \in Id,
         StoreParents(a, d, i)
  PROVE  IndexInv'
<1>0. /\ TypeOK /\ op \in [Actor -> Op] /\ op[a] \in Op /\ \A b \in Actor : b = a
      /\ md[d] \in Text /\ i \notin used
      /\ used' = used \cup {i} /\ parents' = parents \cup {i} /\ md' = md /\ rows' = rows
  BY DEF IndexInv, TypeOK, OneAtATime, StoreParents
<1> DEFINE o == [op[a] EXCEPT !.stage = "add", !.ids = {i}, !.text = {md[d]}]
<1>1. o \in Op /\ o.stage = "add" /\ o.ids = {i} /\ o.text = {md[d]} /\ o.doc = {d}
  BY <1>0 DEF Op, Stage, StoreParents, On
<1>2. op' = [op EXCEPT ![a] = o]
  BY <1>0 DEF StoreParents
<1>3. op' \in [Actor -> Op] /\ op'[a] = o
  BY <1>0, <1>1, <1>2
<1>4. TypeOK'
  BY <1>0, <1>3 DEF TypeOK
<1>5. ParentsUnshared' /\ (DropWorks => RowsHaveParents')
  BY <1>0 DEF IndexInv, ParentsUnshared, RowsHaveParents
<1>6. AddingToFresh'
  <2>1. \A r \in rows : r.parent # i
    BY <1>0 DEF IndexInv, ParentsUnshared
  <2>2. QED
    BY <1>0, <1>1, <1>3, <2>1 DEF AddingToFresh
<1>7. DeletingUnused' /\ ClearingEmpty'
  BY <1>0, <1>1, <1>3 DEF DeletingUnused, ClearingEmpty, At
<1>8. QED
  BY <1>4, <1>5, <1>6, <1>7 DEF IndexInv

\* What AddChildren adds: one row, or none for a blank text.
LEMMA AddedRows ==
  ASSUME NEW i, NEW d, NEW t
  PROVE  rows \cup [parent : {i}, src : {d}, hash : {t} \ Blank]
           = IF t \in Blank THEN rows ELSE rows \cup {[parent |-> i, src |-> d, hash |-> t]}
<1> DEFINE new   == [parent |-> i, src |-> d, hash |-> t]
           added == [parent : {i}, src : {d}, hash : {t} \ Blank]
<1>1. ASSUME NEW x \in added
      PROVE  x = new /\ t \notin Blank
  <2>1. x.parent = i /\ x.src = d /\ x.hash = t /\ t \notin Blank
    OBVIOUS
  <2>2. x = [parent |-> x.parent, src |-> x.src, hash |-> x.hash]
    OBVIOUS
  <2>3. QED
    BY <2>1, <2>2
<1>2. t \notin Blank => new \in added
  OBVIOUS
<1> HIDE DEF new, added
<1>3. rows \cup added = IF t \in Blank THEN rows ELSE rows \cup {new}
  BY <1>1, <1>2
<1>4. QED
  BY <1>3 DEF new, added

\* Children are added below the parent stored just before.
LEMMA AddChildrenKeeps ==
  ASSUME IndexInv, OneAtATime, NEW a \in Actor, NEW d \in Doc, AddChildren(a, d)
  PROVE  IndexInv'
<1>0. /\ TypeOK /\ op \in [Actor -> Op] /\ op[a] \in Op /\ \A b \in Actor : b = a
      /\ md' = md /\ parents' = parents /\ used' = used
      /\ At(a, "add")
  BY DEF IndexInv, TypeOK, OneAtATime, AddChildren
<1>1. PICK i \in parents \cap used : op[a].ids = {i} /\ \A r \in rows : r.parent # i
  BY <1>0 DEF IndexInv, AddingToFresh
<1>2. PICK t \in Text : op[a].text = {t}
  BY <1>0 DEF IndexInv, AddingToFresh
<1> DEFINE new == [parent |-> i, src |-> d, hash |-> t]
<1>3. rows' = IF t \in Blank THEN rows ELSE rows \cup {new}
  <2>1. rows' = rows \cup [parent : {i}, src : {d}, hash : {t} \ Blank]
    BY <1>1, <1>2 DEF AddChildren
  <2>2. QED
    BY <2>1, AddedRows
<1>4. new \in Row /\ new.parent = i
  BY <1>0, <1>1 DEF Row, TypeOK
<1> DEFINE s == IF op[a].kind = "reindex" THEN "scan" ELSE "returned"
           r0 == IF op[a].kind = "reindex" THEN "none" ELSE "ok"
           o == [op[a] EXCEPT !.stage = s, !.result = r0, !.ids = {}, !.text = {}]
<1>5. s \in {"scan", "returned"} /\ r0 \in {"none", "ok"}
  OBVIOUS
<1>6. op' = [op EXCEPT ![a] = o]
  BY <1>0 DEF AddChildren, Indexed
<1>7. o \in Op /\ o.stage \in {"scan", "returned"}
  <2> HIDE DEF s, r0
  <2>1. QED
    BY <1>0, <1>5 DEF Op, Stage
<1>8. op' \in [Actor -> Op] /\ op'[a].stage \in {"scan", "returned"}
  <2> HIDE DEF o
  <2>1. QED
    BY <1>0, <1>6, <1>7
<1> HIDE DEF o, s, r0, new
<1>9. TypeOK'
  BY <1>0, <1>3, <1>4, <1>8 DEF TypeOK
<1>10. ParentsUnshared'
  BY <1>0, <1>1, <1>3, <1>4 DEF IndexInv, ParentsUnshared
<1>11. DropWorks => RowsHaveParents'
  BY <1>0, <1>1, <1>3, <1>4 DEF IndexInv, RowsHaveParents
<1>12. AddingToFresh' /\ DeletingUnused' /\ ClearingEmpty'
  BY <1>0, <1>8 DEF AddingToFresh, DeletingUnused, ClearingEmpty, At
<1>13. QED
  BY <1>9, <1>10, <1>11, <1>12 DEF IndexInv

\* The rows of a document go with every reference to the parents that follow.
LEMMA DeleteRowsKeeps ==
  ASSUME IndexInv, OneAtATime, NEW a \in Actor, NEW d \in Doc, DeleteRows(a, d)
  PROVE  IndexInv'
<1> DEFINE hit == Matching(a, d)
<1>0. /\ TypeOK /\ op \in [Actor -> Op] /\ op[a] \in Op /\ \A b \in Actor : b = a
      /\ md' = md /\ parents' = parents /\ used' = used
      /\ rows' = rows \ hit /\ hit \subseteq rows
  BY DEF IndexInv, TypeOK, OneAtATime, DeleteRows, Matching
<1> DEFINE s == IF hit = {} THEN AfterRows(a) ELSE "mdelete"
           r0 == IF hit = {} /\ op[a].kind = "remove" THEN "ok" ELSE "none"
           gone == {r.parent : r \in hit}
           found == hit # {}
           o == [op[a] EXCEPT !.stage = s, !.result = r0, !.found = found, !.ids = gone]
<1>1. s \in {"unlink", "mset", "returned", "mdelete"} /\ r0 \in {"ok", "none"}
  BY DEF AfterRows
<1>2. gone \subseteq Id
  BY <1>0 DEF TypeOK, Row
<1>3. op' = [op EXCEPT ![a] = o]
  BY <1>0 DEF DeleteRows
<1>4. o \in Op /\ o.stage = s /\ o.ids = gone
  <2>0. op[a] \in Op
    BY <1>0
  <2>1. found \in BOOLEAN /\ gone \in SUBSET Id
    BY <1>2
  <2>2. s \in Stage /\ r0 \in {"none", "ok", "partial", "skipped", "error"}
    BY <1>1 DEF Stage
  <2> HIDE DEF s, r0, gone, found
  <2>3. QED
    BY Zenon, <2>0, <2>1, <2>2 DEF Op
<1>5. op' \in [Actor -> Op] /\ op'[a].stage = s /\ op'[a].ids = gone
  <2>1. op'[a] = o
    BY <1>0, <1>3
  <2>2. op' \in [Actor -> Op]
    <3> HIDE DEF o
    <3>1. QED
      BY <1>0, <1>3, <1>4
  <2>3. QED
    BY <1>4, <2>1, <2>2
<1>6. \A r \in rows' : r.parent \notin gone
  BY <1>0 DEF IndexInv, ParentsUnshared
<1> HIDE DEF o, s, r0, gone, hit
<1>7. TypeOK'
  BY <1>0, <1>5 DEF TypeOK
<1>8. ParentsUnshared' /\ (DropWorks => RowsHaveParents')
  BY <1>0 DEF IndexInv, ParentsUnshared, RowsHaveParents
<1>9. AddingToFresh' /\ ClearingEmpty'
  BY <1>0, <1>1, <1>5 DEF AddingToFresh, ClearingEmpty, At
<1>10. DeletingUnused'
  BY <1>0, <1>5, <1>6 DEF DeletingUnused
<1>11. QED
  BY <1>7, <1>8, <1>9, <1>10 DEF IndexInv

LEMMA DeleteParentsKeeps ==
  ASSUME IndexInv, OneAtATime, NEW a \in Actor, DeleteParents(a)
  PROVE  IndexInv'
<1>0. /\ TypeOK /\ op \in [Actor -> Op] /\ op[a] \in Op /\ \A b \in Actor : b = a
      /\ md' = md /\ rows' = rows /\ used' = used
      /\ parents' \in {parents, parents \ op[a].ids}
      /\ \A r \in rows : r.parent \notin op[a].ids
  BY DEF IndexInv, TypeOK, OneAtATime, DeleteParents, DeletingUnused
<1> DEFINE s == AfterRows(a)
           r0 == IF op[a].kind = "remove" THEN "ok" ELSE "none"
           o == [op[a] EXCEPT !.stage = s, !.ids = {}, !.result = r0]
<1>1. s \in {"unlink", "mset", "returned"} /\ r0 \in {"ok", "none"}
  BY DEF AfterRows
<1>2. op' = [op EXCEPT ![a] = o]
  BY <1>0 DEF DeleteParents
<1>3. o \in Op /\ o.stage = s
  <2> HIDE DEF s, r0
  <2>1. QED
    BY <1>0, <1>1 DEF Op, Stage
<1>4. op' \in [Actor -> Op] /\ op'[a].stage = s
  <2> HIDE DEF o, s
  <2>1. QED
    BY <1>0, <1>2, <1>3
<1> HIDE DEF o, s, r0
<1>5. TypeOK'
  BY <1>0, <1>4 DEF TypeOK
<1>6. ParentsUnshared' /\ (DropWorks => RowsHaveParents')
  BY <1>0 DEF IndexInv, ParentsUnshared, RowsHaveParents
<1>7. AddingToFresh' /\ ClearingEmpty' /\ DeletingUnused'
  BY <1>0, <1>1, <1>4 DEF AddingToFresh, ClearingEmpty, DeletingUnused, At
<1>8. QED
  BY <1>5, <1>6, <1>7 DEF IndexInv

\* The tables are gone before the docstore goes, if they can be dropped.
LEMMA DropTablesKeeps ==
  ASSUME IndexInv, OneAtATime, NEW a \in Actor, DropTables(a)
  PROVE  IndexInv'
<1>0. /\ TypeOK /\ op \in [Actor -> Op] /\ op[a] \in Op /\ \A b \in Actor : b = a
      /\ md' = md /\ parents' = parents /\ used' = used
      /\ rows' \subseteq rows /\ (DropWorks => rows' = {})
      /\ op' = [op EXCEPT ![a] = [op[a] EXCEPT !.stage = "rmtree"]]
  BY DEF IndexInv, TypeOK, OneAtATime, DropTables, DropWorks, Goto
<1>1. [op[a] EXCEPT !.stage = "rmtree"] \in Op /\ [op[a] EXCEPT !.stage = "rmtree"].stage = "rmtree"
  BY <1>0 DEF Op, Stage
<1>2. op' \in [Actor -> Op] /\ op'[a].stage = "rmtree"
  BY <1>0, <1>1
<1>3. TypeOK'
  BY <1>0, <1>2 DEF TypeOK
<1>4. ParentsUnshared'
  BY <1>0 DEF IndexInv, ParentsUnshared
<1>5. DropWorks => RowsHaveParents' /\ ClearingEmpty'
  BY <1>0 DEF RowsHaveParents, ClearingEmpty
<1>6. AddingToFresh' /\ DeletingUnused'
  BY <1>0, <1>2 DEF AddingToFresh, DeletingUnused, At
<1>7. QED
  BY <1>3, <1>4, <1>5, <1>6 DEF IndexInv

LEMMA RemoveDocstoreKeeps ==
  ASSUME IndexInv, OneAtATime, NEW a \in Actor, RemoveDocstore(a)
  PROVE  IndexInv'
<1> DEFINE todo == {d \in Doc : md[d] # NoFile}
           o == [op[a] EXCEPT !.stage = "scan", !.todo = todo]
<1>0. /\ TypeOK /\ op \in [Actor -> Op] /\ op[a] \in Op /\ \A b \in Actor : b = a
      /\ md' = md /\ parents' = {} /\ used' = used /\ rows' = rows
      /\ op' = [op EXCEPT ![a] = o]
      /\ (DropWorks => rows = {})
  BY DEF IndexInv, TypeOK, OneAtATime, RemoveDocstore, ClearingEmpty
<1>1. o \in Op /\ o.stage = "scan"
  <2>1. todo \subseteq Doc
    OBVIOUS
  <2> HIDE DEF todo
  <2>2. QED
    BY <1>0, <2>1 DEF Op, Stage
<1>2. op' \in [Actor -> Op] /\ op'[a].stage = "scan"
  <2> HIDE DEF o
  <2>1. QED
    BY <1>0, <1>1
<1> HIDE DEF o, todo
<1>3. TypeOK'
  BY <1>0, <1>2 DEF TypeOK
<1>4. ParentsUnshared'
  BY <1>0 DEF IndexInv, ParentsUnshared
<1>5. DropWorks => RowsHaveParents' /\ ClearingEmpty'
  BY <1>0 DEF RowsHaveParents, ClearingEmpty
<1>6. AddingToFresh' /\ DeletingUnused'
  BY <1>0, <1>2 DEF AddingToFresh, DeletingUnused, At
<1>7. QED
  BY <1>3, <1>4, <1>5, <1>6 DEF IndexInv

LEMMA InitIndex == Init => IndexInv
<1> SUFFICES ASSUME Init PROVE IndexInv
  OBVIOUS
<1>1. TypeOK
  BY IdleType DEF Init, TypeOK
<1>2. \A a \in Actor : op[a].stage = "idle"
  BY DEF Init, Idle
<1>3. ParentsUnshared /\ RowsHaveParents
  BY DEF Init, ParentsUnshared, RowsHaveParents
<1>4. AddingToFresh /\ DeletingUnused /\ ClearingEmpty
  BY <1>2 DEF AddingToFresh, DeletingUnused, ClearingEmpty, At
<1>5. QED
  BY <1>1, <1>3, <1>4 DEF IndexInv

\* Every step of the one mutation in progress keeps the invariant.
LEMMA NextIndex ==
  ASSUME IndexInv, OneAtATime, [Next]_vars
  PROVE  IndexInv'
<1>1. CASE UNCHANGED vars
  BY <1>1 DEF vars, IndexInv, TypeOK, ParentsUnshared, AddingToFresh, DeletingUnused,
              ClearingEmpty, RowsHaveParents, At
<1>2. ASSUME NEW a \in Actor, NEW d \in Doc,
             \/ \E t \in Text, f \in Formats, m \in UploadModes : Upload(a, d, t, f, m)
             \/ \E n \in DeleteNames : Delete(a, d, n)
             \/ Remove(a, d)
             \/ Update(a, d)
      PROVE  IndexInv'
  BY <1>2, StartKeeps
<1>3. ASSUME NEW a \in Actor, NEW d \in Doc,
             \/ \E t \in Text : Convert(a, d, t)
             \/ ConvertFails(a, d)
             \/ StoreParentsFails(a, d)
             \/ Unlink(a, d)
             \/ UnlinkFails(a, d)
             \/ ReindexFile(a, d)
      PROVE  IndexInv'
  BY <1>3, BetweenKeeps
<1>4. ASSUME NEW a \in Actor, NEW d \in Doc, NEW i \in Id, StoreParents(a, d, i)
      PROVE  IndexInv'
  BY <1>4, StoreParentsKeeps
<1>5. ASSUME NEW a \in Actor, NEW d \in Doc, AddChildren(a, d) \/ DeleteRows(a, d)
      PROVE  IndexInv'
  BY <1>5, AddChildrenKeeps, DeleteRowsKeeps
<1>6. ASSUME NEW a \in Actor,
             \/ DeleteParents(a)
             \/ DropTables(a)
             \/ RemoveDocstore(a)
      PROVE  IndexInv'
  BY <1>6, DeleteParentsKeeps, DropTablesKeeps, RemoveDocstoreKeeps
<1>7. ASSUME NEW a \in Actor, AddChildrenFails(a)
      PROVE  IndexInv'
  BY <1>7, IndexFailedStep DEF AddChildrenFails
<1>8. ASSUME NEW a \in Actor,
             \/ DeleteRowsFails(a)
             \/ Reindex(a)
             \/ ReindexDone(a)
             \/ Respond(a)
             \/ Crash(a)
      PROVE  IndexInv'
  BY <1>8, ControlKeeps
<1>9. QED
  BY <1>1, <1>2, <1>3, <1>4, <1>5, <1>6, <1>7, <1>8 DEF Next

\* No search hit ever loses its parent document to a failed or interrupted
\* upload, deletion or reindex.
THEOREM ChildrenKeepParents ==
  ASSUME OneAtATime, DropWorks
  PROVE  Spec => []RowsHaveParents
<1>1. IndexInv /\ [Next]_vars => IndexInv'
  BY NextIndex
<1>2. IndexInv => RowsHaveParents
  BY DEF IndexInv
<1>3. QED
  BY <1>1, <1>2, InitIndex, PTL DEF Spec

\* Every variable keeps its type, the locals of each operation included.
THEOREM IndexTypes ==
  ASSUME OneAtATime
  PROVE  Spec => []TypeOK
<1>1. IndexInv /\ [Next]_vars => IndexInv'
  BY NextIndex
<1>2. IndexInv => TypeOK
  BY DEF IndexInv
<1>3. QED
  BY <1>1, <1>2, InitIndex, PTL DEF Spec

(* ------------------------- deletes, updates, reindexes -------------------- *)

\* What is about the operation and not about its progress.
Same(a) == op'[a].kind = op[a].kind /\ op'[a].doc = op[a].doc /\ op'[a].name = op[a].name

LEMMA OpTyped ==
  ASSUME IndexInv, NEW a \in Actor
  PROVE  /\ op \in [Actor -> Op] /\ op[a] \in Op
         /\ md \in [Doc -> Text \cup {NoFile, Unreadable}] /\ rows \subseteq Row
BY DEF IndexInv, TypeOK

LEMMA WentTo ==
  ASSUME IndexInv, NEW a \in Actor, NEW s, Goto(a, s)
  PROVE  /\ Same(a) /\ op'[a].stage = s /\ op'[a].todo = op[a].todo
         /\ op'[a].failed = op[a].failed /\ op'[a].result = op[a].result
BY OpTyped DEF Goto, Op, Same

LEMMA Returned ==
  ASSUME IndexInv, NEW a \in Actor, NEW r, Return(a, r)
  PROVE  /\ Same(a) /\ op'[a].stage = "returned" /\ op'[a].todo = op[a].todo
         /\ op'[a].failed = op[a].failed /\ op'[a].result = r
BY OpTyped DEF Return, Op, Same

LEMMA FailedIndexing ==
  ASSUME IndexInv, NEW a \in Actor, IndexFailed(a)
  PROVE  /\ Same(a) /\ op'[a].todo = op[a].todo /\ op'[a].failed
         /\ op[a].kind = "reindex" => op'[a].stage = "scan"
         /\ op[a].kind # "reindex" => op'[a].stage = "returned"
BY OpTyped DEF IndexFailed, Op, Same

LEMMA DoneIndexing ==
  ASSUME IndexInv, NEW a \in Actor, Indexed(a)
  PROVE  /\ Same(a) /\ op'[a].todo = op[a].todo /\ op'[a].failed = op[a].failed
         /\ op[a].kind = "reindex" => op'[a].stage = "scan"
         /\ op[a].kind # "reindex" => op'[a].stage = "returned"
BY OpTyped DEF Indexed, Op, Same

\* An operation that has just begun, or ended, has nothing to keep yet.
LEMMA BegunOutcome ==
  ASSUME OneAtATime, NEW a \in Actor,
         \/ op'[a].kind = "none" /\ op'[a].stage = "idle"
         \/ op'[a].kind = "upload" /\ op'[a].stage \in {"convert", "mset", "returned"}
         \/ op'[a].kind \in {"delete", "remove", "update"} /\ op'[a].stage = "rows"
         \/ op'[a].kind = "reindex" /\ op'[a].stage = "drop",
         op'[a].name = ".md" \/ (op'[a].kind = "delete" /\ ~NamedByMd)
  PROVE  Outcome'
<1>1. \A b \in Actor : b = a
  BY DEF OneAtATime
<1>2. Staged' /\ Named' /\ AddingCurrent'
  BY <1>1 DEF Staged, Named, AddingCurrent, At
<1>3. Updating' /\ Deleting' /\ Rebuilding'
  BY <1>1 DEF Updating, Deleting, Rebuilding, At
<1>4. QED
  BY <1>2, <1>3 DEF Outcome

LEMMA StartOutcome ==
  ASSUME IndexInv, OneAtATime, NEW a \in Actor,
         \/ \E d \in Doc, t \in Text, f \in Formats, m \in UploadModes : Upload(a, d, t, f, m)
         \/ \E d \in Doc, n \in DeleteNames : Delete(a, d, n)
         \/ \E d \in Doc : Remove(a, d) \/ Update(a, d)
         \/ Reindex(a) \/ Respond(a) \/ Crash(a)
  PROVE  Outcome'
<1>0. op \in [Actor -> Op]
  BY OpTyped
<1>1. CASE \E d \in Doc, t \in Text, f \in Formats, m \in UploadModes : Upload(a, d, t, f, m)
  <2>1. PICK d \in Doc, t \in Text, f \in Formats, m \in UploadModes : Upload(a, d, t, f, m)
    BY <1>1
  <2> DEFINE dup == m = "checked" /\ AlreadyIndexed(t, f)
             s == IF dup THEN "returned" ELSE "convert"
             r == IF dup THEN "skipped" ELSE "none"
             n == [Idle EXCEPT !.stage = s, !.kind = "upload", !.doc = {d}, !.text = {t},
                               !.format = f, !.mode = m, !.result = r]
  <2>2. op'[a] = n
    <3> DEFINE first == [Idle EXCEPT !.stage = "convert", !.kind = "upload", !.doc = {d}]
    <3>1. Start(a, "convert", "upload", d) = [op EXCEPT ![a] = first]
      BY DEF Start
    <3>2. op' = [[op EXCEPT ![a] = first] EXCEPT ![a].text = {t}, ![a].format = f, ![a].mode = m,
                                                 ![a].stage = s, ![a].result = r]
      BY <2>1, <3>1 DEF Upload
    <3> HIDE DEF first, s, r
    <3>3. op'[a] = [first EXCEPT !.text = {t}, !.format = f, !.mode = m, !.stage = s, !.result = r]
      BY <1>0, <3>2
    <3>4. QED
      BY <3>3 DEF first, Idle
  <2>3. s \in {"convert", "returned"}
    OBVIOUS
  <2> HIDE DEF s, r
  <2>4. op'[a].kind = "upload" /\ op'[a].name = ".md" /\ op'[a].stage = s
    BY <2>2 DEF Idle
  <2>5. QED
    BY <2>3, <2>4, BegunOutcome
<1>2. CASE \E d \in Doc, n \in DeleteNames : Delete(a, d, n)
  <2>1. PICK d \in Doc, n \in DeleteNames : Delete(a, d, n)
    BY <1>2
  <2>2. op'[a].kind = "delete" /\ op'[a].stage = "rows" /\ op'[a].name = n
    BY <1>0, <2>1 DEF Delete, Start, Idle
  <2>3. QED
    BY <2>2, BegunOutcome, IndexAssumption DEF NamedByMd
<1>3. CASE \E d \in Doc : Remove(a, d) \/ Update(a, d)
  <2>1. op'[a].kind \in {"remove", "update"} /\ op'[a].stage = "rows" /\ op'[a].name = ".md"
    <3>1. PICK d \in Doc, kind \in {"remove", "update"} : op' = Start(a, "rows", kind, d)
      BY <1>3 DEF Remove, Update
    <3>2. op'[a] = [Idle EXCEPT !.stage = "rows", !.kind = kind, !.doc = {d}]
      BY <1>0, <3>1 DEF Start
    <3>3. QED
      BY <3>2 DEF Idle
  <2>2. QED
    BY <2>1, BegunOutcome
<1>4. CASE Reindex(a)
  <2>1. op'[a].kind = "reindex" /\ op'[a].stage = "drop" /\ op'[a].name = ".md"
    BY <1>0, <1>4 DEF Reindex, Idle
  <2>2. QED
    BY <2>1, BegunOutcome
<1>5. CASE Respond(a) \/ Crash(a)
  <2>1. op'[a].kind = "none" /\ op'[a].stage = "idle" /\ op'[a].name = ".md"
    BY <1>0, <1>5 DEF Respond, Crash, Idle
  <2>2. QED
    BY <2>1, BegunOutcome
<1>6. QED
  BY <1>1, <1>2, <1>3, <1>4, <1>5

LEMMA ConvertOutcome ==
  ASSUME IndexInv, Outcome, OneAtATime, NEW a \in Actor, NEW d \in Doc,
         (\E t \in Text : Convert(a, d, t)) \/ ConvertFails(a, d)
  PROVE  Outcome'
<1>1. At(a, "convert") /\ op[a].kind = "upload" /\ op[a].name = ".md"
  BY DEF Convert, ConvertFails, Outcome, Staged, Named
<1>2. Goto(a, "mset") \/ \E r : Return(a, r)
  BY DEF Convert, ConvertFails
<1>3. /\ op'[a].kind = "upload" /\ op'[a].name = ".md"
      /\ op'[a].stage \in {"mset", "returned"}
  BY <1>1, <1>2, WentTo, Returned DEF Same
<1>4. QED
  BY <1>3, BegunOutcome

LEMMA StoreParentsOutcome ==
  ASSUME IndexInv, Outcome, OneAtATime, NEW a \in Actor, NEW d \in Doc, NEW i \in Id,
         StoreParents(a, d, i)
  PROVE  Outcome'
<1>0. \A b \in Actor : b = a
  BY DEF OneAtATime
<1>1. /\ Same(a) /\ op'[a].todo = op[a].todo /\ op'[a].failed = op[a].failed
      /\ op'[a].stage = "add" /\ op'[a].text = {md[d]}
      /\ op[a].stage = "mset" /\ op[a].doc = {d} /\ UNCHANGED <<md, rows>>
  BY OpTyped DEF StoreParents, Op, Same, At, On
<1>2. Staged' /\ Named'
  BY <1>0, <1>1 DEF Outcome, Staged, Named, At, Same
<1>3. AddingCurrent'
  BY <1>0, <1>1 DEF AddingCurrent, On, Same
<1>4. Deleting'
  BY <1>0, <1>1, <1>2 DEF Deleting, Staged, At
<1>5. Updating'
  BY <1>0, <1>1 DEF Outcome, Updating, At, On, Same, RowsOf
<1>6. DropWorks => Rebuilding'
  <2>1. Pending(a)' = Pending(a)
    BY <1>1 DEF Pending, At, Same
  <2>2. QED
    BY <1>0, <1>1, <2>1 DEF Outcome, Rebuilding, At, Same
<1>7. QED
  BY <1>2, <1>3, <1>4, <1>5, <1>6 DEF Outcome

\* An index_file that raised leaves the index incomplete, and says so.
LEMMA IndexFailedOutcome ==
  ASSUME IndexInv, Outcome, OneAtATime, NEW a \in Actor, At(a, "mset") \/ At(a, "add"),
         IndexFailed(a), UNCHANGED <<md, rows>>
  PROVE  Outcome'
<1>0. \A b \in Actor : b = a
  BY DEF OneAtATime
<1>1. /\ Same(a) /\ op'[a].todo = op[a].todo /\ op'[a].failed
      /\ op[a].kind = "reindex" => op'[a].stage = "scan"
      /\ op[a].kind # "reindex" => op'[a].stage = "returned"
      /\ op[a].kind \in {"upload", "update", "reindex"}
  BY FailedIndexing DEF Outcome, Staged
<1>2. Staged' /\ Named' /\ AddingCurrent'
  BY <1>0, <1>1 DEF Outcome, Staged, Named, AddingCurrent, At, Same
<1>3. Deleting' /\ Updating'
  BY <1>0, <1>1 DEF Deleting, Updating, At, Same
<1>4. DropWorks => Rebuilding'
  <2>1. op[a].kind = "reindex" => Pending(a)' \subseteq Pending(a)
    BY <1>1 DEF Pending, At
  <2>2. QED
    BY <1>0, <1>1, <2>1 DEF Outcome, Rebuilding, At, Same
<1>5. QED
  BY <1>2, <1>3, <1>4 DEF Outcome

\* The row of a document is the text of its file, and the only one where the old went first.
LEMMA AddChildrenOutcome ==
  ASSUME IndexInv, Outcome, OneAtATime, NEW a \in Actor, NEW d \in Doc, AddChildren(a, d)
  PROVE  Outcome'
<1>0. (\A b \in Actor : b = a) /\ UNCHANGED <<md, parents>> /\ At(a, "add") /\ op[a].doc = {d}
  BY DEF OneAtATime, AddChildren, On
<1>1. /\ Same(a) /\ op'[a].todo = op[a].todo /\ op'[a].failed = op[a].failed
      /\ op[a].kind = "reindex" => op'[a].stage = "scan"
      /\ op[a].kind # "reindex" => op'[a].stage = "returned"
      /\ op[a].kind \in {"upload", "update", "reindex"}
  BY <1>0, DoneIndexing DEF AddChildren, Outcome, Staged
<1>2. PICK i \in parents : op[a].ids = {i}
  BY <1>0 DEF IndexInv, AddingToFresh
<1>3. op[a].text = {md[d]}
  BY <1>0 DEF Outcome, AddingCurrent, On
<1> DEFINE new == [parent |-> i, src |-> d, hash |-> md[d]]
<1>4. rows' = IF md[d] \in Blank THEN rows ELSE rows \cup {new}
  <2>1. rows' = rows \cup [parent : {i}, src : {d}, hash : {md[d]} \ Blank]
    BY <1>2, <1>3 DEF AddChildren
  <2>2. QED
    BY <2>1, AddedRows
<1>5. new.src = d /\ new.hash = md[d] /\ new.parent = i
  OBVIOUS
<1> HIDE DEF new
<1>6. Staged' /\ Named' /\ AddingCurrent'
  BY <1>0, <1>1 DEF Outcome, Staged, Named, AddingCurrent, At, Same
<1>7. Deleting'
  BY <1>0, <1>1 DEF Deleting, Same
<1>8. Updating'
  <2> SUFFICES ASSUME op[a].kind = "update", ~op[a].failed
               PROVE  Replaced(d)'
    BY <1>0, <1>1 DEF Updating, At, On, Same
  <2>1. RowsOf(d) = {}
    BY <1>0 DEF Outcome, Updating, At, On
  <2>2. RowsOf(d)' = IF md[d] \in Blank THEN {} ELSE {new}
    BY <1>4, <1>5, <2>1 DEF RowsOf
  <2>3. QED
    BY <1>0, <1>4, <1>5, <2>2 DEF Replaced
<1>9. DropWorks => Rebuilding'
  <2> SUFFICES ASSUME Rebuilding, op[a].kind = "reindex"
               PROVE  Rebuilding'
    BY <1>0, <1>1 DEF Outcome, Rebuilding, Same
  <2>1. Pending(a) = op[a].todo \cup {d} /\ Pending(a)' = op[a].todo /\ d \notin op[a].todo
    BY <1>0, <1>1 DEF Pending, At, Rebuilding
  <2> DEFINE Blanks == {x \in Doc : md[x] \in Blank}
             Files  == {x \in Doc : md[x] # NoFile} \ Blanks
  <2>2. /\ \A r \in rows : r.hash = md[r.src] /\ r.hash \notin Blank /\ r.src \notin Pending(a)
        /\ \A r, s \in rows : r.src = s.src => r = s
        /\ ~op[a].failed => ({r.src : r \in rows} \cup Pending(a)) \ Blanks = Files
    BY <1>0 DEF Rebuilding, At
  <2>3. /\ \A r \in rows' : r.hash = md[r.src] /\ r.hash \notin Blank /\ r.src \notin Pending(a)'
        /\ \A r, s \in rows' : r.src = s.src => r = s
    BY <1>4, <1>5, <2>1, <2>2
  <2>4. {r.src : r \in rows'} \ Blanks = ({r.src : r \in rows} \cup {d}) \ Blanks
    BY <1>4, <1>5
  <2>5. ~op[a].failed => ({r.src : r \in rows'} \cup Pending(a)') \ Blanks = Files
    BY <2>1, <2>2, <2>4
  <2>6. QED
    BY <1>0, <1>1, <2>3, <2>5 DEF Rebuilding, At
<1>10. QED
  BY <1>6, <1>7, <1>8, <1>9 DEF Outcome

\* All rows of the document go, if it is named as they name it.
LEMMA DeleteRowsOutcome ==
  ASSUME IndexInv, Outcome, OneAtATime, NEW a \in Actor, NEW d \in Doc, DeleteRows(a, d)
  PROVE  Outcome'
<1> DEFINE hit == Matching(a, d)
           s == IF hit = {} THEN AfterRows(a) ELSE "mdelete"
           r0 == IF hit = {} /\ op[a].kind = "remove" THEN "ok" ELSE "none"
           found == hit # {}
           gone == {r.parent : r \in hit}
           o == [op[a] EXCEPT !.stage = s, !.result = r0, !.found = found, !.ids = gone]
<1>0. /\ \A b \in Actor : b = a
      /\ md' = md /\ rows' = rows \ hit /\ op[a].doc = {d}
      /\ op[a].kind \in {"delete", "remove", "update"}
      /\ op' = [op EXCEPT ![a] = o]
  BY OpTyped DEF OneAtATime, DeleteRows, Outcome, Staged, On
<1>1. /\ op[a].kind = "delete" => s \in {"mdelete", "unlink"}
      /\ op[a].kind = "update" => s \in {"mdelete", "mset"}
      /\ op[a].kind = "remove" => s \in {"mdelete", "returned"}
  BY <1>0 DEF AfterRows
<1>2. Same(a) /\ op'[a].stage = s
  <2> HIDE DEF s, r0, found, gone, hit
  <2>1. QED
    BY <1>0, OpTyped DEF Op, Same
<1>3. op[a].name = ".md" => RowsOf(d)' = {}
  BY <1>0 DEF Matching, RowsOf
<1> HIDE DEF hit, s
<1>4. Staged' /\ Named' /\ AddingCurrent'
  BY <1>0, <1>1, <1>2 DEF Outcome, Staged, Named, AddingCurrent, At, Same
<1>5. NamedByMd => Deleting'
  <2> SUFFICES ASSUME NamedByMd, op[a].kind = "delete"
               PROVE  Deleting'
    BY <1>0, <1>2 DEF Deleting, Same
  <2>1. RowsOf(d)' = {}
    BY <1>0, <1>3 DEF Outcome, Named
  <2>2. QED
    BY <1>0, <1>1, <1>2, <2>1 DEF Deleting, At, On, Same
<1>6. Updating'
  <2> SUFFICES ASSUME op[a].kind = "update"
               PROVE  Updating'
    BY <1>0, <1>2 DEF Updating, Same
  <2>1. RowsOf(d)' = {}
    BY <1>0, <1>3 DEF Outcome, Named
  <2>2. QED
    BY <1>0, <1>1, <1>2, <2>1 DEF Updating, At, On, Same
<1>7. Rebuilding'
  BY <1>0, <1>2 DEF Rebuilding, Same
<1>8. QED
  BY <1>4, <1>5, <1>6, <1>7 DEF Outcome

\* The docstore is behind the rows: what it does changes no row.
LEMMA DeleteParentsOutcome ==
  ASSUME IndexInv, Outcome, OneAtATime, NEW a \in Actor, DeleteParents(a)
  PROVE  Outcome'
<1> DEFINE s == AfterRows(a)
           r0 == IF op[a].kind = "remove" THEN "ok" ELSE "none"
           o == [op[a] EXCEPT !.stage = s, !.ids = {}, !.result = r0]
<1>0. /\ \A b \in Actor : b = a
      /\ UNCHANGED <<md, rows>> /\ At(a, "mdelete")
      /\ op[a].kind \in {"delete", "remove", "update"}
      /\ op' = [op EXCEPT ![a] = o]
  BY OpTyped DEF OneAtATime, DeleteParents, Outcome, Staged
<1>1. /\ op[a].kind = "delete" => s = "unlink"
      /\ op[a].kind = "update" => s = "mset"
      /\ op[a].kind = "remove" => s = "returned"
  BY <1>0 DEF AfterRows
<1>2. Same(a) /\ op'[a].stage = s /\ op'[a].failed = op[a].failed
  <2> HIDE DEF s, r0
  <2>1. QED
    BY <1>0, OpTyped DEF Op, Same
<1> HIDE DEF s
<1>3. Staged' /\ Named' /\ AddingCurrent'
  BY <1>0, <1>1, <1>2 DEF Outcome, Staged, Named, AddingCurrent, At, Same
<1>4. NamedByMd => Deleting'
  BY <1>0, <1>1, <1>2 DEF Outcome, Deleting, At, On, Same, RowsOf
<1>5. Updating'
  BY <1>0, <1>1, <1>2 DEF Outcome, Updating, At, On, Same, RowsOf
<1>6. Rebuilding'
  BY <1>0, <1>2 DEF Rebuilding, Same
<1>7. QED
  BY <1>3, <1>4, <1>5, <1>6 DEF Outcome

\* A deletion of rows that raised: only a warning to an update.
LEMMA DeleteRowsFailsOutcome ==
  ASSUME IndexInv, Outcome, OneAtATime, NEW a \in Actor, DeleteRowsFails(a)
  PROVE  Outcome'
<1>0. /\ \A b \in Actor : b = a
      /\ UNCHANGED <<md, rows>>
      /\ op[a].kind \in {"delete", "remove", "update"}
  BY DEF OneAtATime, DeleteRowsFails, Outcome, Staged
<1>1. /\ Same(a)
      /\ op[a].kind = "update" => op'[a].stage = "mset" /\ op'[a].failed
      /\ op[a].kind # "update" => op'[a].stage = "returned" /\ op'[a].result = "error"
  <2>1. CASE op[a].kind = "update"
    BY <2>1, OpTyped DEF DeleteRowsFails, Op, Same
  <2>2. CASE op[a].kind # "update"
    BY <2>2, Returned DEF DeleteRowsFails
  <2>3. QED
    BY <2>1, <2>2
<1>2. Staged' /\ Named' /\ AddingCurrent'
  BY <1>0, <1>1 DEF Outcome, Staged, Named, AddingCurrent, At, Same
<1>3. Deleting' /\ Updating' /\ Rebuilding'
  BY <1>0, <1>1 DEF Deleting, Updating, Rebuilding, At, Same
<1>4. QED
  BY <1>2, <1>3 DEF Outcome

LEMMA UnlinkOutcome ==
  ASSUME IndexInv, Outcome, OneAtATime, NEW a \in Actor, NEW d \in Doc,
         Unlink(a, d) \/ UnlinkFails(a, d)
  PROVE  Outcome'
<1>0. /\ \A b \in Actor : b = a
      /\ rows' = rows /\ At(a, "unlink") /\ op[a].kind = "delete" /\ op[a].doc = {d}
  BY DEF OneAtATime, Unlink, UnlinkFails, Outcome, Staged, On
<1>1. PICK r : Return(a, r) /\ (r = "error" \/ md' = [md EXCEPT ![d] = NoFile])
  BY DEF Unlink, UnlinkFails
<1>2. Same(a) /\ op'[a].stage = "returned" /\ op'[a].result = r
  BY <1>1, Returned
<1>3. Staged' /\ Named' /\ AddingCurrent'
  BY <1>0, <1>2 DEF Outcome, Staged, Named, AddingCurrent, At, Same
<1>4. NamedByMd => Deleting'
  <2> SUFFICES ASSUME Deleting, r = "ok"
               PROVE  RowsOf(d)' = {} /\ md'[d] = NoFile
    BY <1>0, <1>2 DEF Outcome, Deleting, At, On, Same
  <2>1. RowsOf(d) = {}
    BY <1>0 DEF Deleting, On
  <2>2. QED
    BY <1>0, <1>1, <2>1, OpTyped DEF RowsOf
<1>5. Updating' /\ Rebuilding'
  BY <1>0, <1>2 DEF Updating, Rebuilding, Same
<1>6. QED
  BY <1>3, <1>4, <1>5 DEF Outcome

\* From the clear to the last file: the index holds what has been read, the rest is pending.
LEMMA ReindexOutcome ==
  ASSUME IndexInv, Outcome, OneAtATime, NEW a \in Actor,
         \/ DropTables(a) \/ RemoveDocstore(a) \/ ReindexDone(a)
         \/ \E d \in Doc : ReindexFile(a, d)
  PROVE  Outcome'
<1>0. (\A b \in Actor : b = a) /\ md' = md /\ op[a].kind = "reindex"
  BY DEF OneAtATime, DropTables, RemoveDocstore, ReindexDone, ReindexFile, Outcome, Staged
<1>1. SUFFICES /\ op'[a].kind = "reindex" /\ op'[a].name = op[a].name
               /\ op'[a].stage \in {"rmtree", "scan", "mset", "returned"}
               /\ DropWorks => Rebuilding'
  <2>1. Staged' /\ Named' /\ AddingCurrent'
    BY <1>0, <1>1 DEF Outcome, Staged, Named, AddingCurrent, At
  <2>2. Deleting' /\ Updating'
    BY <1>0, <1>1 DEF Deleting, Updating
  <2>3. QED
    BY <1>1, <2>1, <2>2 DEF Outcome
<1>2. CASE DropTables(a)
  <2>1. Same(a) /\ op'[a].stage = "rmtree"
    BY <1>2, WentTo DEF DropTables
  <2>2. Rebuilding'
    BY <1>0, <2>1 DEF Rebuilding
  <2>3. QED
    BY <1>0, <2>1, <2>2 DEF Same
<1>3. CASE RemoveDocstore(a)
  <2> DEFINE todo == {d \in Doc : md[d] # NoFile}
  <2>1. /\ Same(a) /\ op'[a].stage = "scan" /\ op'[a].todo = todo /\ rows' = rows
    <3>1. op' = [op EXCEPT ![a] = [op[a] EXCEPT !.stage = "scan", !.todo = todo]] /\ rows' = rows
      BY <1>3, OpTyped DEF RemoveDocstore
    <3> HIDE DEF todo
    <3>2. QED
      BY <3>1, OpTyped DEF Op, Same
  <2>2. DropWorks => rows' = {}
    BY <1>3, <2>1 DEF IndexInv, ClearingEmpty, RemoveDocstore
  <2>3. Pending(a)' = todo
    BY <2>1 DEF Pending, At
  <2>4. DropWorks => Rebuilding'
    BY <1>0, <2>1, <2>2, <2>3 DEF Rebuilding, At
  <2>5. QED
    BY <1>0, <2>1, <2>4 DEF Same
<1>4. CASE ReindexDone(a)
  <2>1. /\ Same(a) /\ op'[a].stage = "returned" /\ op[a].stage = "scan" /\ rows' = rows
        /\ op[a].todo = {} /\ op'[a].todo = {} /\ op'[a].failed = op[a].failed
    BY <1>4, Returned DEF ReindexDone, At
  <2>2. Pending(a)' = Pending(a)
    BY <2>1 DEF Pending, At
  <2>3. DropWorks => Rebuilding'
    BY <1>0, <2>1, <2>2 DEF Outcome, Rebuilding, At
  <2>4. QED
    BY <1>0, <2>1, <2>3 DEF Same
<1>5. ASSUME NEW d \in Doc, ReindexFile(a, d)
      PROVE  /\ op'[a].kind = "reindex" /\ op'[a].name = op[a].name
             /\ op'[a].stage \in {"rmtree", "scan", "mset", "returned"}
             /\ DropWorks => Rebuilding'
  <2>1. /\ op'[a].kind = "reindex" /\ op'[a].name = op[a].name
        /\ op[a].stage = "scan" /\ op'[a].stage = "mset"
        /\ d \in op[a].todo /\ op'[a].todo = op[a].todo \ {d} /\ op'[a].doc = {d}
        /\ op'[a].failed = op[a].failed /\ rows' = rows
    <3> DEFINE o == [op[a] EXCEPT !.stage = "mset", !.doc = {d}, !.todo = @ \ {d}]
    <3>1. op' = [op EXCEPT ![a] = o] /\ op[a].stage = "scan" /\ d \in op[a].todo /\ rows' = rows
      BY <1>5, OpTyped DEF ReindexFile, At
    <3>2. /\ o.kind = op[a].kind /\ o.name = op[a].name /\ o.failed = op[a].failed
          /\ o.stage = "mset" /\ o.todo = op[a].todo \ {d} /\ o.doc = {d}
      BY OpTyped DEF Op
    <3>3. op'[a] = o
      BY <3>1, OpTyped
    <3>4. QED
      BY <1>0, <3>1, <3>2, <3>3
  <2>2. Pending(a)' = Pending(a)
    BY <2>1 DEF Pending, At
  <2>3. DropWorks => Rebuilding'
    BY <1>0, <2>1, <2>2 DEF Outcome, Rebuilding, At
  <2>4. QED
    BY <2>1, <2>3
<1>6. QED
  BY <1>2, <1>3, <1>4, <1>5

LEMMA InitOutcome == Init => Outcome
<1> SUFFICES ASSUME Init PROVE Outcome
  OBVIOUS
<1>1. \A a \in Actor : op[a].stage = "idle" /\ op[a].kind = "none" /\ op[a].name = ".md"
  BY DEF Init, Idle
<1>2. QED
  BY <1>1 DEF Outcome, Staged, Named, AddingCurrent, Updating, Deleting, Rebuilding, At

LEMMA NextOutcome ==
  ASSUME IndexInv, Outcome, OneAtATime, [Next]_vars
  PROVE  Outcome'
<1>1. CASE UNCHANGED vars
  BY <1>1 DEF vars, Outcome, Staged, Named, AddingCurrent, Updating, Deleting, Rebuilding,
              At, On, RowsOf, Replaced, Pending
<1>2. ASSUME NEW a \in Actor, NEW d \in Doc,
             \/ \E t \in Text, f \in Formats, m \in UploadModes : Upload(a, d, t, f, m)
             \/ \E n \in DeleteNames : Delete(a, d, n)
             \/ Remove(a, d) \/ Update(a, d)
      PROVE  Outcome'
  BY <1>2, StartOutcome
<1>3. ASSUME NEW a \in Actor, Reindex(a) \/ Respond(a) \/ Crash(a)
      PROVE  Outcome'
  BY <1>3, StartOutcome
<1>4. ASSUME NEW a \in Actor, NEW d \in Doc,
             \/ \E t \in Text : Convert(a, d, t)
             \/ ConvertFails(a, d)
      PROVE  Outcome'
  BY <1>4, ConvertOutcome
<1>5. ASSUME NEW a \in Actor, NEW d \in Doc, \E i \in Id : StoreParents(a, d, i)
      PROVE  Outcome'
  BY <1>5, StoreParentsOutcome
<1>6. ASSUME NEW a \in Actor, (\E d \in Doc : StoreParentsFails(a, d)) \/ AddChildrenFails(a)
      PROVE  Outcome'
  BY <1>6, IndexFailedOutcome DEF StoreParentsFails, AddChildrenFails
<1>7. ASSUME NEW a \in Actor, NEW d \in Doc,
             \/ AddChildren(a, d) \/ DeleteRows(a, d)
             \/ Unlink(a, d) \/ UnlinkFails(a, d)
      PROVE  Outcome'
  BY <1>7, AddChildrenOutcome, DeleteRowsOutcome, UnlinkOutcome
<1>8. ASSUME NEW a \in Actor, DeleteRowsFails(a) \/ DeleteParents(a)
      PROVE  Outcome'
  BY <1>8, DeleteRowsFailsOutcome, DeleteParentsOutcome
<1>9. ASSUME NEW a \in Actor,
             \/ DropTables(a) \/ RemoveDocstore(a) \/ ReindexDone(a)
             \/ \E d \in Doc : ReindexFile(a, d)
      PROVE  Outcome'
  BY <1>9, ReindexOutcome
<1>10. QED
  BY <1>1, <1>2, <1>3, <1>4, <1>5, <1>6, <1>7, <1>8, <1>9 DEF Next

LEMMA OutcomeInvariant ==
  ASSUME OneAtATime
  PROVE  Spec => []OutcomeInv
<1>1. Init => OutcomeInv
  BY InitIndex, InitOutcome DEF OutcomeInv
<1>2. OutcomeInv /\ [Next]_vars => OutcomeInv'
  BY NextIndex, NextOutcome DEF OutcomeInv
<1>3. QED
  BY <1>1, <1>2, PTL DEF Spec

\* A deletion that reports success has left neither the file nor a chunk of the document,
\* whatever failed before it, as long as documents are named as their rows are.
THEOREM DeletesForget ==
  ASSUME OneAtATime, NamedByMd
  PROVE  Spec => []DeleteForgets
<1>1. OutcomeInv => DeleteForgets
  BY DEF OutcomeInv, Outcome, Deleting, DeleteForgets, RowsOf
<1>2. QED
  BY <1>1, OutcomeInvariant, PTL

\* reindex.py --file leaves one entry of the current text, or none when that is blank, whatever
\* was in the index of that file before, unless it warned; also when clear_index could not
\* drop the tables.
THEOREM UpdatesReplace ==
  ASSUME OneAtATime
  PROVE  Spec => []UpdateReplaces
<1>1. OutcomeInv => UpdateReplaces
  BY DEF OutcomeInv, Outcome, Updating, UpdateReplaces, Replaced, RowsOf
<1>2. QED
  BY <1>1, OutcomeInvariant, PTL

\* After a reindex that reports success the index is that of the files, of nothing else, and
\* complete but for blank files unless a failure was counted.
THEOREM ReindexesRebuild ==
  ASSUME OneAtATime, DropWorks
  PROVE  Spec => []ReindexRebuilds
<1>1. OutcomeInv => ReindexRebuilds
  <2> SUFFICES ASSUME OutcomeInv, NEW a \in Actor,
                      At(a, "returned"), op[a].kind = "reindex"
               PROVE  /\ \A r \in rows : r.hash = md[r.src] /\ r.parent \in parents
                      /\ \A r, s \in rows : r.src = s.src => r = s
                      /\ ~op[a].failed =>
                           {r.src : r \in rows} = {d \in Doc : md[d] \notin Blank \cup {NoFile}}
    BY DEF ReindexRebuilds
  <2>1. Pending(a) = {}
    BY DEF Pending, OutcomeInv, Outcome, Rebuilding, At
  <2>2. /\ \A r \in rows : /\ r.hash = md[r.src] /\ r.parent \in parents
                           /\ r.src \in Doc /\ md[r.src] \notin Blank
        /\ \A r, s \in rows : r.src = s.src => r = s
    BY DEF OutcomeInv, IndexInv, Outcome, Rebuilding, RowsHaveParents, TypeOK, Row, At
  <2>3. ASSUME ~op[a].failed
        PROVE  {r.src : r \in rows} = {d \in Doc : md[d] \notin Blank \cup {NoFile}}
    <3> DEFINE Blanks == {d \in Doc : md[d] \in Blank}
    <3>1. ({r.src : r \in rows} \cup Pending(a)) \ Blanks = {d \in Doc : md[d] # NoFile} \ Blanks
      BY <2>3 DEF OutcomeInv, Outcome, Rebuilding, At
    <3>2. {r.src : r \in rows} \ Blanks = {r.src : r \in rows}
      BY <2>2
    <3>3. QED
      BY <2>1, <3>1, <3>2
  <2>4. QED
    BY <2>2, <2>3
<1>2. QED
  BY <1>1, OutcomeInvariant, PTL

=============================================================================
