\* One mutation at a time over two documents, two texts and a blank one, at most four
\* parents stored, and every store failing where its caller copes with it.
SPECIFICATION Spec
CONSTANTS
  Actor = {api}
  Doc = {d1, d2}
  Text = {x1, x2, blank}
  Blank = {blank}
  Id = {i1, i2, i3, i4}
  Formats = {"md", "txt"}
  UploadModes = {"checked", "overwrite", "unindexed"}
  DeleteNames = {".md"}
  Faults = {"convert", "mset", "add", "rows", "mdelete", "unlink"}
  NoFile = NoFile
  Unreadable = Unreadable
SYMMETRY Interchangeable
CHECK_DEADLOCK FALSE
INVARIANTS RowsHaveParents DeleteForgets ReindexRebuilds UpdateReplaces
