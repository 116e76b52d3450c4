\* The documents of the first instance, uploaded in a binary format and deleted
\* under the name they were uploaded with, while every store works.
SPECIFICATION Spec
CONSTANTS
  Actor = {api}
  Doc = {d1, d2}
  Text = {x1, x2}
  Blank = {}
  Id = {i1, i2, i3}
  Formats = {"binary"}
  UploadModes = {"checked"}
  DeleteNames = {"original"}
  Faults = {}
  NoFile = NoFile
  Unreadable = Unreadable
CHECK_DEADLOCK FALSE
INVARIANTS DeleteForgets
