SYMMETRY Symmetry
CONSTANTS
  t1 = t1  t2 = t2  p1 = p1  p2 = p2  a1 = a1  a2 = a2
  Threads = {t1, t2}
  Pipelines = {p1, p2}
  Assets = {a1, a2}
  Bodies <- OneOrNone
  MaxRequests = 4
  MaxEdited = 1
  Kinds = {"create", "update", "rewrite", "delete", "createAsset", "saveAsset", "deleteAsset"}
  BusyExit = TRUE
SPECIFICATION Spec
INVARIANTS TypeOK RefsMatchAssets DeletedStaysDeleted NoDanglingRef BootStartsAll
