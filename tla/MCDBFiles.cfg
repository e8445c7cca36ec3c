SPECIFICATION FilesSpec
CONSTANTS
  Proc = {p1, p2}
  NoProc = NoProc
  Temporary = FALSE
  Spelling = {k1, k2}
INVARIANTS FilesTypeOK NoDuplicate
SYMMETRY Symmetry
