CONSTANTS
  Student = {s1, s2}
  Document = {d1, d2}
  NoDocument = NoDocument
  NoStudent = NoStudent
  Editor = {e1}
  ByService = {}
  Upload = {u1, u2}
  Rows <- MCRows
  Blocked <- MCBlocked
  Warned = {}
  d1 = d1
  d2 = d2
  s1 = s1
  s2 = s2
SPECIFICATION SpecUploads
SYMMETRY Symmetry
INVARIANTS
  TypeOKUploads
  ParsedIsComplete
  SourcesWereProcessed
  ValidatedCameFromDocument
CHECK_DEADLOCK FALSE
