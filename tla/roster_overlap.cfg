CONSTANTS
  Student = {s1, s2}
  Document = {d1}
  NoDocument = NoDocument
  NoStudent = NoStudent
  Editor = {e1, e2}
  ByService = {e2}
SPECIFICATION SpecReads
PROPERTIES
  OutsidersStayUnseated
  CancelledRosterSettles
CHECK_DEADLOCK FALSE
