SPECIFICATION Spec
CONSTANTS
  Requests = {r1, r2}
  Fresh = {r1}
  Contents = {a, b}
  Absent = Absent
  Other = Other
  None = None
  MaxEdits = 2
  Recoverers = {p1, p2}
  Attempts = 2
  Stamps = {t1}
SYMMETRY Symmetry
INVARIANTS
  WritesReplaceTheirBaseline
  ReceiptsTellTheTruth
  ConclusionsAreProven
  NoDoubleMutation
  AnswersAreOnRecord
CHECK_DEADLOCK FALSE
