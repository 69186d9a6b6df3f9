SPECIFICATION Spec
CONSTANTS
  Messages = {m1, m2, m3}
  Matching = {m1, m2, m3}
  Requests = {q1, q2}
  PageSize = 2
  MaxIds = 2
  FullAccess = TRUE
  NoIds = NoIds
CHECK_DEADLOCK FALSE
INVARIANTS
  TypeOK
  WithinCap
PROPERTIES
  QueryResolvedWhole
  ReportIsTrue
  DeletionIsConfirmed
