SPECIFICATION Spec
CONSTANTS
  c1 = c1
  c2 = c2
  s1 = s1
  s2 = s2
  ClaimIds = {c1, c2}
  Remembered = {c1, c2}
  Timed = {c1, c2}
  Ended = {c1}
  Sources = {s1, s2}
  IngestedAt <- MCIngestedAt
  Keys = {"k", "k:replacement"}
  AuditKeys = {"k", "k:replacement", "k:replacement:replacement"}
  ReplacementKey <- MCReplacementKey
  Initial = "initial"
  NoClaim = NoClaim
  MaxTime = 3
CHECK_DEADLOCK FALSE
INVARIANTS
  Timelines
  HistoriesAreLegal
  AuditTrail
  AnswersAreSupported
PROPERTIES
  PastAnswersStay
