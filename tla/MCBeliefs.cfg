SPECIFICATION MCSpec
CONSTANTS
  c1 = c1
  c2 = c2
  c3 = c3
  s1 = s1
  s2 = s2
  k = k
  r1 = r1
  r2 = r2
  r3 = r3
  ClaimIds = {c1, c2, c3}
  Remembered = {c1, c2, c3}
  Timed = {c1, c2}
  Ended = {c1, c2}
  Sources = {s1, s2}
  IngestedAt <- MCIngestedAt
  Keys <- MCKeys
  AuditKeys <- MCAuditKeys
  ReplacementKey <- MCReplacementKey
  Initial = Initial
  NoClaim = NoClaim
  MaxTime = 2
  Evidence <- MCEvidence
  Verdicts <- MCVerdicts
  Barred = {}
  Official = {s1}
  CallerKeys = {k}
  ResolutionKeys = {r1, r2, r3}
  ActionKey <- MCActionKey
  MaxDecisions = 3
CHECK_DEADLOCK FALSE
SYMMETRY KeySymmetry
INVARIANTS
  BeliefsStaySound
  LineageIsLive
PROPERTIES
  ReplayKeepsOrder
  CallersHistoryStays
