SPECIFICATION MCSpec
CONSTANTS
  c1 = c1
  c2 = c2
  c3 = c3
  s1 = s1
  s2 = s2
  s3 = s3
  k = k
  r1 = r1
  ClaimIds = {c1, c2, c3}
  Remembered = {c1, c2}
  Timed = {}
  Ended = {}
  Sources = {s1, s2, s3}
  IngestedAt <- MCIngestedAt
  Keys <- MCKeys
  AuditKeys <- MCAuditKeys
  ReplacementKey <- MCReplacementKey
  Initial = Initial
  NoClaim = NoClaim
  MaxTime = 2
  Evidence <- MCEvidence
  Verdicts <- MCDispute
  Barred = {c3}
  Official = {}
  CallerKeys = {k}
  ResolutionKeys = {r1}
  ActionKey <- MCActionKey
  MaxDecisions = 1
  SourceType <- MCSourceType
  SessionId <- MCThread
  ThreadId <- MCThread
  ProducedAt <- MCProducedAt
  IdOrder <- MCIdOrder
  Gap = 5
  NoThread = NoThread
  BadThread = BadThread
  Omitted = {c3}
CHECK_DEADLOCK FALSE
INVARIANTS
  SummariesAreGrounded
  SummaryTimelines
PROPERTIES
  SummariesAreImmutable
  RebuildTellsTheTruth
