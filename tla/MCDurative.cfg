SPECIFICATION MCSpec
CONSTANTS
  a = a
  b = b
  c = c
  s1 = s1
  s2 = s2
  s3 = s3
  ka = ka
  kc = kc
  k = k
  p = p
  q = q
  ClaimIds <- MCClaimIds
  Remembered <- MCMovable
  Timed = {a, c}
  Ended = {a, c}
  Sources = {s1, s2, s3}
  IngestedAt <- MCIngestedAt
  Keys <- MCKeys
  AuditKeys <- MCAuditKeys
  ReplacementKey <- MCReplacementKey
  Initial = Initial
  NoClaim = NoClaim
  MaxTime = 2
  Evidence <- MCEvidence
  Verdicts <- MCSays
  Barred = {}
  Official = {}
  CallerKeys = {k}
  ResolutionKeys = {}
  ActionKey <- MCActionKey
  MaxDecisions = 1
  SourceType <- MCSourceType
  SessionId <- MCThread
  ThreadId <- MCThread
  ProducedAt <- MCProducedAt
  IdOrder <- MCIdOrder
  Gap = 5
  NoThread = NoThread
  BadThread = BadThread
  Propositions = {p, q}
  Predicate <- MCPredicate
  Rivals = {}
  About <- MCAbout
  Validity <- MCValidity
  NoDate = NoDate
  Episodic = {a, b, c}
  Asserted = {a, b, c}
  Doubted = {}
  Restricted = {}
  Against <- MCAgainst
  RootId <- MCRootId
  ReplacementId <- MCReplacementId
  MaxRuns = 2
CHECK_DEADLOCK FALSE
INVARIANTS
  DerivedAreGrounded
PROPERTIES
  InferenceTellsTheTruth
