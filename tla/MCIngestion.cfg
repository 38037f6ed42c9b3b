SPECIFICATION FairSpec
CONSTANTS
  s1 = s1
  s2 = s2
  c1 = c1
  c2 = c2
  p1 = p1
  p2 = p2
  Requests <- MCRequests
  SourceIds = {s1, s2}
  Keys = {"k1", "k2"}
  Bodies = {"b"}
  Extractors = {"x1"}
  Workers = {w1, w2}
  NoOwner = NoOwner
  ClaimIds = {c1, c2}
  Contents = {"v", "w"}
  NoContent = NoContent
  Spans = {p1, p2}
  SpanSource <- MCSpanSource
  ClaimWrites <- MCClaimWrites
  ErrorCodes = {"lease_expired", "provider_error", "validation_failure"}
  NonretryableCodes = {"validation_failure"}
  LeaseExpired = "lease_expired"
  NoError = "none"
  MaxAttempts = 2
  MaxTime = 3
INVARIANTS
  ChainShape
  DeletedIsForgotten
  RowsAgree
  NothingWedges
PROPERTIES
  SettledStaysSettled
  ImplementsLedger
  QueueMoves
