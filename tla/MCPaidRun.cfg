SPECIFICATION Spec
CONSTANTS
  Items = {1, 2, 3}
  Programs = {"atomic", "frozen", "answers", "fallback", "input", "history"}
  Workers = 2
  MaxCost = 2
  Cap = 7
  MaxRetries = 1
  MaxAttempts = 4
  MaxResumes = 2
INVARIANTS
  ApprovalIsKept
PROPERTIES
  SuccessIsFinal
