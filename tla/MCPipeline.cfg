SPECIFICATION FairSpec
CONSTANTS
  Jobs = {1, 2, 3, 4}
  MaxWorkers = 2
  MaxTransportRetries = 1
  Batches <- MCBatches
  MaxSignals = 1
  MaxRestarts = 1
INVARIANTS
  CallsAreBounded
  CompletedIsUndisturbed
  DestructionIsVerified
PROPERTIES
  TerminalIsFinal
  PipelineEnds
