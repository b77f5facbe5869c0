CONSTANTS
  x = x
  y = y
  NoBlock = NoBlock
  Seqs <- MCSeqs
  Tokens <- MCTokens
  NumBlocks = 2
  BlockSize = 2
  MaxPosition = 7
  EnablePrefixCaching = TRUE
  MaxRequests = 2
  Prompts <- SharingPrompts
  MaxTokensValues = {0, 1, 3}
  MaxNumSeqs = 2
  MaxNumBatchedTokens = 4
  MaxNumPrefillTokens = 3
  MaxPrefillChunkSize = 3
  ChunkedPrefillEnabled = TRUE
  StaticBatchMode = FALSE
SPECIFICATION MetricsSpec
INVARIANTS OnlyRunningHoldBlocks TablesFitSequences BlocksAddedInOrder
  FinishedOutputComplete
  PlannedIsComputed QueueTimeOnce
PROPERTY BMSpec
