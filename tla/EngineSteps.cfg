CONSTANTS
  x = x
  y = y
  NoBlock = NoBlock
  Seqs <- MCSeqs
  Tokens <- MCTokens
  NumBlocks = 9
  BlockSize = 2
  MaxPosition = 9
  EnablePrefixCaching = TRUE
  MaxRequests = 3
  Prompts <- SharingPrompts
  MaxTokensValues = {1, 2}
  MaxNumSeqs = 2
  MaxNumBatchedTokens = 5
  MaxNumPrefillTokens = 4
  MaxPrefillChunkSize = 3
  ChunkedPrefillEnabled = TRUE
  StaticBatchMode = FALSE
SPECIFICATION MetricsSpec
INVARIANTS EngineTypeOK PoolsPartition BudgetsNeverOverdrawn RunningNeverIgnored
  EndedRegisteredOnce
PROPERTIES EveryRunningAdvances EndedStaysEnded
