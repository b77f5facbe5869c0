CONSTANTS
  x = x
  y = y
  NoBlock = NoBlock
  Seqs <- MCSeqs
  Tokens <- MCTokens
  NumBlocks = 2
  BlockSize = 2
  MaxPosition = 9
  EnablePrefixCaching = TRUE
  MaxRequests = 3
  Prompts <- Lengths
  MaxTokensValues = {1, 2}
  MaxNumSeqs = 2
  MaxNumBatchedTokens = 6
  MaxNumPrefillTokens = 6
  MaxPrefillChunkSize = 2
  ChunkedPrefillEnabled = FALSE
  StaticBatchMode = TRUE
SPECIFICATION EngineSpec
PROPERTY EveryRunningAdvances
