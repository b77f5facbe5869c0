CONSTANTS
  x = x
  y = y
  NoBlock = NoBlock
  Seqs <- MCSeqs
  Tokens <- MCTokens
  NumBlocks = 9
  BlockSize = 2
  MaxPosition = 9
  EnablePrefixCaching = TRUE
  MaxRequests = 3
  Prompts <- LongAndShort
  MaxTokensValues = {1, 2}
  MaxNumSeqs = 2
  MaxNumBatchedTokens = 4
  MaxNumPrefillTokens = 3
  MaxPrefillChunkSize = 3
  ChunkedPrefillEnabled = TRUE
  StaticBatchMode = FALSE
SPECIFICATION FairEngineSpec
PROPERTY EveryRequestEnds
