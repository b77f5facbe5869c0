CONSTANTS
  x = x
  y = y
  NoBlock = NoBlock
  Nothing = Nothing
  Seqs <- MCSeqs
  Tokens <- MCTokens
  NumBlocks = 3
  BlockSize = 2
  MaxPosition = 9
  EnablePrefixCaching = TRUE
  MaxRequests = 3
  Prompts <- SameSuffix
  MaxTokensValues = {2}
  MaxNumSeqs = 2
  MaxNumBatchedTokens = 4
  MaxNumPrefillTokens = 4
  MaxPrefillChunkSize = 2
  ChunkedPrefillEnabled = TRUE
  StaticBatchMode = FALSE
SPECIFICATION PagedSpec
INVARIANT HitsHoldTheirTokens
