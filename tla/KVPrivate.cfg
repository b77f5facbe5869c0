CONSTANTS
  x = x
  y = y
  NoBlock = NoBlock
  Nothing = Nothing
  Absent = Absent
  Seqs <- MCSeqs
  Tokens <- MCTokens
  NumBlocks = 3
  BlockSize = 2
  MaxPosition = 9
  EnablePrefixCaching = FALSE
  MaxRequests = 3
  Prompts <- AllLengths
  MaxTokensValues = {2}
  MaxNumSeqs = 2
  MaxNumBatchedTokens = 6
  MaxNumPrefillTokens = 6
  MaxPrefillChunkSize = 3
  ChunkedPrefillEnabled = TRUE
  StaticBatchMode = FALSE
SPECIFICATION ExecutorsSpec
INVARIANTS KVIntact BlocksExclusive TokensGoToTheirSequences
  RefIsCausal GPUIsCausal SlotsDistinct
  ListsMirrorAllocator ListsHoldWrittenPositions DecodesKnowTheirToken
