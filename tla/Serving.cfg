CONSTANTS
  x = x
  y = y
  NoBlock = NoBlock
  Seqs <- MCSeqs
  Tokens <- MCTokens
  NumBlocks = 3
  BlockSize = 2
  MaxPosition = 9
  EnablePrefixCaching = FALSE
  MaxRequests = 2
  Prompts <- TwoPrompts
  MaxTokensValues = {1, 3, 6}
  MaxNumSeqs = 2
  MaxNumBatchedTokens = 3
  MaxNumPrefillTokens = 3
  MaxPrefillChunkSize = 2
  ChunkedPrefillEnabled = TRUE
  StaticBatchMode = FALSE
  MaxModelLen = 2
  MaxQueueLen = 2
  Kinds = {"stream", "generate", "generateStream"}
  MaxStreams = 2
  RequestsExpire = TRUE
  ServerCancels = TRUE
SPECIFICATION FairServingSpec
INVARIANTS DeliveredInOrder SlotsMatchOpenStreams NoOrphans LoneRequestFits
PROPERTIES GenerateReturnsText StreamsEnd
CHECK_DEADLOCK FALSE
