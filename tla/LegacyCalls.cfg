CONSTANTS
  x = x
  y = y
  NoBlock = NoBlock
  Absent = Absent
  Seqs <- MCSeqs
  Tokens <- MCTokens
  NumBlocks = 3
  BlockSize = 3
  MaxPosition = 7
  EnablePrefixCaching = TRUE
  Prompts <- ShortAndLong
  ChunkSize = 2
  MaxGen = 2
  MaxPast = 8
SPECIFICATION LegacySpec
CHECK_DEADLOCK FALSE
INVARIANTS ListsMirrorAllocator PastIsHistory
PROPERTY MaskCoversPast
