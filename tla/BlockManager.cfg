CONSTANTS
  x = x
  y = y
  NoBlock = NoBlock
  NumBlocks = 3
  BlockSize = 2
  MaxPosition = 4
  EnablePrefixCaching = TRUE
  Seqs = {s1, s2}
  Tokens <- MCTokens
  Prompts <- MCPrompts
SPECIFICATION BMSpec
INVARIANT RefCountsExact
PROPERTY ImplementsOwnership
