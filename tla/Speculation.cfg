\* Every text of five tokens over two letters and a stop token, every draft of
\* up to three tokens, verified or not; a letter repeated three times is a loop.
CONSTANTS
  Tokens = {a, b, eos}
  StopTokens = {eos}
  StopLoops = TRUE
  MaxNewTokens = 5
  MAX_PERIOD = 1
  MIN_WINDOW = 3
  MIN_REPEATS = 2
  MaxDraft = 3
  HasHead = TRUE
SPECIFICATION Spec
CHECK_DEADLOCK FALSE
INVARIANTS
  CacheFollowsOutput
  HeadReadsItsPositions
PROPERTIES
  KeepsGreedyOutput
