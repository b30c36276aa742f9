\* Two letters and a stop token; cycles of one and two tokens, with windows of
\* four and six.
CONSTANTS
  Tokens = {a, b, eos}
  StopTokens = {eos}
  StopLoops = TRUE
  MaxNewTokens = 9
  MAX_PERIOD = 2
  MIN_WINDOW = 4
  MIN_REPEATS = 3
SPECIFICATION GrowSpec
CHECK_DEADLOCK FALSE
INVARIANTS
  StopsExactlyOnLoops
  EndsForAReason
