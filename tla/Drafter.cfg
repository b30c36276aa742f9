\* Two letters, n-grams of up to two of them, documents of three pages.
CONSTANTS
  Tokens = {a, b}
  SEPARATOR = separator
  MAX_N = 2
  MinMatch = 1
  MaxDraft = 3
  MaxTokens = 4
  MaxPages = 2
SPECIFICATION Spec
INVARIANTS
  DraftsTheLatestMatch
