SPECIFICATION Spec
CONSTANTS
  Alphabets <- MCAlphabets
  Lexemes <- MCLexemes
  MaxLexemes = 3
  MaxHashes = 2
INVARIANTS LexesAsWritten LiteralsEnd
PROPERTIES EveryStepAdvances
