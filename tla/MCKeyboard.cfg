SPECIFICATION Spec
CONSTANTS
  kRows = 2
  kColumns = 4
  kLineMax = 6
  HistorySize = 2
  CharRange = 4
  Letter = {1, 6}
  MaxMixed = 1
  max_chars = 4
  Consonant = {"p", "t"}
  Vowel = "a"
  Halant = "halant"
  Question = "?"
  Quote = "quote"
  Ligature = "?!"
  Spelling = {"k", "u"}
  Hanzi = {"A", "B"}
  Space = " "
  Dict <- SmallDict
  MaxText = 3
INVARIANTS LineSound BoxesSound
CHECK_DEADLOCK FALSE
