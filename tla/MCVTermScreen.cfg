SPECIFICATION Spec
CONSTANTS
  a = a
  b = b
  x = x
  blank = blank
  Letters <- MCLetters
  AltLetter = x
  Blank = blank
  Sizes <- MCSizes
  newline = newline
  Newline = newline
  Texts <- MCTexts
  MaxSteps = 3
  HistoryLimit = 3
  EraseTop = FALSE
INVARIANT TypeOK
INVARIANT DamageCovers
PROPERTY HistoryIsMain
PROPERTY TextKept
