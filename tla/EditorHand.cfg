SPECIFICATION Spec
CONSTANTS
  a = a  b = b  c = c  d = d  blank = blank
  Chars = {a, b, c, d, blank}
  Blank = blank
  Transcripts = {}
  Duration = 9
  Typed <- TypedTexts
  MaxBorn = 3
  MaxEdits = 2
INVARIANTS MergeFindsNeighbour
CHECK_DEADLOCK FALSE
