SPECIFICATION Spec
CONSTANTS
  a = a  b = b  c = c  d = d  blank = blank
  Chars = {a, b, c, d, blank}
  Blank = blank
  Transcripts <- AsrTranscripts
  Duration = 9
  Typed <- TypedTexts
  MaxBorn = 5
  MaxEdits = 2
INVARIANTS TypeOK NoOverlap MergeTakesNeighbour MergeUndoesSplit
PROPERTIES WordsKept
CHECK_DEADLOCK FALSE
