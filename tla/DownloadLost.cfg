SPECIFICATION Spec
CONSTANTS
  k1 = k1  emb = emb  whisper = whisper  c1 = c1  c2 = c2  s1 = s1  None = None
  Keys <- OneKey
  Models <- SingleModel
  Repos = {whisper}
  MaxModels = 1
  Callers = {c1, c2}
  Clients = {}
  MaxSets = 2
  QueueDepth = 1
SYMMETRY CallerSymmetry
INVARIANTS OneWriterPerKey
