SPECIFICATION StreamSpec
CONSTANTS
  k1 = k1  emb = emb  whisper = whisper  c1 = c1  c2 = c2  s1 = s1  None = None
  Keys <- OneKey
  Models <- OneKeyModels
  Repos = {whisper, emb}
  MaxModels = 2
  Callers = {c1}
  Clients = {s1}
  MaxSets = 1
  QueueDepth = 2
INVARIANTS TypeOK CompletedIsTrue
PROPERTIES StreamsEnd
