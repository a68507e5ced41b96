SPECIFICATION Spec
CONSTANTS
  k1 = k1  emb = emb  whisper = whisper  c1 = c1  c2 = c2  s1 = s1  None = None
  Keys <- OneKey
  Models <- OneKeyModels
  Repos = {whisper, emb}
  MaxModels = 2
  Callers = {c1, c2}
  Clients = {}
  MaxSets = 2
  QueueDepth = 1
SYMMETRY CallerSymmetry
INVARIANTS OneWorkerPerKey WorkersOwnTheirSet OneTrackedWriter OutcomeRecorded
PROPERTIES ContractSpec FinishedIsFinal
