SPECIFICATION SoloSpec
CONSTANTS
  j1 = j1  j2 = j2  j3 = j3  t1 = t1  t2 = t2  d1 = d1  d2 = d2  None = None
  Jobs = {j1, j2}
  Drops = {}
  Tasks = {t1, t2}
  MaxEngines = 1
INVARIANTS LoadedModelsStay
CHECK_DEADLOCK FALSE
