SPECIFICATION MCSpec
CONSTANTS
  c1 = c1
  c2 = c2
  t1 = t1
  Coroutines = {c1, c2}
  Threads = {t1}
  Pairs <- UserPairs
  DefaultPair <- ShippedPair
  ModelNames = {"", "m"}
  NoName = ""
  ConsentKeys = {"asr", "align"}
  Database = "transcribe.db"
  Uploads = {"a.wav", "b.wav"}
  Requests = {c1, c2}
  Labels = {"s1", "s2"}
  Heard <- HeardLabels
  Voices <- AllVoices
  VoiceMaps <- JobVoices
  Likeness <- Alike
  Threshold = 1
  LegacyVoices = {"old"}
  Given <- NamesGiven
  Recorded <- Clips
  Introduced <- FromJob
  OldKnown <- Pickled
  MaxKnown = 2
SYMMETRY Sym
INVARIANTS KeyStaysWithEndpoint StoresTypeOK ChoicesKept ConsentFailsClosed NothingIsLost NamesAreHonest
PROPERTIES SecretsArePrivate
