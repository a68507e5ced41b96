---------------------------- MODULE StoresProofs ----------------------------
(***************************************************************************)
(* What the files of the application keep, for any models, files, keys and *)
(* handlers, whatever is cut short, fails or overlaps; and that the stores *)
(* together keep what each keeps.                                          *)
(***************************************************************************)
EXTENDS MCStores, SpeakersProofs, TLAPS

-----------------------------------------------------------------------------
(* The consent file.                                                          *)

\* Neither the file nor the write in hand has a key too many, and none is missing
\* until a write is cut short.
ConsentInv ==
  /\ ConsentTypeOK
  /\ consents.keys \subseteq agreed
  /\ ~Resting => saving.keys \subseteq agreed
  /\ Resting /\ ~torn => consents.keys = agreed
  /\ ~Resting /\ ~torn => saving.keys = agreed

LEMMA ConsentInitInv == ConsentInit => ConsentInv
PROOF
<1> SUFFICES ASSUME ConsentInit PROVE ConsentInv
  OBVIOUS
<1>1. consents \in ConsentFiles /\ consents.keys = {}
  BY DEF ConsentInit, NoFile, ConsentFiles
<1>2. Resting /\ saving \in [busy : BOOLEAN, keys : SUBSET ConsentKeys]
  BY DEF ConsentInit, Idle, Resting
<1> QED BY <1>1, <1>2 DEF ConsentInit, ConsentInv, ConsentTypeOK

\* Opening the file for a set of keys that the user agreed to.
LEMMA OpenKeepsInv ==
  ASSUME ConsentInv, NEW keys \in SUBSET ConsentKeys, OpenFor(keys),
         agreed' \in SUBSET ConsentKeys, keys \subseteq agreed', ~torn => keys = agreed'
  PROVE  ConsentInv'
PROOF
<1>1. saving' = [busy |-> TRUE, keys |-> keys] /\ consents' = Torn /\ torn' = torn
  BY DEF OpenFor
<1>2. saving'.busy /\ saving'.keys = keys /\ saving' # Idle BY <1>1 DEF Idle
<1>3. consents'.keys = {} /\ consents' \in ConsentFiles BY <1>1 DEF Torn, ConsentFiles
<1>4. ConsentTypeOK' BY <1>1, <1>2, <1>3 DEF ConsentInv, ConsentTypeOK
<1> QED BY <1>1, <1>2, <1>3, <1>4 DEF ConsentInv, Resting

LEMMA ConsentStep == ConsentInv /\ [ConsentNext]_consentVars => ConsentInv'
PROOF
<1> SUFFICES ASSUME ConsentInv, [ConsentNext]_consentVars PROVE ConsentInv'
  OBVIOUS
<1>k. consents.keys \in SUBSET ConsentKeys /\ agreed \in SUBSET ConsentKeys
  BY DEF ConsentInv, ConsentTypeOK
<1>1. ASSUME NEW k \in ConsentKeys, RecordConsent(k) PROVE ConsentInv'
  BY <1>1, <1>k, OpenKeepsInv DEF RecordConsent, ConsentInv
<1>2. ASSUME NEW k \in ConsentKeys, RevokeConsent(k) PROVE ConsentInv'
  BY <1>2, <1>k, OpenKeepsInv DEF RevokeConsent, Withdraw, ConsentInv
<1>3. CASE Written
  <2>1. saving' = Idle /\ consents' = [state |-> "whole", keys |-> saving.keys]
        /\ agreed' = agreed /\ torn' = torn /\ ~Resting
    BY <1>3 DEF Written
  <2>2. consents'.keys = saving.keys /\ saving.keys \in SUBSET ConsentKeys
    BY <2>1 DEF ConsentInv, ConsentTypeOK
  <2>3. consents' \in ConsentFiles BY <2>1, <2>2 DEF ConsentFiles
  <2> QED BY <2>1, <2>2, <2>3 DEF ConsentInv, ConsentTypeOK, Resting, Idle
<1>4. CASE CutShort
  <2>1. consents'.keys = {} /\ consents' \in ConsentFiles /\ saving' = Idle /\ torn' = TRUE
        /\ agreed' = agreed
    BY <1>4 DEF CutShort, Torn, NoFile, ConsentFiles
  <2> QED BY <2>1 DEF ConsentInv, ConsentTypeOK, Resting, Idle
<1>5. CASE UNCHANGED consentVars
  BY <1>5 DEF consentVars, ConsentInv, ConsentTypeOK, Resting
<1> QED BY <1>1, <1>2, <1>3, <1>4, <1>5 DEF ConsentNext

\* No crash, full disk or refused ACL makes a model count as agreed to that is not,
\* and until there is one every agreement is kept (record_consent).
THEOREM ConsentHolds == ConsentSpec => []ConsentFailsClosed
PROOF
<1>1. ConsentInv => ConsentFailsClosed
  BY DEF ConsentInv, ConsentFailsClosed, IsConsented
<1> QED BY <1>1, ConsentInitInv, ConsentStep, PTL DEF ConsentSpec

-----------------------------------------------------------------------------
(* The move of the older version's data.                                      *)

\* A part of a copy has its original, and a move in hand knows where it is.
MigrationInv ==
  /\ MigrationTypeOK /\ NothingIsLost
  /\ \A f \in LegacyFiles : new[f] = "part" => old[f] = "whole"
  /\ step = "copy" => new[current] = "part"
  /\ step = "unlink" => new[current] = "moved"

LEMMA MigrationInitInv == MigrationInit => MigrationInv
PROOF
<1> SUFFICES ASSUME MigrationInit PROVE MigrationInv
  OBVIOUS
<1>1. MigrationTypeOK BY DEF MigrationInit, MigrationTypeOK, LegacyFiles
<1>2. NothingIsLost BY DEF MigrationInit, NothingIsLost, Remaining
<1> QED BY <1>1, <1>2 DEF MigrationInit, MigrationInv

\* A step of the move that changes one file, in terms of that file.
LEMMA FileStep ==
  ASSUME MigrationInv, NEW o \in {"none", "whole"}, NEW n \in {"none", "part", "moved", "own"},
         old' = [old EXCEPT ![current] = o], new' = [new EXCEPT ![current] = n],
         olddir' = olddir, first' = first, sameDevice' = sameDevice, overridden' = overridden,
         current' = current, todo' = todo,
         step' \in {"off", "look", "copy", "unlink", "list", "files", "up"},
         first.old[current] = "whole" => o = "whole" \/ n = "moved",
         first.new[current] = "own" => n = "own",
         o = "whole" => old[current] = "whole", n = "part" => o = "whole",
         step' = "copy" => n = "part", step' = "unlink" => n = "moved"
  PROVE  MigrationInv'
PROOF
<1>c. current \in LegacyFiles /\ DOMAIN old = LegacyFiles /\ DOMAIN new = LegacyFiles
  BY DEF MigrationInv, MigrationTypeOK
<1>1. MigrationTypeOK' BY <1>c DEF MigrationInv, MigrationTypeOK
<1>2. \A f \in LegacyFiles : (old'[f] = IF f = current THEN o ELSE old[f])
                          /\ (new'[f] = IF f = current THEN n ELSE new[f])
  BY <1>c
<1>3. Remaining' \subseteq Remaining BY <1>2 DEF Remaining, LegacyFiles
<1>4. NothingIsLost' BY <1>2, <1>3 DEF MigrationInv, NothingIsLost
<1>5. (step' = "copy" => new'[current'] = "part") /\ (step' = "unlink" => new'[current'] = "moved")
  BY <1>2, <1>c
<1>6. \A f \in LegacyFiles : new'[f] = "part" => old'[f] = "whole" BY <1>2 DEF MigrationInv
<1> QED BY <1>1, <1>4, <1>5, <1>6 DEF MigrationInv

\* A step that leaves the files where they are.
LEMMA OtherStep ==
  ASSUME MigrationInv, old' = old, new' = new, first' = first, sameDevice' = sameDevice,
         olddir' \in BOOLEAN, olddir => olddir' \/ Remaining = {},
         overridden' \in SUBSET {"database", "uploads"}, current' \in LegacyFiles,
         todo' \in SUBSET Uploads, step' \in {"off", "look", "list", "files", "up"}
  PROVE  MigrationInv'
PROOF
<1>1. Remaining' = Remaining BY DEF Remaining
<1>2. MigrationTypeOK' BY DEF MigrationInv, MigrationTypeOK
<1>3. NothingIsLost' BY <1>1 DEF MigrationInv, NothingIsLost
<1> QED BY <1>2, <1>3 DEF MigrationInv

LEMMA MigrationStep == MigrationInv /\ [MigrationNext]_migrationVars => MigrationInv'
PROOF
<1> SUFFICES ASSUME MigrationInv, [MigrationNext]_migrationVars PROVE MigrationInv'
  OBVIOUS
<1>t. /\ current \in LegacyFiles /\ old \in [LegacyFiles -> {"none", "whole"}] /\ todo \in SUBSET Uploads
      /\ new \in [LegacyFiles -> {"none", "part", "moved", "own"}] /\ olddir \in BOOLEAN
      /\ overridden \in SUBSET {"database", "uploads"}
      /\ Database \in LegacyFiles /\ Uploads \subseteq LegacyFiles
      /\ step \in {"off", "look", "copy", "unlink", "list", "files", "up"}
  BY DEF MigrationInv, MigrationTypeOK, LegacyFiles
<1>l. /\ first.old[current] = "whole" => old[current] = "whole" \/ new[current] = "moved"
      /\ first.new[current] = "own" => new[current] = "own"
      /\ new[current] = "part" => old[current] = "whole"
  BY <1>t DEF MigrationInv, NothingIsLost
<1>s. /\ old = [old EXCEPT ![current] = old[current]] /\ new = [new EXCEPT ![current] = new[current]]
  BY <1>t
<1>1. CASE Start
  BY <1>1, <1>t, OtherStep DEF Start, placeVars
<1>2. CASE Skip
  BY <1>2, <1>t, OtherStep DEF Skip, placeVars, Leaving, To
<1>3. CASE Rename
  <2>1. /\ old' = [old EXCEPT ![current] = "none"] /\ new' = [new EXCEPT ![current] = "moved"]
        /\ olddir' = olddir /\ first' = first /\ sameDevice' = sameDevice /\ overridden' = overridden
        /\ current' = current /\ todo' = todo /\ step' \in {"list", "files"} /\ new[current] = "none"
    BY <1>3 DEF Rename, Movable, Vacant, Leaving, To
  <2> QED BY <2>1, <1>l, FileStep
<1>4. CASE StartCopy
  <2>1. /\ old' = [old EXCEPT ![current] = "whole"] /\ new' = [new EXCEPT ![current] = "part"]
        /\ olddir' = olddir /\ first' = first /\ sameDevice' = sameDevice /\ overridden' = overridden
        /\ current' = current /\ todo' = todo /\ step' = "copy" /\ new[current] = "none"
        /\ old[current] = "whole"
    BY <1>4, <1>s DEF StartCopy, Movable, Vacant, To
  <2> QED BY <2>1, <1>l, FileStep
<1>5. CASE EndCopy
  <2>1. new[current] = "part" BY <1>5 DEF EndCopy, MigrationInv
  <2>2. /\ old' = [old EXCEPT ![current] = "whole"] /\ new' = [new EXCEPT ![current] = "moved"]
        /\ olddir' = olddir /\ first' = first /\ sameDevice' = sameDevice /\ overridden' = overridden
        /\ current' = current /\ todo' = todo /\ step' = "unlink" /\ old[current] = "whole"
    BY <1>5, <1>s, <1>l, <2>1 DEF EndCopy, To
  <2> QED BY <2>1, <2>2, <1>l, FileStep
<1>6. CASE UnlinkOld
  <2>1. new[current] = "moved" BY <1>6 DEF UnlinkOld, MigrationInv
  <2>2. /\ old' = [old EXCEPT ![current] = "none"] /\ new' = [new EXCEPT ![current] = "moved"]
        /\ olddir' = olddir /\ first' = first /\ sameDevice' = sameDevice /\ overridden' = overridden
        /\ current' = current /\ todo' = todo /\ step' \in {"list", "files"}
    BY <1>6, <1>s, <2>1 DEF UnlinkOld, Leaving, To
  <2> QED BY <2>1, <2>2, <1>l, FileStep
<1>7. CASE CopyFails
  BY <1>7, <1>t, OtherStep DEF CopyFails, placeVars, Leaving, To
<1>8. CASE ListUploads
  <2>1. Remaining \in SUBSET Uploads BY DEF Remaining
  <2> QED BY <1>8, <2>1, <1>t, OtherStep DEF ListUploads, placeVars, To
<1>9. CASE NextUpload
  BY <1>9, <1>t, OtherStep DEF NextUpload, placeVars, To
<1>10. CASE Tidy
  BY <1>10, <1>t, OtherStep DEF Tidy, To
<1>11. CASE CreateDatabase
  <2>1. /\ old' = old /\ olddir' = olddir /\ first' = first /\ sameDevice' = sameDevice
        /\ overridden' = overridden /\ current' = current /\ todo' = todo /\ step' = "up"
        /\ new' = [new EXCEPT ![Database] = "own"] /\ new[Database] = "none"
    BY <1>11 DEF CreateDatabase, To
  <2>2. \A f \in LegacyFiles : new'[f] = IF f = Database THEN "own" ELSE new[f] BY <2>1, <1>t
  <2>3. MigrationTypeOK' BY <2>1, <1>t DEF MigrationInv, MigrationTypeOK
  <2>4. NothingIsLost' BY <2>1, <2>2, <1>t DEF MigrationInv, NothingIsLost, Remaining
  <2> QED BY <2>1, <2>2, <2>3, <2>4 DEF MigrationInv
<1>12. CASE Stop
  BY <1>12, <1>t, OtherStep DEF Stop, placeVars, To
<1>13. CASE UNCHANGED migrationVars
  BY <1>13 DEF migrationVars, placeVars, MigrationInv, MigrationTypeOK, NothingIsLost, Remaining
<1> QED BY <1>1, <1>2, <1>3, <1>4, <1>5, <1>6, <1>7, <1>8, <1>9, <1>10, <1>11, <1>12, <1>13
        DEF MigrationNext

\* For any uploads: however starts fail, die or are pointed elsewhere, every file of
\* the older version is whole in one of its places, and no newer file is replaced.
THEOREM NothingIsLostHolds == MigrationSpec => []NothingIsLost
PROOF
<1>1. MigrationInv => NothingIsLost BY DEF MigrationInv
<1> QED BY <1>1, MigrationInitInv, MigrationStep, PTL DEF MigrationSpec

-----------------------------------------------------------------------------
(* The provider file.                                                         *)

LEMMA NamedIsConfig ==
  ASSUME NEW c \in Configs, NEW n \in ModelNames
  PROVE  Named(c, n) \in Configs
PROOF
<1>1. PICK p \in Pairs \cup {DefaultPair}, m \in ModelNames : c = Named(p, m)
  BY DEF Configs
<1>2. Named(c, n) = Named(p, n) BY <1>1 DEF Named
<1> QED BY <1>2 DEF Configs

LEMMA DefaultsIsConfig == Defaults \in Configs
BY ProviderAssumption DEF Defaults, Configs

\* The endpoint and the key of a configuration belong together.
LEMMA PairOfConfig ==
  ASSUME NEW c \in Configs
  PROVE  [endpoint |-> c.endpoint, key |-> c.key] \in Pairs \cup {DefaultPair}
PROOF
<1>1. PICK p \in Pairs \cup {DefaultPair}, m \in ModelNames : c = Named(p, m)
  BY DEF Configs
<1>2. c.endpoint = p.endpoint /\ c.key = p.key BY <1>1 DEF Named
<1> QED BY <1>2, ProviderAssumption

\* Every file that can be at the path, by its state.
LEMMA FileFacts ==
  /\ Absent \in Files /\ Empty \in Files /\ Garbled \in Files
  /\ \A c \in Configs : Whole(c) \in Files /\ Whole(c) # Absent
  /\ Empty # Absent /\ Garbled # Absent /\ Empty # Garbled
  /\ \A f \in Files : f.config \in Configs
  /\ Empty.state # "whole" /\ Garbled.state # "whole" /\ Absent.state # "whole"
PROOF
<1>1. /\ Absent.state = "absent" /\ Empty.state = "empty" /\ Garbled.state = "garbled"
      /\ Absent.config = Defaults /\ Empty.config = Defaults /\ Garbled.config = Defaults
  BY DEF Absent, Empty, Garbled
<1>2. \A c \in Configs : Whole(c).state = "whole" /\ Whole(c).config = c BY DEF Whole
<1>3. \A c \in Configs : Whole(c) \in Files BY DEF Files
<1>4. \A f \in Files : f.config \in Configs BY <1>1, <1>2, DefaultsIsConfig DEF Files
<1> QED BY <1>1, <1>2, <1>3, <1>4 DEF Files

LEMMA RequestFacts ==
  ASSUME NEW r \in Async \cup Sync \cup {NoRequest}
  PROVE  /\ r.config \in Configs
         /\ r.kind \in {"none", "test", "look", "update", "delete", "choose"}
         /\ r.config.name \in ModelNames
PROOF
<1>1. \A c \in Configs : c.name \in ModelNames BY DEF Configs, Named
<1>2. \A p \in Pairs : Named(p, NoName) \in Configs BY ProviderAssumption DEF Configs
<1>3. \A n \in ModelNames : Named(DefaultPair, n) \in Configs BY DEF Configs
<1>4. r.config \in Configs /\ r.kind \in {"none", "test", "look", "update", "delete", "choose"}
  BY <1>2, <1>3, DefaultsIsConfig DEF Async, Sync, NoRequest, Asks
<1> QED BY <1>1, <1>4

LEMMA MergedIsConfig ==
  ASSUME NEW r \in Async \cup Sync \cup {NoRequest}, NEW c \in Configs
  PROVE  Merged(r, c) \in Configs /\ After(r, c) \in Configs
PROOF
<1>1. c.name \in ModelNames BY DEF Configs, Named
<1>2. Merged(r, c) \in Configs
  BY <1>1, RequestFacts, NamedIsConfig DEF Merged
<1> QED BY <1>2, DefaultsIsConfig DEF After

\* What a handler's step does to the handlers.
LEMMA HandlerStep ==
  ASSUME HandlerTypes, NEW h \in Handlers, NEW s \in Steps, NEW r \in Async \cup Sync \cup {NoRequest},
         NEW c \in Configs, at' = [at EXCEPT ![h] = s], request' = [request EXCEPT ![h] = r],
         loaded' = [loaded EXCEPT ![h] = c], again' \subseteq again \cup {h},
         opened' \subseteq opened \cup {h}, h \in opened' => s = "write"
  PROVE  HandlerTypes'
PROOF
<1>1. \A g \in Handlers : at'[g] = IF g = h THEN s ELSE at[g] BY DEF HandlerTypes
<1> QED BY <1>1 DEF HandlerTypes

\* A step that goes on: nothing but the place of the handler changes, and files.
LEMMA GoTypes ==
  ASSUME ProviderTypeOK, NEW h \in Handlers, NEW s \in Steps, Go(h, s), FileTypes',
         opened' \subseteq opened \cup {h}, h \in opened' => s = "write"
  PROVE  ProviderTypeOK'
PROOF
<1>1. /\ at' = [at EXCEPT ![h] = s] /\ request' = [request EXCEPT ![h] = request[h]]
      /\ loaded' = [loaded EXCEPT ![h] = loaded[h]] /\ again' \subseteq again \cup {h}
      /\ request[h] \in Async \cup Sync \cup {NoRequest} /\ loaded[h] \in Configs
  BY DEF Go, Goto, ProviderTypeOK, HandlerTypes
<1>2. HandlerTypes' BY <1>1, HandlerStep DEF ProviderTypeOK
<1> QED BY <1>2 DEF ProviderTypeOK, Go

\* A step that ends a request with a configuration of the history.
LEMMA LeaveTypes ==
  ASSUME ProviderTypeOK, NEW h \in Handlers, NEW config \in Configs, Leave(h, config), FileTypes',
         opened' \subseteq opened, h \notin opened'
  PROVE  ProviderTypeOK'
PROOF
<1>1. /\ at' = [at EXCEPT ![h] = "idle"] /\ request' = [request EXCEPT ![h] = NoRequest]
      /\ loaded' = [loaded EXCEPT ![h] = Defaults] /\ again' \subseteq again \cup {h}
      /\ want' \in Configs /\ alone' \in BOOLEAN
  BY DEF Leave, Goto, ProviderTypeOK, OthersRest, Working
<1>2. HandlerTypes' BY <1>1, HandlerStep, DefaultsIsConfig DEF ProviderTypeOK, Steps
<1> QED BY <1>1, <1>2 DEF ProviderTypeOK

LEMMA EndTypes ==
  ASSUME ProviderTypeOK, NEW h \in Handlers, Succeed(h) \/ Fail(h), FileTypes',
         opened' \subseteq opened, h \notin opened'
  PROVE  ProviderTypeOK'
PROOF
<1>1. Shown' \in Configs BY FileFacts DEF FileTypes, Shown
<1>2. After(request[h], want) \in Configs
  BY MergedIsConfig DEF ProviderTypeOK, HandlerTypes
<1> QED BY <1>1, <1>2, LeaveTypes DEF Succeed, Fail

\* A step that begins a stretch of load and save.
LEMMA EnterTypes ==
  ASSUME ProviderTypeOK, NEW h \in Handlers, NEW s \in Steps, Enter(h, s),
         NEW r \in Async \cup Sync \cup {NoRequest}, request' = [request EXCEPT ![h] = r],
         at[h] # "write"
  PROVE  ProviderTypeOK'
PROOF
<1>1. /\ at' = [at EXCEPT ![h] = s] /\ loaded' = [loaded EXCEPT ![h] = loaded[h]]
      /\ again' \subseteq again \cup {h} /\ opened' \subseteq opened \cup {h}
      /\ loaded[h] \in Configs /\ h \notin opened'
  BY DEF Enter, Goto, ProviderTypeOK, HandlerTypes, fileVars
<1>2. HandlerTypes' BY <1>1, HandlerStep DEF ProviderTypeOK
<1>3. FileTypes' BY DEF Enter, fileVars, ProviderTypeOK, FileTypes
<1>4. want' = want /\ alone' \in BOOLEAN BY DEF Enter, OthersRest, Working, ProviderTypeOK
<1> QED BY <1>2, <1>3, <1>4 DEF ProviderTypeOK

LEMMA ProviderInitTypes == ProviderInit => ProviderTypeOK
PROOF
<1> SUFFICES ASSUME ProviderInit PROVE ProviderTypeOK
  OBVIOUS
<1>1. FileTypes BY FileFacts DEF ProviderInit, FileTypes
<1>2. HandlerTypes BY DefaultsIsConfig DEF ProviderInit, HandlerTypes, Steps
<1>3. want \in Configs BY FileFacts DEF ProviderInit, Shown
<1> QED BY <1>1, <1>2, <1>3 DEF ProviderInit, ProviderTypeOK

LEMMA LoadTypes ==
  ASSUME ProviderTypeOK, NEW h \in Handlers, LoadStep(h)
  PROVE  ProviderTypeOK'
PROOF
<1> USE FileFacts
<1>n. at[h] # "write" => h \notin opened BY DEF ProviderTypeOK, HandlerTypes
<1>1. CASE Check(h)
  <2>1. FileTypes' BY <1>1 DEF Check, Go, fileVars, ProviderTypeOK, FileTypes
  <2> QED BY <1>1, <1>n, <2>1, GoTypes DEF Check, fileVars, Steps
<1>2. CASE Move(h)
  <2>1. FileTypes' BY <1>2 DEF Move, Go, ProviderTypeOK, FileTypes
  <2> QED BY <1>2, <2>1, GoTypes DEF Move, Steps
<1>3. CASE MoveFails(h)
  <2>1. FileTypes' BY <1>3 DEF MoveFails, Fail, Leave, fileVars, ProviderTypeOK, FileTypes
  <2> QED BY <1>3, <1>n, <2>1, EndTypes DEF MoveFails, fileVars
<1>4. CASE Look(h)
  <2>1. FileTypes' BY <1>4 DEF Look, Succeed, Leave, Repaired, ProviderTypeOK, FileTypes
  <2> QED BY <1>4, <1>n, <2>1, EndTypes DEF Look
<1>5. CASE Load(h)
  <2>1. FileTypes' BY <1>5 DEF Load, Repaired, ProviderTypeOK, FileTypes
  <2>2. /\ at' = [at EXCEPT ![h] = "open"] /\ request' = [request EXCEPT ![h] = request[h]]
        /\ loaded' = [loaded EXCEPT ![h] = disk.config] /\ again' \subseteq again \cup {h}
        /\ request[h] \in Async \cup Sync \cup {NoRequest} /\ disk.config \in Configs
        /\ opened' \subseteq opened \cup {h} /\ h \notin opened'
    BY <1>5, <1>n DEF Load, Goto, ProviderTypeOK, HandlerTypes, FileTypes
  <2>3. HandlerTypes' BY <2>2, HandlerStep DEF ProviderTypeOK, Steps
  <2> QED BY <1>5, <2>1, <2>3 DEF Load, ProviderTypeOK
<1> QED BY <1>1, <1>2, <1>3, <1>4, <1>5 DEF LoadStep

LEMMA SaveTypes ==
  ASSUME ProviderTypeOK, NEW h \in Handlers, SaveStep(h)
  PROVE  ProviderTypeOK'
PROOF
<1> USE FileFacts
<1>n. at[h] # "write" => h \notin opened BY DEF ProviderTypeOK, HandlerTypes
<1>m. Merged(request[h], loaded[h]) \in Configs
  BY MergedIsConfig DEF ProviderTypeOK, HandlerTypes
<1>1. CASE Truncate(h)
  <2>1. FileTypes' BY <1>1 DEF Truncate, Go, ProviderTypeOK, FileTypes
  <2>2. /\ Go(h, IF host.windows THEN "acl" ELSE "write")
        /\ opened' \subseteq opened \cup {h} /\ (h \in opened' => ~host.windows)
    BY <1>1, <1>n DEF Truncate
  <2>3. (IF host.windows THEN "acl" ELSE "write") \in Steps BY DEF Steps
  <2> QED BY <2>1, <2>2, <2>3, GoTypes
<1>2. CASE RestrictWindows(h)
  <2>1. FileTypes' BY <1>2 DEF RestrictWindows, Go, ProviderTypeOK, FileTypes
  <2> QED BY <1>2, <1>n, <2>1, GoTypes DEF RestrictWindows, Steps
<1>3. CASE RestrictFails(h)
  <2>1. FileTypes' BY <1>3 DEF RestrictFails, Fail, Leave, ProviderTypeOK, FileTypes
  <2> QED BY <1>3, <1>n, <2>1, EndTypes DEF RestrictFails
<1>4. CASE WritePosix(h)
  <2>1. FileTypes'
    BY <1>4, <1>m DEF WritePosix, Go, Overwritten, ProviderTypeOK, FileTypes
  <2> QED BY <1>4, <2>1, GoTypes DEF WritePosix, Steps
<1>5. CASE WriteWindows(h)
  <2>1. FileTypes' BY <1>5, <1>m DEF WriteWindows, Go, ProviderTypeOK, FileTypes
  <2>2. h \notin opened' BY <1>5 DEF WriteWindows, ProviderTypeOK, FileTypes
  <2> QED BY <1>5, <2>1, <2>2, GoTypes DEF WriteWindows, Steps
<1>6. CASE WriteFails(h)
  <2>1. FileTypes'
    BY <1>6 DEF WriteFails, Fail, Leave, Spoiled, ProviderTypeOK, FileTypes
  <2> QED BY <1>6, <2>1, EndTypes DEF WriteFails
<1>7. CASE Chmod(h)
  <2>1. FileTypes' BY <1>7 DEF Chmod, Go, ProviderTypeOK, FileTypes
  <2> QED BY <1>7, <1>n, <2>1, GoTypes DEF Chmod, Steps
<1>8. CASE ChmodFails(h)
  <2>1. FileTypes' BY <1>8 DEF ChmodFails, Fail, Leave, fileVars, ProviderTypeOK, FileTypes
  <2> QED BY <1>8, <1>n, <2>1, EndTypes DEF ChmodFails, fileVars
<1>9. CASE Saved(h) \/ GiveUp(h)
  <2>1. FileTypes'
    BY <1>9 DEF Saved, GiveUp, Succeed, Fail, Leave, fileVars, ProviderTypeOK, FileTypes
  <2> QED BY <1>9, <1>n, <2>1, EndTypes DEF Saved, GiveUp, fileVars
<1>10. CASE Retry(h)
  <2>1. FileTypes' BY <1>10 DEF Retry, fileVars, ProviderTypeOK, FileTypes
  <2>2. /\ at' = [at EXCEPT ![h] = "open"] /\ request' = [request EXCEPT ![h] = request[h]]
        /\ loaded' = [loaded EXCEPT ![h] = loaded[h]] /\ again' \subseteq again \cup {h}
        /\ request[h] \in Async \cup Sync \cup {NoRequest} /\ loaded[h] \in Configs
        /\ opened' \subseteq opened \cup {h} /\ h \notin opened'
    BY <1>10, <1>n DEF Retry, Goto, fileVars, ProviderTypeOK, HandlerTypes
  <2>3. HandlerTypes' BY <2>2, HandlerStep DEF ProviderTypeOK, Steps
  <2> QED BY <1>10, <2>1, <2>3 DEF Retry, ProviderTypeOK
<1> QED BY <1>1, <1>2, <1>3, <1>4, <1>5, <1>6, <1>7, <1>8, <1>9, <1>10 DEF SaveStep

LEMMA ProviderStepTypes ==
  ProviderTypeOK /\ [ProviderNext]_providerVars => ProviderTypeOK'
PROOF
<1> SUFFICES ASSUME ProviderTypeOK, [ProviderNext]_providerVars PROVE ProviderTypeOK'
  OBVIOUS
<1>n. \A h \in Handlers : at[h] # "write" => h \notin opened BY DEF ProviderTypeOK, HandlerTypes
<1>1. ASSUME NEW h \in Handlers, NEW r \in Async \cup Sync, Begin(h, r) PROVE ProviderTypeOK'
  <2>1. CASE r.kind = "test"
    <3>1. /\ at' = [at EXCEPT ![h] = "probe"] /\ request' = [request EXCEPT ![h] = r]
          /\ loaded' = [loaded EXCEPT ![h] = loaded[h]] /\ again' \subseteq again \cup {h}
          /\ loaded[h] \in Configs /\ opened' \subseteq opened \cup {h} /\ h \notin opened'
      BY <1>1, <1>n, <2>1 DEF Begin, Goto, fileVars, ProviderTypeOK, HandlerTypes
    <3>2. HandlerTypes' BY <3>1, HandlerStep DEF ProviderTypeOK, Steps
    <3>3. FileTypes' BY <1>1, <2>1 DEF Begin, fileVars, ProviderTypeOK, FileTypes
    <3> QED BY <1>1, <2>1, <3>2, <3>3 DEF Begin, ProviderTypeOK
  <2>2. CASE r.kind # "test"
    <3>1. Enter(h, First(r)) /\ at[h] # "write" /\ First(r) \in Steps
      BY <1>1, <2>2 DEF Begin, First, Steps
    <3> QED BY <1>1, <3>1, EnterTypes DEF Begin
  <2> QED BY <2>1, <2>2
<1>2. ASSUME NEW h \in Handlers, Probed(h) PROVE ProviderTypeOK'
  <2>1. /\ request' = [request EXCEPT ![h] = request[h]]
        /\ request[h] \in Async \cup Sync \cup {NoRequest} /\ at[h] # "write"
    BY <1>2 DEF Probed, ProviderTypeOK, HandlerTypes
  <2> QED BY <1>2, <2>1, EnterTypes DEF Probed, Steps
<1>3. ASSUME NEW h \in Handlers, ProbeFails(h) PROVE ProviderTypeOK'
  <2>1. /\ at' = [at EXCEPT ![h] = "idle"] /\ request' = [request EXCEPT ![h] = NoRequest]
        /\ loaded' = [loaded EXCEPT ![h] = loaded[h]] /\ again' \subseteq again \cup {h}
        /\ loaded[h] \in Configs /\ opened' \subseteq opened \cup {h} /\ h \notin opened'
    BY <1>3, <1>n DEF ProbeFails, Goto, fileVars, ProviderTypeOK, HandlerTypes
  <2>2. HandlerTypes' BY <2>1, HandlerStep DEF ProviderTypeOK, Steps
  <2>3. FileTypes' BY <1>3 DEF ProbeFails, fileVars, ProviderTypeOK, FileTypes
  <2> QED BY <1>3, <2>2, <2>3 DEF ProbeFails, ProviderTypeOK
<1>4. ASSUME NEW h \in Handlers, DeleteStep(h) PROVE ProviderTypeOK'
  <2>1. CASE Unlink(h)
    <3>1. FileTypes' BY <2>1, FileFacts DEF Unlink, Go, ProviderTypeOK, FileTypes
    <3> QED BY <2>1, <3>1, GoTypes DEF Unlink, Steps
  <2>2. CASE UnlinkLegacy(h)
    <3>1. FileTypes'
      BY <2>2, FileFacts DEF UnlinkLegacy, LegacyGone, Succeed, Leave, ProviderTypeOK, FileTypes
    <3> QED BY <2>2, <1>n, <3>1, EndTypes DEF UnlinkLegacy
  <2> QED BY <1>4, <2>1, <2>2 DEF DeleteStep
<1>5. CASE Crash
  <2>1. FileTypes' BY <1>5 DEF Crash, ProviderTypeOK, FileTypes
  <2>2. HandlerTypes' BY <1>5, DefaultsIsConfig DEF Crash, HandlerTypes, Steps
  <2>3. want' \in Configs /\ alone' = TRUE
    BY <1>5, FileFacts DEF Crash, Shown, ProviderTypeOK, FileTypes
  <2> QED BY <2>1, <2>2, <2>3 DEF ProviderTypeOK
<1>6. CASE UNCHANGED providerVars
  BY <1>6 DEF providerVars, fileVars, wayVars, ProviderTypeOK, FileTypes, HandlerTypes
<1> QED BY <1>1, <1>2, <1>3, <1>4, <1>5, <1>6, LoadTypes, SaveTypes DEF ProviderNext, Handler

\* For any endpoints, models, coroutines and threads, every variable has its type:
\* a descriptor is open only between the truncation and the write, on posix.
THEOREM ProviderTypesHold == ProviderSpec => []ProviderTypeOK
BY ProviderInitTypes, ProviderStepTypes, PTL DEF ProviderSpec

\* For any endpoints, models, coroutines and threads: no interleaving, failure or
\* crash puts the key of one server beside the endpoint of another.
THEOREM KeyStaysHolds == ProviderSpec => []KeyStaysWithEndpoint
PROOF
<1>1. ProviderTypeOK => KeyStaysWithEndpoint
  BY FileFacts, PairOfConfig DEF ProviderTypeOK, FileTypes, KeyStaysWithEndpoint
<1> QED BY <1>1, ProviderTypesHold, PTL

\* A handler that runs alone finds its file as it left it: absent where it moves one in
\* or removed one, protected where it writes and verifies, but for a configuration that
\* is saved on posix, and then it is empty when the write begins.
Place(h) ==
  /\ at[h] \in {"move", "unlink_legacy"} => disk = Absent
  /\ at[h] = "acl" => host.windows
  /\ at[h] = "open" /\ request[h].kind # "update" => disk = Absent \/ (host.enforces => private)
  /\ at[h] = "write" /\ ~host.windows => disk = Empty
  /\ at[h] = "write" /\ (host.windows \/ request[h].kind # "update") => (host.enforces => private)
  /\ at[h] = "verify" => (host.enforces => private)
SoloInv == alone => \A h \in Handlers : Working(h) => OthersRest(h) /\ Place(h)

\* A step of one handler, while the others rest or the history no longer counts.
LEMMA SoloKept ==
  ASSUME ProviderTypeOK, NEW h \in Handlers, NEW s \in Steps, at' = [at EXCEPT ![h] = s],
         alone' => OthersRest(h), alone' => Place(h)'
  PROVE  SoloInv'
PROOF
<1>1. \A g \in Handlers : at'[g] = IF g = h THEN s ELSE at[g]
  BY DEF ProviderTypeOK, HandlerTypes
<1>2. ASSUME alone', NEW g \in Handlers, Working(g)' PROVE g = h
  BY <1>1, <1>2 DEF OthersRest, Working
<1> QED BY <1>2 DEF SoloInv, OthersRest

\* A step between rest and the probe, which no file knows of.
LEMMA ProbeKeepsSolo ==
  ASSUME ProviderTypeOK, SoloInv, NEW h \in Handlers, NEW s \in {"idle", "probe"},
         at' = [at EXCEPT ![h] = s], ~Working(h), UNCHANGED <<host, disk, private, alone>>,
         NEW r, request' = [request EXCEPT ![h] = r]
  PROVE  SoloInv'
PROOF
<1>1. \A g \in Handlers : at'[g] = IF g = h THEN s ELSE at[g]
  BY DEF ProviderTypeOK, HandlerTypes
<1>2. \A g \in Handlers : Working(g)' <=> Working(g) BY <1>1 DEF Working
<1>r. \A g \in Handlers : g # h => request'[g] = request[g]
  BY DEF ProviderTypeOK, HandlerTypes
<1>3. \A g \in Handlers : Working(g) => (Place(g)' <=> Place(g))
  BY <1>1, <1>r DEF Working, Place
<1> QED BY <1>2, <1>3 DEF SoloInv, OthersRest

\* A step that goes on finds the others at rest, if the history counts.
LEMMA SoloGo ==
  ASSUME ProviderTypeOK, SoloInv, NEW h \in Handlers, NEW s \in Steps, Working(h), Go(h, s),
         alone => Place(h)'
  PROVE  SoloInv'
PROOF
<1>1. alone' = alone /\ at' = [at EXCEPT ![h] = s] BY DEF Go, Goto
<1>2. alone => OthersRest(h) BY DEF SoloInv
<1> QED BY <1>1, <1>2, SoloKept

LEMMA SoloEnd ==
  ASSUME ProviderTypeOK, NEW h \in Handlers, Succeed(h) \/ Fail(h)
  PROVE  SoloInv'
PROOF
<1>1. at' = [at EXCEPT ![h] = "idle"] /\ alone' = OthersRest(h)
  BY DEF Succeed, Fail, Leave, Goto
<1>2. at'[h] = "idle" BY <1>1 DEF ProviderTypeOK, HandlerTypes
<1>3. Place(h)' BY <1>2 DEF Place
<1> QED BY <1>1, <1>3, SoloKept DEF Steps

LEMMA SoloEnter ==
  ASSUME ProviderTypeOK, NEW h \in Handlers, NEW s \in {"open", "unlink", "check"}, Enter(h, s),
         s = "open" => request'[h].kind = "update"
  PROVE  SoloInv'
PROOF
<1>1. at' = [at EXCEPT ![h] = s] /\ (alone' => OthersRest(h)) BY DEF Enter, Goto
<1>2. at'[h] = s BY <1>1 DEF ProviderTypeOK, HandlerTypes
<1>3. Place(h)' BY <1>2 DEF Place
<1> QED BY <1>1, <1>3, SoloKept DEF Steps

LEMMA SoloHandlerStep ==
  ASSUME ProviderTypeOK, SoloInv, NEW h \in Handlers, LoadStep(h) \/ SaveStep(h) \/ DeleteStep(h)
  PROVE  SoloInv'
PROOF
<1> USE FileFacts
<1>a. \A s : at' = [at EXCEPT ![h] = s] => at'[h] = s BY DEF ProviderTypeOK, HandlerTypes
<1>p. alone /\ Working(h) => Place(h) BY DEF SoloInv
<1>1. CASE Check(h)
  <2>1. PICK s \in {"move", "read"} : Go(h, s) /\ (s = "move" => disk = Absent)
    BY <1>1 DEF Check
  <2>2. Working(h) /\ at'[h] = s /\ disk' = disk
    BY <1>1, <1>a, <2>1 DEF Check, Working, Go, Goto, fileVars
  <2>3. Place(h)' BY <2>1, <2>2 DEF Place
  <2> QED BY <2>1, <2>2, <2>3, SoloGo DEF Steps
<1>2. CASE Move(h)
  <2>1. Working(h) /\ Go(h, "read") /\ at'[h] = "read"
    BY <1>2, <1>a DEF Move, Working, Go, Goto
  <2>2. Place(h)' BY <2>1 DEF Place
  <2> QED BY <2>1, <2>2, SoloGo DEF Steps
<1>3. CASE MoveFails(h) \/ Look(h) \/ RestrictFails(h) \/ WriteFails(h) \/ ChmodFails(h)
          \/ Saved(h) \/ GiveUp(h) \/ UnlinkLegacy(h)
  BY <1>3, SoloEnd DEF MoveFails, Look, RestrictFails, WriteFails, ChmodFails, Saved, GiveUp,
     UnlinkLegacy
<1>4. CASE Load(h) \/ Retry(h)
  <2>1. Working(h) /\ at' = [at EXCEPT ![h] = "open"] /\ alone' = alone /\ disk' = disk
        /\ host' = host
    BY <1>4 DEF Load, Retry, Working, Goto, fileVars
  <2>p. alone => disk' = Absent \/ (host.enforces => private')
    <3>1. CASE Load(h) BY <3>1, <2>1 DEF Load, Repaired
    <3>2. CASE Retry(h) BY <3>2, <1>p, <2>1 DEF Retry, Place, fileVars
    <3> QED BY <1>4, <3>1, <3>2
  <2>2. alone => Place(h)' BY <2>1, <2>p, <1>a DEF Place
  <2>3. alone => OthersRest(h) BY <2>1 DEF SoloInv
  <2> QED BY <2>1, <2>2, <2>3, SoloKept DEF Steps
<1>5. CASE Truncate(h)
  <2>1. PICK s \in {"acl", "write"} : Go(h, s) /\ (s = "acl" <=> host.windows)
    BY <1>5 DEF Truncate
  <2>2. Working(h) /\ at'[h] = s /\ disk' = Empty /\ host' = host /\ request' = request
    BY <1>5, <1>a, <2>1 DEF Truncate, Working, Go, Goto
  <2>p. alone /\ ~host.windows /\ request[h].kind # "update" => (host.enforces => private')
    BY <1>5, <1>p, <2>2 DEF Truncate, Place
  <2>3. alone => Place(h)' BY <2>1, <2>2, <2>p DEF Place
  <2> QED BY <2>1, <2>2, <2>3, SoloGo DEF Steps
<1>6. CASE RestrictWindows(h)
  <2>1. Working(h) /\ Go(h, "write") /\ at'[h] = "write" /\ private' = TRUE /\ host' = host
    BY <1>6, <1>a DEF RestrictWindows, Working, Go, Goto
  <2>2. alone => Place(h)' BY <1>6, <1>p, <2>1 DEF RestrictWindows, Place
  <2> QED BY <2>1, <2>2, SoloGo DEF Steps
<1>7. CASE WriteWindows(h)
  <2>1. Working(h) /\ Go(h, "verify") /\ at'[h] = "verify" /\ private' = private /\ host' = host
        /\ host.windows /\ at[h] = "write"
    BY <1>7, <1>a DEF WriteWindows, Working, Go, Goto, ProviderTypeOK, FileTypes
  <2>2. alone => Place(h)' BY <2>1, <1>p DEF Place
  <2> QED BY <2>1, <2>2, SoloGo DEF Steps
<1>8. CASE WritePosix(h)
  <2>1. Working(h) /\ Go(h, "chmod") /\ at'[h] = "chmod"
    BY <1>8, <1>a DEF WritePosix, Working, Go, Goto
  <2>2. Place(h)' BY <2>1 DEF Place
  <2> QED BY <2>1, <2>2, SoloGo DEF Steps
<1>9. CASE Chmod(h)
  <2>1. Working(h) /\ Go(h, "verify") /\ at'[h] = "verify" /\ private' = host.enforces
        /\ host' = host
    BY <1>9, <1>a DEF Chmod, Working, Go, Goto
  <2>2. Place(h)' BY <2>1 DEF Place
  <2> QED BY <2>1, <2>2, SoloGo DEF Steps
<1>10. CASE Unlink(h)
  <2>1. Working(h) /\ Go(h, "unlink_legacy") /\ at'[h] = "unlink_legacy" /\ disk' = Absent
    BY <1>10, <1>a DEF Unlink, Working, Go, Goto
  <2>2. Place(h)' BY <2>1 DEF Place
  <2> QED BY <2>1, <2>2, SoloGo DEF Steps
<1> QED BY <1>1, <1>2, <1>3, <1>4, <1>5, <1>6, <1>7, <1>8, <1>9, <1>10
        DEF LoadStep, SaveStep, DeleteStep

LEMMA SoloStep == ProviderTypeOK /\ SoloInv /\ [ProviderNext]_providerVars => SoloInv'
PROOF
<1> SUFFICES ASSUME ProviderTypeOK, SoloInv, [ProviderNext]_providerVars PROVE SoloInv'
  OBVIOUS
<1>1. ASSUME NEW h \in Handlers, NEW r \in Async \cup Sync, Begin(h, r) PROVE SoloInv'
  <2>1. CASE r.kind = "test"
    <3>1. at' = [at EXCEPT ![h] = "probe"] /\ ~Working(h) /\ UNCHANGED <<host, disk, private, alone>>
          /\ request' = [request EXCEPT ![h] = r]
      BY <1>1, <2>1 DEF Begin, Goto, Working, fileVars
    <3> QED BY <3>1, ProbeKeepsSolo
  <2>2. CASE r.kind # "test"
    <3>1. Enter(h, First(r)) /\ First(r) \in {"open", "unlink", "check"}
          /\ (First(r) = "open" => r.kind = "update") /\ request'[h] = r
      BY <1>1, <2>2 DEF Begin, First, ProviderTypeOK, HandlerTypes
    <3> QED BY <3>1, SoloEnter
  <2> QED BY <2>1, <2>2
<1>2. ASSUME NEW h \in Handlers, Probed(h) PROVE SoloInv'
  BY <1>2, SoloEnter DEF Probed
<1>3. ASSUME NEW h \in Handlers, ProbeFails(h) PROVE SoloInv'
  <2>1. at' = [at EXCEPT ![h] = "idle"] /\ ~Working(h) /\ UNCHANGED <<host, disk, private, alone>>
        /\ request' = [request EXCEPT ![h] = NoRequest]
    BY <1>3 DEF ProbeFails, Goto, Working, fileVars
  <2> QED BY <2>1, ProbeKeepsSolo
<1>4. CASE Crash
  BY <1>4 DEF Crash, SoloInv, Working
<1>5. CASE UNCHANGED providerVars
  BY <1>5 DEF providerVars, fileVars, wayVars, SoloInv, Working, OthersRest, Place
<1> QED BY <1>1, <1>2, <1>3, <1>4, <1>5, SoloHandlerStep DEF ProviderNext, Handler

\* What a handler that ran alone leaves behind is protected or holds no part of a key,
\* but where the saving of a configuration fails on posix.
LEMMA LeftPrivate ==
  ASSUME ProviderTypeOK, SoloInv, [ProviderNext]_providerVars, ~Crash,
         NEW h \in Handlers, host.enforces, alone, Leaves(h)
  PROVE  private' \/ disk'.state \in {"absent", "empty"} \/ MayStayOpen(h)
PROOF
<1> USE FileFacts
<1>w. Working(h) /\ OthersRest(h) /\ Place(h) /\ at'[h] = "idle" /\ at[h] # "idle"
  BY DEF Leaves, SoloInv, Working
<1>o. ASSUME NEW g \in Handlers, g # h, NEW s, at' = [at EXCEPT ![g] = s] PROVE FALSE
  BY <1>o, <1>w DEF ProviderTypeOK, HandlerTypes
<1>s. ASSUME NEW s \in Steps \ {"idle"}, at' = [at EXCEPT ![h] = s] PROVE FALSE
  BY <1>s, <1>w DEF ProviderTypeOK, HandlerTypes
<1>1. PICK g \in Handlers : Handler(g)
  BY <1>w DEF ProviderNext, providerVars, wayVars
<1>2. \E s \in Steps : at' = [at EXCEPT ![g] = s]
  BY <1>1 DEF Handler, Begin, Enter, First, Probed, ProbeFails, LoadStep, SaveStep, DeleteStep,
     Check, Move, MoveFails, Look, Load, Truncate, RestrictWindows, RestrictFails, WritePosix, WriteWindows,
     WriteFails, Chmod, ChmodFails, Saved, Retry, GiveUp, Unlink, UnlinkLegacy, Go, Goto,
     Succeed, Fail, Leave, Steps
<1>3. Handler(h) BY <1>1, <1>2, <1>o
<1>4. ASSUME NEW r \in Async \cup Sync, Begin(h, r) PROVE FALSE
  BY <1>4, <1>w DEF Begin
<1>5. ~Probed(h) /\ ~ProbeFails(h) BY <1>w DEF Probed, ProbeFails, Working
<1>6. CASE LoadStep(h)
  <2>1. ~Check(h) /\ ~Move(h) /\ ~Load(h)
    BY <1>s DEF Check, Move, Load, Go, Goto, Steps
  <2>2. CASE MoveFails(h) BY <2>2, <1>w DEF MoveFails, fileVars, Place, Absent
  <2>3. CASE Look(h) BY <2>3 DEF Look, Repaired, Absent, ProviderTypeOK, FileTypes
  <2> QED BY <1>6, <2>1, <2>2, <2>3 DEF LoadStep
<1>7. CASE SaveStep(h)
  <2>1. ~Truncate(h) /\ ~RestrictWindows(h) /\ ~WritePosix(h) /\ ~WriteWindows(h) /\ ~Chmod(h) /\ ~Retry(h)
    <3>1. ~Truncate(h) BY <1>s DEF Truncate, Go, Goto, Steps
    <3> QED BY <3>1, <1>s DEF RestrictWindows, WritePosix, WriteWindows, Chmod, Retry, Go, Goto, Steps
  <2>2. CASE RestrictFails(h) BY <2>2 DEF RestrictFails, Absent
  <2>3. CASE WriteFails(h)
    <3>1. CASE host.windows
      BY <2>3, <3>1, <1>w DEF WriteFails, Place, ProviderTypeOK, FileTypes
    <3>2. CASE ~host.windows /\ request[h].kind = "update"
      BY <2>3, <3>2 DEF WriteFails, MayStayOpen
    <3>3. CASE ~host.windows /\ request[h].kind # "update"
      BY <2>3, <3>3, <1>w DEF WriteFails, Place, ProviderTypeOK, FileTypes
    <3> QED BY <3>1, <3>2, <3>3
  <2>4. CASE ChmodFails(h) BY <2>4 DEF ChmodFails, fileVars, Absent
  <2>5. CASE Saved(h) BY <2>5 DEF Saved, Restricted, fileVars
  <2>6. CASE GiveUp(h) BY <2>6, <1>w DEF GiveUp, fileVars, Place
  <2> QED BY <1>7, <2>1, <2>2, <2>3, <2>4, <2>5, <2>6 DEF SaveStep
<1>8. CASE DeleteStep(h)
  <2>1. ~Unlink(h) BY <1>s DEF Unlink, Go, Goto, Steps
  <2> QED BY <1>8, <1>w, <2>1 DEF DeleteStep, UnlinkLegacy, Place, Absent
<1> QED BY <1>3, <1>4, <1>5, <1>6, <1>7, <1>8 DEF Handler

\* For any endpoints, models, coroutines and threads: a handler that ran alone leaves
\* no key and no part of one where others can read it, however it ends, but where the
\* write of a saved configuration fails on posix (secure_io.write_private_json_verified).
THEOREM SecretsHold == ProviderSpec => SecretsArePrivate
PROOF
<1>1. ProviderInit => SoloInv BY DEF ProviderInit, SoloInv, Working
<1>2. ProviderTypeOK /\ SoloInv /\ [ProviderNext]_providerVars =>
        [\A h \in Handlers : host.enforces /\ alone /\ Leaves(h) /\ ~Crash
           => private' \/ disk'.state \in {"absent", "empty"} \/ MayStayOpen(h)]_providerVars
  BY LeftPrivate
<1> QED BY <1>1, <1>2, ProviderInitTypes, ProviderStepTypes, SoloStep, PTL
        DEF ProviderSpec, SecretsArePrivate

-----------------------------------------------------------------------------
(* What the operations promise.                                               *)

\* A request is at a step that is one of its own.
Loading == {"check", "move", "read"}
Saving == {"open", "acl", "write", "chmod", "verify"}
Deleting == {"unlink", "unlink_legacy"}
KindsInv ==
  \A h \in Handlers :
    /\ at[h] = "probe" => request[h].kind = "test"
    /\ at[h] \in Loading => request[h].kind \in {"choose", "test", "look"}
    /\ at[h] \in Saving => request[h].kind \in {"choose", "test", "update"}
    /\ at[h] \in Deleting => request[h].kind = "delete"

\* How far a handler that runs alone has come: until it saves, what is shown is
\* what it found; what it holds gives what it was asked for; once it has written,
\* that is in the file.
Progress(h) ==
  /\ at[h] \in Loading => Shown = want
  /\ at[h] = "move" => disk = Absent
  /\ at[h] = "read" => disk.config = want
  /\ at[h] \in Saving => Merged(request[h], loaded[h]) = Merged(request[h], want)
  /\ at[h] = "write" /\ ~host.windows => disk = Empty /\ h \in opened
  /\ at[h] \in {"chmod", "verify"} => disk = Whole(Merged(request[h], loaded[h]))
  /\ at[h] = "unlink_legacy" => disk = Absent
KeptInv ==
  /\ (\A h \in Handlers : ~Working(h)) => alone /\ Shown = want
  /\ alone => \A h \in Handlers : Working(h) => Progress(h)

\* A request that changes nothing but its place stays at steps of its own.
LEMMA KindsStep == ProviderTypeOK /\ KindsInv /\ [ProviderNext]_providerVars => KindsInv'
PROOF
<1> SUFFICES ASSUME ProviderTypeOK, KindsInv, [ProviderNext]_providerVars PROVE KindsInv'
  OBVIOUS
<1> USE DEF Loading, Saving, Deleting
<1>t. at \in [Handlers -> Steps] /\ DOMAIN request = Handlers
  BY DEF ProviderTypeOK, HandlerTypes
<1>k. \A h \in Handlers :
        /\ at[h] = "probe" => request[h].kind = "test"
        /\ at[h] \in Loading => request[h].kind \in {"choose", "test", "look"}
        /\ at[h] \in Saving => request[h].kind \in {"choose", "test", "update"}
        /\ at[h] \in Deleting => request[h].kind = "delete"
  BY DEF KindsInv
\* One handler's place and request change.
<1>m. ASSUME NEW h \in Handlers, NEW s \in Steps, NEW r,
             at' = [at EXCEPT ![h] = s], request' = [request EXCEPT ![h] = r],
             s = "probe" => r.kind = "test",
             s \in Loading => r.kind \in {"choose", "test", "look"},
             s \in Saving => r.kind \in {"choose", "test", "update"},
             s \in Deleting => r.kind = "delete"
      PROVE  KindsInv'
  <2>1. at'[h] = s /\ request'[h] = r BY <1>t, <1>m
  <2>2. \A g \in Handlers : g # h => at'[g] = at[g] /\ request'[g] = request[g]
    BY <1>t, <1>m
  <2>3. ASSUME NEW g \in Handlers
        PROVE  /\ at'[g] = "probe" => request'[g].kind = "test"
               /\ at'[g] \in Loading => request'[g].kind \in {"choose", "test", "look"}
               /\ at'[g] \in Saving => request'[g].kind \in {"choose", "test", "update"}
               /\ at'[g] \in Deleting => request'[g].kind = "delete"
    <3>1. CASE g = h BY <1>m, <2>1, <3>1
    <3>2. CASE g # h BY <2>2, <3>2 DEF KindsInv
    <3> QED BY <3>1, <3>2
  <2> QED BY <2>3 DEF KindsInv
<1> DEFINE Same(h, s) == /\ at' = [at EXCEPT ![h] = s]
                         /\ request' = [request EXCEPT ![h] = request[h]]
<1>u. \A h \in Handlers : request = [request EXCEPT ![h] = request[h]]
  BY DEF ProviderTypeOK, HandlerTypes
<1>l. ASSUME NEW h \in Handlers, at[h] \in Loading, NEW s \in Loading, Same(h, s) PROVE KindsInv'
  BY <1>k, <1>l, <1>m DEF Steps
<1>s. ASSUME NEW h \in Handlers, request[h].kind \in {"choose", "test", "update"},
             NEW s \in Saving, Same(h, s)
      PROVE KindsInv'
  BY <1>m, <1>s DEF Steps
<1>d. ASSUME NEW h \in Handlers, at[h] \in Deleting, NEW s \in Deleting, Same(h, s) PROVE KindsInv'
  BY <1>d, <1>k, <1>m DEF Steps
<1>i. ASSUME NEW h \in Handlers, at' = [at EXCEPT ![h] = "idle"],
             request' = [request EXCEPT ![h] = NoRequest]
      PROVE KindsInv'
  BY <1>i, <1>m DEF Steps
<1>e. ASSUME NEW h \in Handlers, Succeed(h) \/ Fail(h) PROVE KindsInv'
  BY <1>e, <1>i DEF Succeed, Fail, Leave, Goto
<1>1. ASSUME NEW h \in Handlers, NEW r \in Async \cup Sync, Begin(h, r) PROVE KindsInv'
  <2>1. r.kind \in {"test", "look", "update", "delete", "choose"}
    BY DEF Async, Sync, Asks
  <2>2. PICK s \in {"probe", "open", "unlink", "check"} :
          /\ at' = [at EXCEPT ![h] = s] /\ request' = [request EXCEPT ![h] = r]
          /\ s = "probe" <=> r.kind = "test"
          /\ s = "open" => r.kind = "update"
          /\ s = "unlink" => r.kind = "delete"
          /\ s = "check" => r.kind \notin {"update", "delete"}
    BY <1>1 DEF Begin, Enter, First, Goto
  <2>3. s \in Steps BY DEF Steps
  <2> QED BY <1>m, <2>1, <2>2, <2>3
<1>2. ASSUME NEW h \in Handlers, Probed(h) PROVE KindsInv'
  <2>1. Same(h, "check") /\ at[h] = "probe" BY <1>2, <1>u DEF Probed, Enter, Goto
  <2>2. "check" \in Steps BY DEF Steps
  <2> QED BY <1>k, <1>m, <2>1, <2>2
<1>3. ASSUME NEW h \in Handlers, ProbeFails(h) PROVE KindsInv'
  BY <1>3, <1>i DEF ProbeFails, Goto
<1>4. ASSUME NEW h \in Handlers, LoadStep(h) PROVE KindsInv'
  <2>1. CASE Check(h)
    <3>1. PICK s \in {"move", "read"} : Go(h, s) BY <2>1 DEF Check
    <3> QED BY <1>l, <1>u, <2>1, <3>1 DEF Check, Go, Goto
  <2>2. CASE Move(h) BY <1>l, <1>u, <2>2 DEF Move, Go, Goto
  <2>3. CASE MoveFails(h) \/ Look(h) BY <1>e, <2>3 DEF MoveFails, Look
  <2>4. CASE Load(h) BY <1>k, <1>s, <1>u, <2>4 DEF Load, Goto
  <2> QED BY <1>4, <2>1, <2>2, <2>3, <2>4 DEF LoadStep
<1>5. ASSUME NEW h \in Handlers, SaveStep(h) PROVE KindsInv'
  <2>1. CASE Truncate(h)
    <3>1. PICK s \in {"acl", "write"} : Go(h, s) BY <2>1 DEF Truncate
    <3> QED BY <1>k, <1>s, <1>u, <2>1, <3>1 DEF Truncate, Go, Goto
  <2>2. CASE RestrictWindows(h) BY <1>k, <1>s, <1>u, <2>2 DEF RestrictWindows, Go, Goto
  <2>3. CASE WritePosix(h) BY <1>k, <1>s, <1>u, <2>3 DEF WritePosix, Go, Goto
  <2>4. CASE WriteWindows(h) BY <1>k, <1>s, <1>u, <2>4 DEF WriteWindows, Go, Goto
  <2>5. CASE Chmod(h) BY <1>k, <1>s, <1>u, <2>5 DEF Chmod, Go, Goto
  <2>6. CASE Retry(h) BY <1>k, <1>s, <1>u, <2>6 DEF Retry, Goto
  <2>7. CASE RestrictFails(h) \/ WriteFails(h) \/ ChmodFails(h) \/ Saved(h) \/ GiveUp(h)
    BY <1>e, <2>7 DEF RestrictFails, WriteFails, ChmodFails, Saved, GiveUp
  <2> QED BY <1>5, <2>1, <2>2, <2>3, <2>4, <2>5, <2>6, <2>7 DEF SaveStep
<1>6. ASSUME NEW h \in Handlers, DeleteStep(h) PROVE KindsInv'
  <2>1. CASE Unlink(h) BY <1>d, <1>u, <2>1 DEF Unlink, Go, Goto
  <2>2. CASE UnlinkLegacy(h) BY <1>e, <2>2 DEF UnlinkLegacy
  <2> QED BY <1>6, <2>1, <2>2 DEF DeleteStep
<1>7. CASE Crash BY <1>7 DEF Crash, KindsInv
<1>8. CASE UNCHANGED providerVars BY <1>8 DEF providerVars, wayVars, KindsInv
<1> QED BY <1>1, <1>2, <1>3, <1>4, <1>5, <1>6, <1>7, <1>8 DEF ProviderNext, Handler

\* A step of one handler that goes on working.
LEMMA KeptGoing ==
  ASSUME ProviderTypeOK, NEW h \in Handlers, NEW s \in Steps \ {"idle", "probe"},
         at' = [at EXCEPT ![h] = s], alone' => OthersRest(h), alone' => Progress(h)'
  PROVE  KeptInv'
PROOF
<1>1. \A g \in Handlers : at'[g] = IF g = h THEN s ELSE at[g]
  BY DEF ProviderTypeOK, HandlerTypes
<1>2. Working(h)' BY <1>1 DEF Working
<1>3. ASSUME alone', NEW g \in Handlers, Working(g)' PROVE g = h
  BY <1>1, <1>3 DEF OthersRest, Working
<1> QED BY <1>2, <1>3 DEF KeptInv

\* A step that goes on where it was already working.
LEMMA KeptGo ==
  ASSUME ProviderTypeOK, SoloInv, NEW h \in Handlers, NEW s \in Steps \ {"idle", "probe"},
         Working(h), at' = [at EXCEPT ![h] = s], alone' = alone, alone => Progress(h)'
  PROVE  KeptInv'
PROOF
<1>1. alone => OthersRest(h) BY DEF SoloInv
<1> QED BY <1>1, KeptGoing

\* A request that ends leaves the history at what is shown, once all rest.
LEMMA KeptEnds ==
  ASSUME ProviderTypeOK, NEW h \in Handlers, NEW config, Leave(h, config),
         OthersRest(h) => config = Shown'
  PROVE  KeptInv'
PROOF
<1>1. /\ at' = [at EXCEPT ![h] = "idle"] /\ alone' = OthersRest(h)
      /\ want' = IF OthersRest(h) THEN config ELSE want
  BY DEF Leave, Goto
<1>2. \A g \in Handlers : at'[g] = IF g = h THEN "idle" ELSE at[g]
  BY <1>1 DEF ProviderTypeOK, HandlerTypes
<1>3. \A g \in Handlers : Working(g)' <=> g # h /\ Working(g) BY <1>2 DEF Working
<1>4. CASE OthersRest(h)
  <2>1. alone' /\ want' = Shown' BY <1>1, <1>4
  <2>2. \A g \in Handlers : ~Working(g)' BY <1>3, <1>4 DEF OthersRest
  <2> QED BY <2>1, <2>2 DEF KeptInv
<1>5. CASE ~OthersRest(h)
  <2>1. ~alone' BY <1>1, <1>5
  <2>2. \E g \in Handlers : Working(g)' BY <1>3, <1>5 DEF OthersRest
  <2> QED BY <2>1, <2>2 DEF KeptInv
<1> QED BY <1>4, <1>5

LEMMA KeptFails == ASSUME ProviderTypeOK, NEW h \in Handlers, Fail(h) PROVE KeptInv'
BY KeptEnds DEF Fail

\* A handler that worked alone succeeds with what it was asked for.
LEMMA KeptSucceeds ==
  ASSUME ProviderTypeOK, KeptInv, SoloInv, NEW h \in Handlers, Working(h), Succeed(h),
         alone => After(request[h], want) = Shown'
  PROVE  KeptInv'
BY KeptEnds DEF Succeed

\* A stretch begins: if nobody overlaps, all have rested, and what is shown is
\* what the history says.
LEMMA KeptEnters ==
  ASSUME ProviderTypeOK, KeptInv, NEW h \in Handlers, ~Working(h),
         NEW s \in {"open", "unlink", "check"}, Enter(h, s),
         s = "open" => request'[h].kind = "update"
  PROVE  KeptInv'
PROOF
<1>1. /\ at' = [at EXCEPT ![h] = s] /\ alone' = (alone /\ OthersRest(h))
      /\ disk' = disk /\ legacy' = legacy /\ want' = want
  BY DEF Enter, Goto, fileVars
<1>2. at'[h] = s /\ Shown' = Shown BY <1>1 DEF ProviderTypeOK, HandlerTypes, Shown
<1>3. ASSUME alone' PROVE Progress(h)'
  <2>1. \A g \in Handlers : ~Working(g) BY <1>1, <1>3 DEF OthersRest
  <2>2. Shown' = want' BY <1>1, <1>2, <2>1 DEF KeptInv
  <2>3. s = "open" => Merged(request'[h], loaded'[h]) = Merged(request'[h], want')
    BY DEF Merged
  <2>4. s = "open" => Merged(request[h], loaded[h])' = Merged(request[h], want)'
    BY <2>3 DEF Merged
  <2> QED BY <1>2, <2>2, <2>4 DEF Progress, Loading, Saving
<1>4. s \in Steps \ {"idle", "probe"} BY DEF Steps
<1> QED BY <1>1, <1>3, <1>4, KeptGoing

\* A step between rest and the probe.
LEMMA KeptProbes ==
  ASSUME ProviderTypeOK, KeptInv, NEW h \in Handlers, NEW s \in {"idle", "probe"},
         at' = [at EXCEPT ![h] = s], ~Working(h), NEW r, request' = [request EXCEPT ![h] = r],
         UNCHANGED <<host, fileVars, loaded, again, want, alone>>
  PROVE  KeptInv'
PROOF
<1>1. \A g \in Handlers : at'[g] = IF g = h THEN s ELSE at[g]
  BY DEF ProviderTypeOK, HandlerTypes
<1>2. \A g \in Handlers : Working(g)' <=> Working(g) BY <1>1 DEF Working
<1>3. \A g \in Handlers : g # h => request'[g] = request[g]
  BY DEF ProviderTypeOK, HandlerTypes
<1>4. Shown' = Shown BY DEF Shown, fileVars
<1>5. ASSUME NEW g \in Handlers, Working(g), Progress(g) PROVE Progress(g)'
  <2>1. g # h /\ at'[g] = at[g] /\ request'[g] = request[g] /\ loaded'[g] = loaded[g]
    BY <1>1, <1>3, <1>5
  <2>2. Merged(request[g], loaded[g])' = Merged(request[g], loaded[g])
        /\ Merged(request[g], want)' = Merged(request[g], want)
    BY <2>1 DEF Merged
  <2> QED BY <1>4, <1>5, <2>1, <2>2 DEF Progress, fileVars
<1> QED BY <1>2, <1>4, <1>5 DEF KeptInv

LEMMA KeptHandlerStep ==
  ASSUME ProviderTypeOK, KindsInv, SoloInv, KeptInv,
         NEW h \in Handlers, LoadStep(h) \/ SaveStep(h) \/ DeleteStep(h)
  PROVE  KeptInv'
PROOF
<1> USE FileFacts DEF Loading, Saving
<1>a. \A s : at' = [at EXCEPT ![h] = s] => at'[h] = s BY DEF ProviderTypeOK, HandlerTypes
<1>p. alone /\ Working(h) => Progress(h) BY DEF KeptInv
<1>k. /\ at[h] \in Loading => request[h].kind \in {"choose", "test", "look"}
      /\ at[h] \in Saving => request[h].kind \in {"choose", "test", "update"}
      /\ at[h] \in Deleting => request[h].kind = "delete"
  BY DEF KindsInv
<1>1. CASE Check(h)
  <2>1. PICK s \in {"move", "read"} : /\ Go(h, s)
                                      /\ s = "move" <=> (disk = Absent /\ legacy # Absent)
    BY <1>1 DEF Check
  <2>2. Working(h) /\ at'[h] = s /\ at' = [at EXCEPT ![h] = s] /\ alone' = alone /\ want' = want
        /\ disk' = disk /\ legacy' = legacy /\ at[h] = "check"
    BY <1>1, <1>a, <2>1 DEF Check, Working, Go, Goto, fileVars
  <2>3. s = "read" => Shown = disk.config BY <2>1 DEF Shown
  <2>4. alone => Shown = want BY <1>p, <2>2 DEF Progress
  <2>5. Shown' = Shown BY <2>2 DEF Shown
  <2>6. alone => Progress(h)' BY <2>1, <2>2, <2>3, <2>4, <2>5 DEF Progress
  <2> QED BY <2>2, <2>6, KeptGo DEF Steps
<1>2. CASE Move(h)
  <2>1. Working(h) /\ at'[h] = "read" /\ at' = [at EXCEPT ![h] = "read"] /\ alone' = alone
        /\ want' = want /\ disk' = legacy /\ legacy # Absent /\ at[h] = "move"
    BY <1>2, <1>a DEF Move, Working, Go, Goto
  <2>2. Shown' = legacy.config BY <2>1 DEF Shown
  <2>3. alone => disk = Absent /\ Shown = want BY <1>p, <2>1 DEF Progress
  <2>4. alone => legacy.config = want BY <2>3 DEF Shown
  <2>5. alone => Progress(h)' BY <2>1, <2>2, <2>4 DEF Progress
  <2> QED BY <2>1, <2>5, KeptGo DEF Steps
<1>3. CASE MoveFails(h) \/ RestrictFails(h) \/ WriteFails(h) \/ ChmodFails(h) \/ GiveUp(h)
  BY <1>3, KeptFails DEF MoveFails, RestrictFails, WriteFails, ChmodFails, GiveUp
<1>4. CASE Look(h)
  <2>1. Working(h) /\ at[h] = "read" /\ request[h].kind = "look" /\ Succeed(h)
        /\ disk' = disk /\ legacy' = legacy
    BY <1>4 DEF Look, Working
  <2>2. Shown' = Shown BY <2>1 DEF Shown
  <2>3. alone => Shown = want BY <1>p, <2>1 DEF Progress
  <2>4. After(request[h], want) = want BY <2>1 DEF After
  <2> QED BY <2>1, <2>2, <2>3, <2>4, KeptSucceeds
<1>5. CASE Load(h)
  <2>1. Working(h) /\ at'[h] = "open" /\ at' = [at EXCEPT ![h] = "open"] /\ alone' = alone
        /\ want' = want /\ request' = request /\ at[h] = "read" /\ loaded'[h] = disk.config
    BY <1>5, <1>a DEF Load, Working, Goto, ProviderTypeOK, HandlerTypes
  <2>2. alone => disk.config = want BY <1>p, <2>1 DEF Progress
  <2>3. alone => loaded'[h] = want /\ Merged(request[h], loaded'[h]) = Merged(request[h], want)
    BY <2>1, <2>2
  <2>4. alone => Merged(request[h], loaded[h])' = Merged(request[h], want)' BY <2>1, <2>3
  <2>5. alone => Progress(h)' BY <2>1, <2>4 DEF Progress
  <2> QED BY <2>1, <2>5, KeptGo DEF Steps
\* A step of a save leaves the request, what was loaded and the history alone.
<1>s. ASSUME NEW s \in Saving, at[h] \in Saving, at'[h] = s, alone,
             UNCHANGED <<request, loaded, want, host>>,
             s = "write" /\ ~host.windows => disk' = Empty /\ h \in opened',
             s \in {"chmod", "verify"} => disk' = Whole(Merged(request[h], loaded[h]))
      PROVE  Progress(h)'
  <2>1. Working(h) BY <1>s DEF Working
  <2>2. Merged(request[h], loaded[h]) = Merged(request[h], want) BY <1>p, <1>s, <2>1 DEF Progress
  <2>3. /\ Merged(request[h], loaded[h])' = Merged(request[h], loaded[h])
        /\ Merged(request[h], want)' = Merged(request[h], want)
    BY <1>s
  <2> QED BY <1>s, <2>2, <2>3 DEF Progress
<1>6. CASE Retry(h)
  <2>1. Working(h) /\ at'[h] = "open" /\ at' = [at EXCEPT ![h] = "open"] /\ alone' = alone
        /\ UNCHANGED <<request, loaded, want, host>> /\ at[h] \in Saving
    BY <1>6, <1>a DEF Retry, Working, Goto
  <2>2. alone => Progress(h)' BY <1>s, <2>1
  <2> QED BY <2>1, <2>2, KeptGo DEF Steps
<1>7. CASE Truncate(h)
  <2>1. PICK s \in {"acl", "write"} : Go(h, s) /\ (s = "acl" <=> host.windows)
    BY <1>7 DEF Truncate
  <2>2. Working(h) /\ at'[h] = s /\ at' = [at EXCEPT ![h] = s] /\ alone' = alone
        /\ UNCHANGED <<request, loaded, want, host>> /\ at[h] \in Saving
    BY <1>7, <1>a, <2>1 DEF Truncate, Working, Go, Goto
  <2>3. s = "write" => disk' = Empty /\ h \in opened' BY <1>7, <2>1 DEF Truncate
  <2>4. alone => Progress(h)' BY <1>s, <2>2, <2>3
  <2> QED BY <2>2, <2>4, KeptGo DEF Steps
<1>8. CASE RestrictWindows(h)
  <2>1. Working(h) /\ at'[h] = "write" /\ at' = [at EXCEPT ![h] = "write"] /\ alone' = alone
        /\ UNCHANGED <<request, loaded, want, host>> /\ at[h] = "acl"
    BY <1>8, <1>a DEF RestrictWindows, Working, Go, Goto
  <2>2. alone => host.windows BY <2>1 DEF SoloInv, Place
  <2>3. alone => Progress(h)' BY <1>s, <2>1, <2>2
  <2> QED BY <2>1, <2>3, KeptGo DEF Steps
<1>9. CASE WritePosix(h)
  <2>1. Working(h) /\ at'[h] = "chmod" /\ at' = [at EXCEPT ![h] = "chmod"] /\ alone' = alone
        /\ UNCHANGED <<request, loaded, want, host>> /\ at[h] = "write" /\ ~host.windows
    BY <1>9, <1>a DEF WritePosix, Working, Go, Goto
  <2>2. alone => disk = Empty /\ h \in opened BY <1>p, <2>1 DEF Progress
  <2>3. alone => disk' = Whole(Merged(request[h], loaded[h]))
    BY <1>9, <2>2 DEF WritePosix, Overwritten
  <2>4. alone => Progress(h)' BY <1>s, <2>1, <2>3
  <2> QED BY <2>1, <2>4, KeptGo DEF Steps
<1>10. CASE WriteWindows(h)
  <2>1. Working(h) /\ at'[h] = "verify" /\ at' = [at EXCEPT ![h] = "verify"] /\ alone' = alone
        /\ UNCHANGED <<request, loaded, want, host>> /\ at[h] = "write"
        /\ disk' = Whole(Merged(request[h], loaded[h]))
    BY <1>10, <1>a DEF WriteWindows, Working, Go, Goto
  <2>2. alone => Progress(h)' BY <1>s, <2>1
  <2> QED BY <2>1, <2>2, KeptGo DEF Steps
<1>11. CASE Chmod(h)
  <2>1. Working(h) /\ at'[h] = "verify" /\ at' = [at EXCEPT ![h] = "verify"] /\ alone' = alone
        /\ UNCHANGED <<request, loaded, want, host, disk>> /\ at[h] = "chmod"
    BY <1>11, <1>a DEF Chmod, Working, Go, Goto
  <2>2. alone => disk = Whole(Merged(request[h], loaded[h])) BY <1>p, <2>1 DEF Progress
  <2>3. alone => Progress(h)' BY <1>s, <2>1, <2>2
  <2> QED BY <2>1, <2>3, KeptGo DEF Steps
<1>12. CASE Saved(h)
  <2>1. Working(h) /\ at[h] = "verify" /\ Succeed(h) /\ disk' = disk /\ disk # Absent
    BY <1>12 DEF Saved, Working, Restricted, fileVars
  <2>2. request[h].kind \in {"choose", "test", "update"} BY <1>k, <2>1
  <2>3. After(request[h], want) = Merged(request[h], want) BY <2>2 DEF After
  <2>4. alone => disk = Whole(Merged(request[h], want)) BY <1>p, <2>1 DEF Progress
  <2>5. Shown' = disk.config BY <2>1 DEF Shown
  <2>6. alone => After(request[h], want) = Shown' BY <2>3, <2>4, <2>5 DEF Whole
  <2> QED BY <2>1, <2>6, KeptSucceeds
<1>13. CASE Unlink(h)
  <2>1. Working(h) /\ at'[h] = "unlink_legacy" /\ at' = [at EXCEPT ![h] = "unlink_legacy"]
        /\ alone' = alone /\ disk' = Absent
    BY <1>13, <1>a DEF Unlink, Working, Go, Goto
  <2>2. Progress(h)' BY <2>1 DEF Progress
  <2> QED BY <2>1, <2>2, KeptGo DEF Steps
<1>14. CASE UnlinkLegacy(h)
  <2>1. Working(h) /\ at[h] = "unlink_legacy" /\ Succeed(h) /\ disk' = disk /\ legacy' = Absent
    BY <1>14 DEF UnlinkLegacy, LegacyGone, Working
  <2>2. alone => disk = Absent BY <1>p, <2>1 DEF Progress
  <2>3. alone => Shown' = Defaults BY <2>1, <2>2 DEF Shown, Absent
  <2>4. request[h].kind = "delete" BY <1>k, <2>1 DEF Deleting
  <2>5. After(request[h], want) = Defaults BY <2>4 DEF After
  <2> QED BY <2>1, <2>3, <2>5, KeptSucceeds
<1> QED BY <1>1, <1>2, <1>3, <1>4, <1>5, <1>6, <1>7, <1>8, <1>9, <1>10, <1>11, <1>12, <1>13,
           <1>14 DEF LoadStep, SaveStep, DeleteStep

LEMMA KeptStep ==
  ProviderTypeOK /\ KindsInv /\ SoloInv /\ KeptInv /\ [ProviderNext]_providerVars => KeptInv'
PROOF
<1> SUFFICES ASSUME ProviderTypeOK, KindsInv, SoloInv, KeptInv, [ProviderNext]_providerVars
             PROVE  KeptInv'
  OBVIOUS
<1>u. \A h \in Handlers : request = [request EXCEPT ![h] = request[h]]
  BY DEF ProviderTypeOK, HandlerTypes
<1>1. ASSUME NEW h \in Handlers, NEW r \in Async \cup Sync, Begin(h, r) PROVE KeptInv'
  <2>0. ~Working(h) /\ request' = [request EXCEPT ![h] = r] /\ request'[h] = r
    BY <1>1 DEF Begin, Working, ProviderTypeOK, HandlerTypes
  <2>1. CASE r.kind = "test"
    <3>1. at' = [at EXCEPT ![h] = "probe"]
          /\ UNCHANGED <<host, fileVars, loaded, again, want, alone>>
      BY <1>1, <2>1 DEF Begin, Goto
    <3> QED BY <2>0, <3>1, KeptProbes
  <2>2. CASE r.kind # "test"
    <3>1. /\ Enter(h, First(r)) /\ First(r) \in {"open", "unlink", "check"}
          /\ First(r) = "open" => request'[h].kind = "update"
      BY <1>1, <2>0, <2>2 DEF Begin, First
    <3> QED BY <2>0, <3>1, KeptEnters
  <2> QED BY <2>1, <2>2
<1>2. ASSUME NEW h \in Handlers, Probed(h) PROVE KeptInv'
  <2>1. ~Working(h) /\ Enter(h, "check") BY <1>2 DEF Probed, Working
  <2> QED BY <2>1, KeptEnters
<1>3. ASSUME NEW h \in Handlers, ProbeFails(h) PROVE KeptInv'
  <2>1. /\ at' = [at EXCEPT ![h] = "idle"] /\ ~Working(h)
        /\ request' = [request EXCEPT ![h] = NoRequest]
        /\ UNCHANGED <<host, fileVars, loaded, again, want, alone>>
    BY <1>3 DEF ProbeFails, Goto, Working
  <2> QED BY <2>1, KeptProbes
<1>4. CASE Crash
  <2>1. Shown' = Shown BY <1>4 DEF Crash, Shown
  <2> QED BY <1>4, <2>1 DEF Crash, KeptInv, Working
<1>5. CASE UNCHANGED providerVars
  BY <1>5 DEF providerVars, fileVars, wayVars, KeptInv, Working, Progress, Shown
<1> QED BY <1>1, <1>2, <1>3, <1>4, <1>5, KeptHandlerStep DEF ProviderNext, Handler

\* For any endpoints, models, coroutines and threads: operations that do not overlap
\* leave what they say, though probes, retries, failures and crashes come between.
THEOREM ChoicesHold == ProviderSpec => []ChoicesKept
PROOF
<1>1. ProviderInit => SoloInv /\ KindsInv /\ KeptInv
  <2> SUFFICES ASSUME ProviderInit PROVE SoloInv /\ KindsInv /\ KeptInv OBVIOUS
  <2>1. \A h \in Handlers : at[h] = "idle" BY DEF ProviderInit
  <2>2. SoloInv /\ KindsInv
    BY <2>1 DEF SoloInv, KindsInv, Working, Loading, Saving, Deleting
  <2>3. KeptInv BY <2>1 DEF ProviderInit, KeptInv, Working
  <2> QED BY <2>2, <2>3
<1>2. KeptInv => ChoicesKept BY DEF KeptInv, ChoicesKept
<1> QED BY <1>1, <1>2, ProviderInitTypes, ProviderStepTypes, SoloStep, KindsStep, KeptStep, PTL
        DEF ProviderSpec

-----------------------------------------------------------------------------
(* The stores together.                                                       *)

\* A behaviour of the stores is one of each of them, so what is proved of one
\* holds whichever of them moves.
THEOREM StoresAreTheirParts ==
  MCSpec => ProviderSpec /\ ConsentSpec /\ MigrationSpec /\ SpeakersSpec
PROOF
<1>1. MCInit => ProviderInit /\ ConsentInit /\ MigrationInit /\ SpeakersInit
  BY DEF MCInit, IdleProvider, IdleMigration, IdleSpeakers
<1> DEFINE vars == <<part, providerVars, consentVars, migrationVars, speakerVars>>
<1>2. [MCNext]_vars => [ProviderNext]_providerVars BY DEF MCNext
<1>3. [MCNext]_vars => [ConsentNext]_consentVars BY DEF MCNext
<1>4. [MCNext]_vars => [MigrationNext]_migrationVars BY DEF MCNext
<1>5. [MCNext]_vars => [SpeakersNext]_speakerVars BY DEF MCNext
<1>6. MCSpec => ProviderSpec BY <1>1, <1>2, PTL DEF MCSpec, ProviderSpec
<1>7. MCSpec => ConsentSpec BY <1>1, <1>3, PTL DEF MCSpec, ConsentSpec
<1>8. MCSpec => MigrationSpec BY <1>1, <1>4, PTL DEF MCSpec, MigrationSpec
<1>9. MCSpec => SpeakersSpec BY <1>1, <1>5, PTL DEF MCSpec, SpeakersSpec
<1> QED BY <1>6, <1>7, <1>8, <1>9, PTL

\* The types of what the application keeps, whichever store moves.
THEOREM StoresTypes == MCSpec => []StoresTypeOK
PROOF
<1>1. ConsentSpec => []ConsentTypeOK
  <2>1. ConsentInv => ConsentTypeOK BY DEF ConsentInv
  <2> QED BY <2>1, ConsentInitInv, ConsentStep, PTL DEF ConsentSpec
<1>2. MigrationSpec => []MigrationTypeOK
  <2>1. MigrationInv => MigrationTypeOK BY DEF MigrationInv
  <2> QED BY <2>1, MigrationInitInv, MigrationStep, PTL DEF MigrationSpec
<1>3. ProviderTypeOK /\ ConsentTypeOK /\ MigrationTypeOK /\ SpeakersTypeOK => StoresTypeOK
  BY DEF StoresTypeOK
<1> QED
  BY <1>1, <1>2, <1>3, StoresAreTheirParts, ProviderTypesHold, SpeakersTypesHold, PTL

\* Every promise of the stores at once: a key stays with its endpoint and is never
\* left readable but where SecretsArePrivate says so, choices are kept, nobody is taken
\* to agree who did not, no file is lost, and no speaker gets a name without a reason.
THEOREM StoresAreSafe ==
  MCSpec => /\ [](/\ KeyStaysWithEndpoint /\ ChoicesKept /\ ConsentFailsClosed
                 /\ NothingIsLost /\ NamesAreHonest)
            /\ SecretsArePrivate
PROOF
BY StoresAreTheirParts, KeyStaysHolds, ChoicesHold, ConsentHolds, NothingIsLostHolds,
   NamesHold, SecretsHold, PTL
=============================================================================
