------------------------------ MODULE MCStores ------------------------------
(* What the application keeps, on small instances.  The provider file, the    *)
(* consent file, the move of the older version's data and the names of the    *)
(* speakers share no state: each is checked while the others stand still, and *)
(* `part` says which one moves.                                               *)
EXTENDS ProviderFileProps, ConsentFileProps, LegacyMigrationProps, SpeakersProps, TLC

CONSTANTS c1, c2, t1
VARIABLE part

\* One endpoint of the user's beside the one that is shipped.
Pair(e) == [endpoint |-> e, key |-> e]
UserPairs == {Pair("box")}
ShippedPair == Pair("localhost")

\* Two speakers who were heard; "near" is a voice like the first one's.  The clips of
\* the two names are stored at one path.
HeardLabels == <<"s1", "s2">>
NewVoices == [l \in {"s1", "s2"} |-> IF l = "s1" THEN "a" ELSE "b"]
PickledVoice == [NewVoices EXCEPT !["s2"] = "old"]
JobVoices == {NewVoices, PickledVoice}
AllVoices == {"a", "b", "near", "old"}
Alike == [p \in AllVoices \X AllVoices |->
            IF p[1] = p[2] THEN 2 ELSE IF p = <<"a", "near">> THEN 1 ELSE 0]
NamesGiven == {Row("s1", "m"), Row("s2", "n")}
Clips == {Clip("n", "near", "enroll_n_clip"), Clip("family/n", "b", "enroll_n_clip")}
FromJob == {Row("s2", "family/n")}
Pickled == <<Speaker("n", "old")>>

\* Coroutines and requests are interchangeable.
Sym == Permutations({c1, c2})

\* The parts that stand still, each in one of its initial states.
IdleProvider ==
  /\ ProviderInit /\ host = [windows |-> FALSE, enforces |-> TRUE] /\ disk = Absent
  /\ legacy = Absent /\ ~private
IdleMigration ==
  /\ MigrationInit /\ sameDevice /\ old = [f \in LegacyFiles |-> "none"]
  /\ new = [f \in LegacyFiles |-> "none"] /\ ~olddir
IdleSpeakers == SpeakersInit /\ rows = <<>> /\ known = <<>> /\ voiceOf = NewVoices

MCInit ==
  /\ ConsentInit
  /\ \/ part = "provider" /\ ProviderInit /\ IdleMigration /\ IdleSpeakers
     \/ part = "consent" /\ IdleProvider /\ IdleMigration /\ IdleSpeakers
     \/ part = "migration" /\ IdleProvider /\ MigrationInit /\ IdleSpeakers
     \/ part = "speakers" /\ IdleProvider /\ IdleMigration /\ SpeakersInit
MCNext ==
  /\ UNCHANGED part
  /\ \/ part = "provider" /\ ProviderNext /\ UNCHANGED <<consentVars, migrationVars, speakerVars>>
     \/ part = "consent" /\ ConsentNext /\ UNCHANGED <<providerVars, migrationVars, speakerVars>>
     \/ part = "migration" /\ MigrationNext /\ UNCHANGED <<providerVars, consentVars, speakerVars>>
     \/ part = "speakers" /\ SpeakersNext /\ UNCHANGED <<providerVars, consentVars, migrationVars>>
MCSpec == MCInit /\ [][MCNext]_<<part, providerVars, consentVars, migrationVars, speakerVars>>

\* Types of the four parts.
StoresTypeOK == ProviderTypeOK /\ ConsentTypeOK /\ MigrationTypeOK /\ SpeakersTypeOK
=============================================================================
