----------------------------- MODULE ConsentFile -----------------------------
(***************************************************************************)
(* model_consent.json: the models whose download the user agreed to.  The  *)
(* handlers take turns on the event loop, so a read, change and write is   *)
(* not interrupted by another one; but the file is emptied before it is    *)
(* written, and a crash, a full disk or (Windows) a refused ACL leaves it  *)
(* as it is in between.                                                    *)
(***************************************************************************)
CONSTANT ConsentKeys

VARIABLES consents,  \* the file
          saving,    \* the write in hand: the set of keys it is to leave
          agreed,    \* history: the keys the user agreed to and did not withdraw
          torn       \* history: a write was cut short since the file was whole

consentVars == <<consents, saving, agreed, torn>>

\* A file that is absent, empty or cut off reads as no consents at all.
NoFile == [state |-> "absent", keys |-> {}]
Torn == [state |-> "torn", keys |-> {}]
ConsentFiles == {NoFile, Torn} \cup {[state |-> "whole", keys |-> K] : K \in SUBSET ConsentKeys}
IsConsented(k) == k \in consents.keys

Idle == [busy |-> FALSE, keys |-> {}]
Resting == saving = Idle

ConsentInit ==
  /\ consents = NoFile /\ saving = Idle
  /\ agreed = {} /\ torn = FALSE

\* record_consent and revoke_consent: load, change, and open the file for writing,
\* which empties it.
WithdrawNothing(keys, k) == keys
Withdraw(keys, k) == keys \ {k}
OpenFor(keys) ==
  /\ saving' = [busy |-> TRUE, keys |-> keys]
  /\ consents' = Torn
  /\ UNCHANGED torn
RecordConsent(k) ==
  /\ Resting
  /\ OpenFor(consents.keys \cup {k})
  /\ agreed' = agreed \cup {k}
RevokeConsent(k) ==
  /\ Resting
  /\ OpenFor(Withdraw(consents.keys, k))
  /\ agreed' = agreed \ {k}

Written ==
  /\ ~Resting
  /\ consents' = [state |-> "whole", keys |-> saving.keys] /\ saving' = Idle
  /\ UNCHANGED <<agreed, torn>>
\* The write fails or the process dies; an ACL that is refused removes the file.
CutShort ==
  /\ ~Resting
  /\ consents' \in {Torn, NoFile} /\ saving' = Idle
  /\ torn' = TRUE
  /\ UNCHANGED agreed

ConsentNext == Written \/ CutShort \/ \E k \in ConsentKeys : RecordConsent(k) \/ RevokeConsent(k)
ConsentSpec == ConsentInit /\ [][ConsentNext]_consentVars
=============================================================================
