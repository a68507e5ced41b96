-------------------------- MODULE ConsentFileProps --------------------------
(* Properties of ConsentFile.                                                 *)
EXTENDS ConsentFile

\* Types.
ConsentTypeOK ==
  /\ consents \in ConsentFiles
  /\ saving \in [busy : BOOLEAN, keys : SUBSET ConsentKeys] /\ (saving.busy \/ Resting)
  /\ agreed \subseteq ConsentKeys /\ torn \in BOOLEAN

\* Whatever is cut short, no model counts as agreed to that the user did not agree
\* to or has withdrawn (a download starts only with consent, manager.py:124); and
\* until a write is cut short every agreement is kept, those of the other models too.
ConsentFailsClosed ==
  /\ \A k \in ConsentKeys : IsConsented(k) => k \in agreed
  /\ Resting /\ ~torn => consents.keys = agreed
=============================================================================
