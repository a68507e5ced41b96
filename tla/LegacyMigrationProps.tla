------------------------ MODULE LegacyMigrationProps ------------------------
(* Properties of LegacyMigration.                                             *)
EXTENDS LegacyMigration

\* Types.
MigrationTypeOK ==
  /\ sameDevice \in BOOLEAN /\ olddir \in BOOLEAN
  /\ old \in [LegacyFiles -> {"none", "whole"}]
  /\ new \in [LegacyFiles -> {"none", "part", "moved", "own"}]
  /\ overridden \in SUBSET {"database", "uploads"}
  /\ step \in {"off", "look", "copy", "unlink", "list", "files", "up"}
  /\ current \in LegacyFiles /\ todo \in SUBSET Uploads
  /\ first \in [old : [LegacyFiles -> {"none", "whole"}], new : [LegacyFiles -> {"none", "own"}]]

\* However starts are cut short, fail or are pointed elsewhere, every file of the
\* older version is whole where it was or where it went, a file of the new version
\* is never replaced by one of the older (migration.py:53, 245), and the legacy
\* directory does not go while it holds a file.
NothingIsLost ==
  /\ \A f \in LegacyFiles :
       /\ first.old[f] = "whole" => old[f] = "whole" \/ new[f] = "moved"
       /\ first.new[f] = "own" => new[f] = "own"
  /\ Remaining # {} => olddir
=============================================================================
