--------------------------- MODULE LegacyMigration ---------------------------
(***************************************************************************)
(* The data of an older version, which lived in the working directory, is  *)
(* moved into the user's data directory when the settings are made: the    *)
(* database first, then each file of the upload directory.  Between        *)
(* devices a move is a copy and an unlink.  The process may die and be     *)
(* started again at any step, and the user may point the settings          *)
(* elsewhere at any start.                                                 *)
(***************************************************************************)
CONSTANTS Database, Uploads  \* the legacy database and the legacy uploads

ASSUME MigrationAssumption == Database \notin Uploads
LegacyFiles == {Database} \cup Uploads

VARIABLES sameDevice, \* whether a rename can do the move
          old,        \* what is at each legacy path: nothing, or the whole file
          new,        \* what is at each new path: nothing, part of a copy, the file
                      \* moved, or one of the new version's own
          olddir,     \* whether the legacy upload directory exists
          overridden, \* the paths this start's settings override
          step,       \* where the start is
          current,    \* the file it is moving
          todo,       \* legacy_files: the uploads still to do
          first       \* history: what was at the old and the new paths at first

placeVars == <<old, new, olddir>>
migrationVars == <<sameDevice, placeVars, overridden, step, current, todo, first>>

MigrationInit ==
  /\ sameDevice \in BOOLEAN
  /\ old \in [LegacyFiles -> {"none", "whole"}] /\ new \in [LegacyFiles -> {"none", "own"}]
  /\ olddir \in {d \in BOOLEAN : d \/ \A f \in Uploads : old[f] = "none"}
  /\ overridden = {} /\ step = "off" /\ current = Database /\ todo = {}
  /\ first = [old |-> old, new |-> new]

To(s) == step' = s /\ UNCHANGED <<sameDevice, overridden, first>>

Start ==
  /\ step = "off"
  /\ overridden' \in SUBSET {"database", "uploads"}
  /\ step' = "look" /\ current' = Database /\ todo' = {}
  /\ UNCHANGED <<sameDevice, first, placeVars>>

\* What is at the new path stays, a part of an older copy as well.
AnyState(f) == f \in LegacyFiles
Vacant(f) == new[f] = "none"
Movable ==
  /\ Vacant(current) /\ old[current] = "whole"
  /\ current = Database => "database" \notin overridden
Leaving == To(IF current = Database THEN "list" ELSE "files") /\ UNCHANGED <<current, todo>>

Skip ==
  /\ step = "look" /\ ~Movable
  /\ UNCHANGED placeVars /\ Leaving

\* shutil.move: a rename, or a copy and then an unlink; a failure is only logged.
Rename ==
  /\ step = "look" /\ Movable /\ sameDevice
  /\ old' = [old EXCEPT ![current] = "none"] /\ new' = [new EXCEPT ![current] = "moved"]
  /\ UNCHANGED olddir /\ Leaving
StartCopy ==
  /\ step = "look" /\ Movable /\ ~sameDevice
  /\ new' = [new EXCEPT ![current] = "part"]
  /\ UNCHANGED <<old, olddir, current, todo>> /\ To("copy")
EndCopy ==
  /\ step = "copy"
  /\ new' = [new EXCEPT ![current] = "moved"]
  /\ UNCHANGED <<old, olddir, current, todo>> /\ To("unlink")
UnlinkOld ==
  /\ step = "unlink"
  /\ old' = [old EXCEPT ![current] = "none"]
  /\ UNCHANGED <<new, olddir>> /\ Leaving
CopyFails ==
  /\ step \in {"copy", "unlink"} \/ (step = "look" /\ Movable)
  /\ UNCHANGED placeVars /\ Leaving

\* The uploads, one by one, and then the directory if it is empty.
Remaining == {f \in Uploads : old[f] = "whole"}
ListUploads ==
  /\ step = "list"
  /\ IF "uploads" \in overridden \/ ~olddir
     THEN To("up") /\ UNCHANGED <<current, todo, placeVars>>
     ELSE To("files") /\ todo' = Remaining /\ UNCHANGED <<current, placeVars>>
NextUpload ==
  /\ step = "files" /\ todo # {}
  /\ \E f \in todo : current' = f /\ todo' = todo \ {f}
  /\ To("look") /\ UNCHANGED placeVars
Tidy ==
  /\ step = "files" /\ todo = {}
  /\ olddir' \in {Remaining # {}, TRUE}  \* it may hold directories, which stay
  /\ To("up") /\ UNCHANGED <<old, new, current, todo>>

\* The program runs: it makes a database where there is none.  Then it stops, or it
\* dies at any step.
CreateDatabase ==
  /\ step = "up" /\ "database" \notin overridden /\ new[Database] = "none"
  /\ new' = [new EXCEPT ![Database] = "own"]
  /\ UNCHANGED <<old, olddir, current, todo>> /\ To("up")
Stop ==
  /\ step # "off"
  /\ To("off") /\ current' = Database /\ todo' = {}
  /\ UNCHANGED placeVars

MigrationNext ==
  \/ Start \/ Skip \/ Rename \/ StartCopy \/ EndCopy \/ UnlinkOld \/ CopyFails
  \/ ListUploads \/ NextUpload \/ Tidy \/ CreateDatabase \/ Stop
MigrationSpec == MigrationInit /\ [][MigrationNext]_migrationVars
=============================================================================
