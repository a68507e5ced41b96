-------------------------- MODULE ProviderFileProps --------------------------
(* Properties of ProviderFile: what the run of the stores checks. *)
EXTENDS ProviderFile

Steps == {"idle", "probe", "check", "move", "read", "open", "acl", "write", "chmod", "verify",
          "unlink", "unlink_legacy"}

\* Types; a descriptor is open only between the truncation and the write, and a
\* save has at most one second try (secure_io, write_private_json_verified).
FileTypes ==
  /\ host \in [windows : BOOLEAN, enforces : BOOLEAN]
  /\ disk \in Files /\ legacy \in Files \ {Empty, Garbled} /\ private \in BOOLEAN
  /\ private => disk # Absent /\ host.enforces
  /\ host.windows => opened = {}
HandlerTypes ==
  /\ at \in [Handlers -> Steps] /\ request \in [Handlers -> Async \cup Sync \cup {NoRequest}]
  /\ loaded \in [Handlers -> Configs] /\ again \subseteq Handlers
  /\ opened \subseteq {h \in Handlers : at[h] = "write"}
ProviderTypeOK == FileTypes /\ HandlerTypes /\ want \in Configs /\ alone \in BOOLEAN

\* The key in the file is the key of the endpoint in the file: whatever handlers
\* overlap, fail or die, no request takes the key of one server to another
\* (byom.py:156 merges what it loaded with what it was asked).
KeyStaysWithEndpoint ==
  \A file \in {disk, legacy} :
    [endpoint |-> file.config.endpoint, key |-> file.config.key] \in Pairs \cup {DefaultPair}

\* Operations that do not overlap do what they say, however they probe, retry, fail
\* or are interrupted before and after: a test keeps the model that is chosen while
\* it waits for the server (byom.py:115), a choice keeps the endpoint, and what was
\* deleted does not come back from the older file (config.py:139).
ChoicesKept == (\A h \in Handlers : ~Working(h)) => Shown = want

\* Nobody else can read what a handler leaves behind when it ran alone, be it a whole
\* file or a part of one, whether it succeeded or failed, found an older unprotected
\* file or made a new one (secure_io, lines 8-21); unless the file system keeps no
\* permissions, or the write of a saved configuration fails on posix: that handler
\* does not load, hence not repair, the file first.
Leaves(h) == Working(h) /\ at'[h] = "idle"
MayStayOpen(h) == ~host.windows /\ request[h].kind = "update" /\ at[h] = "write"
SecretsArePrivate ==
  [][\A h \in Handlers :
       host.enforces /\ alone /\ Leaves(h) /\ ~Crash
         => private' \/ disk'.state \in {"absent", "empty"} \/ MayStayOpen(h)]_providerVars

\* The secret never touches an unprotected file (secure_io, lines 43-44).  False on
\* posix where an older file is open (README, Findings).
Writes(h) == at[h] = "write" /\ at'[h] # "write" /\ disk' # disk
SecretsTouchPrivateFiles ==
  [][\A h \in Handlers : host.enforces /\ Writes(h) => private]_providerVars
=============================================================================
