---------------------------- MODULE ProviderFile ----------------------------
(***************************************************************************)
(* inference_config.json: the endpoint, key and model of the inference     *)
(* server.  Async handlers take turns on the event loop and give it up     *)
(* only while an endpoint is probed; sync handlers run beside them in the  *)
(* thread pool.  Each loads the file and writes it back through secure_io  *)
(* in several steps, and the process may die between any two.              *)
(* vision_enabled goes the way of model_name and is left out.              *)
(***************************************************************************)
EXTENDS FiniteSets

CONSTANTS Coroutines, Threads,
          Pairs,        \* the [endpoint, key] that users supply together
          DefaultPair,  \* the one the application ships
          ModelNames, NoName

ASSUME ProviderAssumption ==
  /\ Coroutines \cap Threads = {} /\ DefaultPair \notin Pairs
  /\ \A p \in Pairs \cup {DefaultPair} : p = [endpoint |-> p.endpoint, key |-> p.key]
  /\ NoName \in ModelNames

VARIABLES host,    \* the platform and whether its file system keeps permissions
          disk,    \* what is at the path
          private, \* whether only the user may read it
          legacy,  \* the file of an older version
          at,      \* where each handler is
          request, \* what it was asked
          loaded,  \* what it read
          opened,  \* handlers whose descriptor is the file at the path
          again,   \* handlers in their second try
          want,    \* history: what the operations so far, one by one, would leave
          alone    \* history: nobody overlapped since the handlers last rested

fileVars == <<disk, private, legacy, opened>>
wayVars == <<at, request, loaded, again>>
providerVars == <<host, fileVars, wayVars, want, alone>>

Handlers == Coroutines \cup Threads
Named(p, n) == [endpoint |-> p.endpoint, key |-> p.key, name |-> n]
Configs == {Named(p, n) : p \in Pairs \cup {DefaultPair}, n \in ModelNames}
Defaults == Named(DefaultPair, NoName)

\* A file that is not whole does not parse: it reads as the defaults.
Absent == [state |-> "absent", config |-> Defaults]
Empty == [state |-> "empty", config |-> Defaults]
Garbled == [state |-> "garbled", config |-> Defaults]
Whole(config) == [state |-> "whole", config |-> config]
Files == {Absent, Empty, Garbled} \cup {Whole(c) : c \in Configs}

\* What a load returns, after it moved a legacy file in.
Shown == (IF disk = Absent THEN legacy ELSE disk).config

\* The requests: test an endpoint, save a configuration, choose a model, delete, look.
NoRequest == [kind |-> "none", config |-> Defaults]
Asks(kind, configs) == {[kind |-> kind, config |-> c] : c \in configs}
Async == Asks("test", {Named(p, NoName) : p \in Pairs}) \cup Asks("look", {Defaults})
         \cup Asks("update", {c \in Configs : c # Defaults}) \cup Asks("delete", {Defaults})
Sync == Asks("choose", {Named(DefaultPair, n) : n \in ModelNames}) \cup Asks("look", {Defaults})

\* What a handler saves, from its request and the configuration it loaded.
MergedTwice(r, config) ==
  IF r.kind = "choose" THEN [endpoint |-> config.endpoint, key |-> Shown.key, name |-> r.config.name]
  ELSE IF r.kind = "test" THEN Named(r.config, config.name)
  ELSE r.config
Merged(r, config) ==
  IF r.kind = "choose" THEN Named(config, r.config.name)
  ELSE IF r.kind = "test" THEN Named(r.config, config.name)
  ELSE r.config
After(r, config) ==
  IF r.kind = "look" THEN config ELSE IF r.kind = "delete" THEN Defaults ELSE Merged(r, config)

-----------------------------------------------------------------------------
Working(h) == at[h] \notin {"idle", "probe"}
OthersRest(h) == \A g \in Handlers \ {h} : ~Working(g)
HasTurn(h) == h \in Threads \/ \A c \in Coroutines \ {h} : ~Working(c)

ProviderInit ==
  /\ host \in [windows : BOOLEAN, enforces : BOOLEAN]
  /\ disk \in Files \ {Empty, Garbled} /\ legacy \in Files \ {Empty, Garbled}
  /\ private \in {FALSE, host.enforces /\ disk # Absent}
  /\ at = [h \in Handlers |-> "idle"] /\ request = [h \in Handlers |-> NoRequest]
  /\ loaded = [h \in Handlers |-> Defaults] /\ opened = {} /\ again = {}
  /\ want = Shown /\ alone = TRUE

Goto(h, step) == at' = [at EXCEPT ![h] = step]
Go(h, step) == Goto(h, step) /\ UNCHANGED <<host, request, loaded, again, want, alone>>

\* A stretch of load and save begins: at once, or when the probe has answered.
Enter(h, step) ==
  /\ Goto(h, step)
  /\ alone' = (alone /\ OthersRest(h))
  /\ UNCHANGED <<host, fileVars, loaded, again, want>>

First(r) == IF r.kind = "update" THEN "open" ELSE IF r.kind = "delete" THEN "unlink" ELSE "check"
Begin(h, r) ==
  /\ at[h] = "idle" /\ HasTurn(h)
  /\ r \in (IF h \in Threads THEN Sync ELSE Async)
  /\ request' = [request EXCEPT ![h] = r]
  /\ IF r.kind = "test"
     THEN Goto(h, "probe") /\ UNCHANGED <<host, fileVars, loaded, again, want, alone>>
     ELSE Enter(h, First(r))
Probed(h) ==
  /\ at[h] = "probe" /\ HasTurn(h)
  /\ Enter(h, "check")
  /\ UNCHANGED request

\* The answer leaves: the history notes what the operation should have done, or,
\* when it failed or others interfered, what is there once all rest.
Leave(h, config) ==
  /\ Goto(h, "idle")
  /\ request' = [request EXCEPT ![h] = NoRequest] /\ loaded' = [loaded EXCEPT ![h] = Defaults]
  /\ again' = again \ {h}
  /\ want' = IF OthersRest(h) THEN config ELSE want
  /\ alone' = OthersRest(h)
  /\ UNCHANGED host
Succeed(h) == Leave(h, IF alone THEN After(request[h], want) ELSE Shown')
Fail(h) == Leave(h, Shown')

ProbeFails(h) ==
  /\ at[h] = "probe"
  /\ Goto(h, "idle") /\ request' = [request EXCEPT ![h] = NoRequest]
  /\ UNCHANGED <<host, fileVars, loaded, again, want, alone>>

-----------------------------------------------------------------------------
(* _load_inference_config: the legacy file moves in, then the file is read.   *)

Check(h) ==
  /\ at[h] = "check"
  /\ Go(h, IF disk = Absent /\ legacy # Absent THEN "move" ELSE "read")
  /\ UNCHANGED fileVars
Move(h) ==
  /\ at[h] = "move" /\ legacy # Absent
  /\ disk' = legacy /\ private' = FALSE /\ legacy' = Absent /\ opened' = {}
  /\ Go(h, "read")
MoveFails(h) ==
  /\ at[h] = "move" /\ legacy = Absent
  /\ UNCHANGED fileVars /\ Fail(h)

\* ensure_restricted repairs an unprotected file and goes on if it cannot.
NotRepaired == private
RepairedAlways == private \/ host.enforces
Repaired == disk # Absent /\ (private \/ host.enforces)
Look(h) ==
  /\ at[h] = "read" /\ request[h].kind = "look"
  /\ private' = Repaired /\ UNCHANGED <<disk, legacy, opened>>
  /\ Succeed(h)
Load(h) ==
  /\ at[h] = "read" /\ request[h].kind # "look"
  /\ private' = Repaired /\ loaded' = [loaded EXCEPT ![h] = disk.config]
  /\ Goto(h, "open")
  /\ UNCHANGED <<host, disk, legacy, opened, request, again, want, alone>>

-----------------------------------------------------------------------------
(* write_private_json_verified, one system call a step.                       *)

Truncate(h) ==
  /\ at[h] = "open"
  /\ disk' = Empty /\ UNCHANGED legacy
  /\ private' = IF disk = Absent THEN host.enforces /\ ~host.windows ELSE private
  /\ opened' = IF host.windows THEN opened ELSE opened \cup {h}
  /\ Go(h, IF host.windows THEN "acl" ELSE "write")

RestrictWindows(h) ==
  /\ at[h] = "acl" /\ host.enforces /\ disk # Absent
  /\ private' = TRUE /\ UNCHANGED <<disk, legacy, opened>>
  /\ Go(h, "write")
\* The ACL cannot be set or verified: the file goes, and the request fails.
RestrictFails(h) ==
  /\ at[h] = "acl"
  /\ disk' = Absent /\ private' = FALSE /\ UNCHANGED <<legacy, opened>>
  /\ Fail(h)

\* What a write leaves in a file that another handler may have written since.
Overwritten(config) == IF disk = Empty THEN {Whole(config)} ELSE {Whole(config), Garbled}
WritePosix(h) ==
  /\ at[h] = "write" /\ ~host.windows
  /\ IF h \in opened THEN disk' \in Overwritten(Merged(request[h], loaded[h]))
     ELSE UNCHANGED disk
  /\ opened' = opened \ {h} /\ UNCHANGED <<private, legacy>>
  /\ Go(h, "chmod")
WriteWindows(h) ==
  /\ at[h] = "write" /\ host.windows
  /\ disk' = Whole(Merged(request[h], loaded[h]))
  /\ private' = (disk # Absent /\ private) /\ UNCHANGED <<legacy, opened>>
  /\ Go(h, "verify")
\* The disk is full: nothing or some of it was written.
Spoiled(h) ==
  IF host.windows THEN {Empty, Garbled} ELSE IF h \in opened THEN {disk, Garbled} ELSE {disk}
WriteFails(h) ==
  /\ at[h] = "write"
  /\ disk' \in Spoiled(h) /\ private' = (disk # Absent /\ private)
  /\ opened' = opened \ {h} /\ UNCHANGED legacy
  /\ Fail(h)

Chmod(h) ==
  /\ at[h] = "chmod" /\ disk # Absent
  /\ private' = host.enforces /\ UNCHANGED <<disk, legacy, opened>>
  /\ Go(h, "verify")
ChmodFails(h) ==
  /\ at[h] = "chmod" /\ disk = Absent
  /\ UNCHANGED fileVars /\ Fail(h)

Restricted == disk # Absent /\ private
Saved(h) ==
  /\ at[h] = "verify" /\ Restricted
  /\ UNCHANGED fileVars /\ Succeed(h)
Retry(h) ==
  /\ at[h] = "verify" /\ ~Restricted /\ h \notin again
  /\ Goto(h, "open") /\ again' = again \cup {h}
  /\ UNCHANGED <<host, fileVars, request, loaded, want, alone>>
GiveUp(h) ==
  /\ at[h] = "verify" /\ ~Restricted /\ h \in again
  /\ UNCHANGED fileVars /\ Fail(h)

-----------------------------------------------------------------------------
(* delete_inference_config removes the file, then the older one.              *)

Unlink(h) ==
  /\ at[h] = "unlink"
  /\ disk' = Absent /\ private' = FALSE /\ opened' = {} /\ UNCHANGED legacy
  /\ Go(h, "unlink_legacy")
LegacyKept == legacy
LegacyGone == Absent
UnlinkLegacy(h) ==
  /\ at[h] = "unlink_legacy"
  /\ legacy' = LegacyGone /\ UNCHANGED <<disk, private, opened>>
  /\ Succeed(h)

\* The process dies and is started again.
Crash ==
  /\ at' = [h \in Handlers |-> "idle"] /\ request' = [h \in Handlers |-> NoRequest]
  /\ loaded' = [h \in Handlers |-> Defaults] /\ opened' = {} /\ again' = {}
  /\ want' = Shown /\ alone' = TRUE
  /\ UNCHANGED <<host, disk, private, legacy>>

-----------------------------------------------------------------------------
LoadStep(h) == Check(h) \/ Move(h) \/ MoveFails(h) \/ Look(h) \/ Load(h)
SaveStep(h) ==
  \/ Truncate(h) \/ RestrictWindows(h) \/ RestrictFails(h)
  \/ WritePosix(h) \/ WriteWindows(h) \/ WriteFails(h) \/ Chmod(h) \/ ChmodFails(h)
  \/ Saved(h) \/ Retry(h) \/ GiveUp(h)
DeleteStep(h) == Unlink(h) \/ UnlinkLegacy(h)
Handler(h) ==
  \/ \E r \in Async \cup Sync : Begin(h, r)
  \/ Probed(h) \/ ProbeFails(h)
  \/ LoadStep(h) \/ SaveStep(h) \/ DeleteStep(h)
ProviderNext == Crash \/ \E h \in Handlers : Handler(h)
ProviderSpec == ProviderInit /\ [][ProviderNext]_providerVars
=============================================================================
