-------------------------- MODULE DownloadContract --------------------------
(***************************************************************************)
(* What the download manager promises of one key, whatever the threads do: *)
(* a download runs or it does not, a new one starts only when the previous *)
(* one has ended and no writer it knows of is left, and it never has more  *)
(* than one writer it knows of.  A writer may outlive its download.  One   *)
(* whose polling broke down is lost: it writes on and bars nothing.        *)
(***************************************************************************)
CONSTANT Keys
VARIABLES phase,   \* key -> "never" | "running" | "ended"
          writing, \* keys with a snapshot_download thread the manager knows of
          stray    \* keys with one that it has lost
contractVars == <<phase, writing, stray>>

Init == phase = [k \in Keys |-> "never"] /\ writing = {} /\ stray = {}

Start(k) == /\ phase[k] # "running" /\ k \notin writing
            /\ phase' = [phase EXCEPT ![k] = "running"]
            /\ UNCHANGED <<writing, stray>>
Write(k) == /\ phase[k] = "running" /\ k \notin writing
            /\ writing' = writing \cup {k}
            /\ UNCHANGED <<phase, stray>>
Rest(k) == /\ k \in writing
           /\ writing' = writing \ {k}
           /\ UNCHANGED <<phase, stray>>
Lose(k) == /\ phase[k] = "running" /\ k \in writing
           /\ writing' = writing \ {k} /\ stray' = stray \cup {k}
           /\ UNCHANGED phase
StrayRest(k) == /\ k \in stray
                /\ stray' = stray \ {k}
                /\ UNCHANGED <<phase, writing>>
End(k) == /\ phase[k] = "running"
          /\ phase' = [phase EXCEPT ![k] = "ended"]
          /\ UNCHANGED <<writing, stray>>

Next == \E k \in Keys : \/ Start(k) \/ Write(k) \/ Rest(k)
                       \/ Lose(k) \/ StrayRest(k) \/ End(k)
Spec == Init /\ [][Next]_contractVars
=============================================================================
