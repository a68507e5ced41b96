---------------------------- MODULE JobContract ----------------------------
(***************************************************************************)
(* What a client may rely on of one transcription job, whatever tasks,     *)
(* deletions and restarts do: it goes from queued to one final outcome, it *)
(* gets its transcript in the step that completes it or never (a recording *)
(* in which nothing was heard), and once deleted it never comes back.      *)
(***************************************************************************)
CONSTANT Jobs
VARIABLES status,      \* job -> "none" and then what the API reports, or "gone"
          transcripts  \* jobs that have a transcript
contractVars == <<status, transcripts>>

Init == status = [j \in Jobs |-> "none"] /\ transcripts = {}

Move(j, from, to) == /\ status[j] \in from
                     /\ status' = [status EXCEPT ![j] = to]
Submit(j) == Move(j, {"none"}, "queued") /\ UNCHANGED transcripts
Begin(j) == Move(j, {"queued"}, "processing") /\ UNCHANGED transcripts
\* A hand transcription is complete without having been processed.
Complete(j) == /\ Move(j, {"queued", "processing"}, "completed")
               /\ transcripts' \in {transcripts, transcripts \cup {j}}
Fail(j) == Move(j, {"processing"}, "failed") /\ UNCHANGED transcripts
Discard(j) == /\ Move(j, {"queued", "processing", "completed", "failed"}, "gone")
              /\ transcripts' = transcripts \ {j}

Next == \E j \in Jobs : \/ Submit(j) \/ Begin(j) \/ Complete(j)
                        \/ Fail(j) \/ Discard(j)
Spec == Init /\ [][Next]_contractVars
=============================================================================
