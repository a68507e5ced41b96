------------------------ MODULE MCTranscriptionJobs ------------------------
(* TranscriptionJobs on small instances. *)
EXTENDS TranscriptionJobsProps, TLC
CONSTANTS j1, j2, j3, t1, t2, d1, d2
JobSymmetry == Permutations(Jobs)
TaskSymmetry == Permutations(Tasks)
DropSymmetry == Permutations(Drops)
Symmetry == JobSymmetry \cup TaskSymmetry \cup DropSymmetry
=============================================================================
