--------------------------- MODULE MCSegmentEditor ---------------------------
(* SegmentEditor on transcripts of three segments, and on an empty seed. *)
EXTENDS SegmentEditorProps
CONSTANTS a, b, c, d, blank
TwoWords == <<a, blank, b>>
Timed == <<[start |-> 0, end |-> 4, text |-> TwoWords],
           [start |-> 5, end |-> 7, text |-> <<c>>],
           [start |-> 7, end |-> 9, text |-> <<c, d>>]>>
\* Two segments without times, and one without an end.
Untimed == <<[start |-> 0, end |-> 0, text |-> <<c>>],
             [start |-> 0, end |-> 4, text |-> TwoWords],
             [start |-> 5, end |-> 0, text |-> <<c, d>>]>>
AsrTranscripts == {Timed, Untimed}
TypedTexts == {<<>>, <<blank, d, a>>, <<d, blank, c, a>>}
=============================================================================
