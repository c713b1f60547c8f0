---------------------------- MODULE MCVoiceSpans ----------------------------
(* Small instances of VoiceSpans for TLC: a frame is 2 samples long. *)
EXTENDS VoiceSpans

\* Limits shorter than, as long as and longer than the search range; limits
\* that are and are not a whole number of frames; and the limit 0, at which
\* only SpansPartition and PlanningEnds ask for nothing.
Limits == [max : {0, 1, 3, 6, 9}, back : {-5, 0, 3, 20}, gap : {1, 2}]

AllLengths == 0..14
=============================================================================
