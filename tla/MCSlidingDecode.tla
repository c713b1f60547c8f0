--------------------------- MODULE MCSlidingDecode ---------------------------
(***************************************************************************)
(* Small instances of SlidingDecode for TLC.  One unit stands for a few    *)
(* seconds: the model's window is 6 units.                                 *)
(***************************************************************************)
EXTENDS SlidingDecode, FiniteSets

\* Without timestamps: every combination of window, overlap, tail and retry.
PlainSettings ==
    {s \in [chunk : 1..6, overlap : 0..2, minTail : {0, 2, 4, 9},
            retry : {0, 3}, timestamps : {FALSE}] : s.overlap < s.chunk}

\* With timestamps: windows that fill the model's and windows that do not.
TimestampSettings ==
    [chunk : {3, 6}, overlap : {0, 2}, minTail : {0, 4}, retry : {3},
     timestamps : {TRUE}]

SmallSettings == PlainSettings \cup TimestampSettings

\* The defaults of the sliding path in seconds: 30 s windows that overlap by
\* 2 s, an 8 s tail and a 10 s retry, with timestamps, on 220 s of audio.
DefaultTimestamps ==
    {[chunk |-> 30, overlap |-> 2, minTail |-> 8, retry |-> 10,
      timestamps |-> TRUE]}

AllTicks == 0..6
EndOrEarly == {5, 30}

ShortLengths == 0..16
LongLengths == {220}
=============================================================================
