--------------------------- MODULE MCStreamDecode ---------------------------
(* Small instances of StreamDecode for TLC. *)
EXTENDS StreamDecode

SmallSettings ==
    {s \in [chunk : 1..4, overlap : 0..3, minTail : {0, 1, 2, 6}] :
        s.overlap < s.chunk}

ShortLengths == 0..9

\* Words that are all different with any silence between them, and two words
\* that recur in any order.  0 is Quiet.
AnySpeech ==
    [m \in ShortLengths |->
        {[u \in 1..m |-> IF u \in quiet THEN 0 ELSE u] : quiet \in SUBSET (1..m)}
        \cup IF m <= 7 THEN [1..m -> 0..2] ELSE {}]

\* The defaults for someone who says 150 words a minute, in words: 30 s
\* windows that overlap by 2 s, and an 8 s tail.
DefaultSettings == {[chunk |-> 75, overlap |-> 5, minTail |-> 20]}

\* One minute.
OneMinute == {150}

NoSilence == [m \in OneMinute |-> {[u \in 1..m |-> u]}]
=============================================================================
