----------------------------- MODULE VoiceSpans -----------------------------
(***************************************************************************)
(* The planning of voice aware chunks (app/speech_cut.py): the audio is    *)
(* cut into spans no longer than WHISPER_MAX_CHUNK_SECONDS, each cut in    *)
(* the middle of the longest pause that ends in the last seconds of the    *)
(* span, or at the limit when there is no pause.                           *)
(*                                                                         *)
(* Silero VAD gives one probability for each frame of Frame samples; all   *)
(* the planning asks of it is on which side of the threshold it is.  The   *)
(* scan of find_cut_sample is modelled frame by frame.                     *)
(***************************************************************************)
EXTENDS Integers

CONSTANTS Settings,   \* [max, back, gap]: samples, samples and frames
          Lengths,    \* lengths of audio, in samples
          Frame       \* WINDOW_SAMPLES: 512

\* The limit and the search range come from the environment as they are; the
\* shortest pause is at least one frame.
ASSUME SettingsAssumption ==
    /\ Frame \in Nat \ {0}
    /\ Lengths \subseteq Nat
    /\ \A s \in Settings :
           s.max \in Int /\ s.back \in Int /\ s.gap \in Nat \ {0}

VARIABLES
    set,          \* the settings
    n,            \* the length of the audio
    speech,       \* the frames with a probability at or over the threshold
    at,           \* "plan", "scan" or "done"
    start,        \* where the next span starts
    fi,           \* the frame the scan is at
    gap_start,    \* the first frame of the pause the scan is in, -1 if none
    best,         \* [len, mid] of the longest pause so far, len 0 if none
    span          \* the last span appended: [start, end, reason]

scanVars == <<fi, gap_start, best>>
vars == <<set, n, speech, at, start, scanVars, span>>

\* speech_probs pads the last frame with silence.
Frames(len) == (len + Frame - 1) \div Frame

Maximum(a, b) == IF a >= b THEN a ELSE b

Minimum(a, b) == IF a <= b THEN a ELSE b

TypeOK ==
    /\ set \in Settings
    /\ n \in Lengths
    /\ speech \subseteq 0..(Frames(n) - 1)
    /\ at \in {"plan", "scan", "done"}
    /\ start \in Int
    /\ fi \in Int
    /\ gap_start \in Int
    /\ best \in [len : Nat, mid : Nat]
    /\ span \in [start : Int, end : Int,
                 reason : {"none", "tail", "vad_gap", "fallback_hard_limit",
                           "forced_progress"}]

NoPause == [len |-> 0, mid |-> 0]

Init ==
    /\ set \in Settings
    /\ n \in Lengths
    /\ speech \in SUBSET (0..(Frames(n) - 1))
    /\ at = "plan"
    /\ start = 0
    /\ fi = 0
    /\ gap_start = -1
    /\ best = NoPause
    /\ span = [start |-> 0, end |-> 0, reason |-> "none"]

-----------------------------------------------------------------------------
\* The search range of find_cut_sample.
HardEnd == Minimum(start + set.max, Frames(n) * Frame)

FirstFrame == Maximum(start, HardEnd - set.back) \div Frame

EndFrame ==
    Minimum(Maximum(FirstFrame + 1, (HardEnd + Frame - 1) \div Frame), Frames(n))

\* Variant: the next span overlaps the last seconds of this one.
EmitOverlapping(end, reason) ==
    /\ span' = [start |-> start, end |-> end, reason |-> reason]
    /\ start' = Maximum(start, end - set.back)

\* A span is appended and the next one starts at its end.
Emit(end, reason) ==
    /\ span' = [start |-> start, end |-> end, reason |-> reason]
    /\ start' = end

\* iter_voice_aware_spans takes the cut found, or forces one at the limit.
TakeCut(cut, reason) ==
    IF cut <= start
    THEN Emit(Minimum(n, start + set.max), "forced_progress")
    ELSE Emit(cut, reason)

PlanEnds ==
    /\ at = "plan"
    /\ start >= n
    /\ at' = "done"
    /\ UNCHANGED <<set, n, speech, start, scanVars, span>>

\* Variant: the limit measured in whole frames.
TailByFrames ==
    /\ at = "plan"
    /\ start < n
    /\ (n - start) \div Frame <= set.max \div Frame
    /\ span' = [start |-> start, end |-> n, reason |-> "tail"]
    /\ at' = "done"
    /\ UNCHANGED <<set, n, speech, start, scanVars>>

Tail ==
    /\ at = "plan"
    /\ start < n
    /\ n - start <= set.max
    /\ span' = [start |-> start, end |-> n, reason |-> "tail"]
    /\ at' = "done"
    /\ UNCHANGED <<set, n, speech, start, scanVars>>

\* find_cut_sample has nothing to search and returns start itself.
ForceCut ==
    /\ at = "plan"
    /\ start < n
    /\ n - start > set.max
    /\ HardEnd <= start
    /\ TakeCut(start, "empty")
    /\ UNCHANGED <<set, n, speech, at, scanVars>>

BeginScan ==
    /\ at = "plan"
    /\ start < n
    /\ n - start > set.max
    /\ HardEnd > start
    /\ at' = "scan"
    /\ fi' = FirstFrame
    /\ gap_start' = -1
    /\ best' = NoPause
    /\ UNCHANGED <<set, n, speech, start, span>>

\* Variant: the last of equally long pauses wins.
CompareLast(end) ==
    LET len == end - gap_start
    IN  IF gap_start # -1 /\ len >= set.gap /\ len >= best.len
        THEN [len |-> len, mid |-> gap_start + len \div 2]
        ELSE best

\* Variant: the cut is put at the end of the pause.
CompareAtEnd(end) ==
    LET len == end - gap_start
    IN  IF gap_start # -1 /\ len >= set.gap /\ len > best.len
        THEN [len |-> len, mid |-> gap_start + len]
        ELSE best

\* Variant: speech without a pause before it is compared too.
CompareWithoutPause(end) ==
    LET len == end - gap_start
    IN  IF len >= set.gap /\ len > best.len
        THEN [len |-> len, mid |-> gap_start + len \div 2]
        ELSE best

\* A pause from gap_start up to frame `end` competes with the best so far.
Compare(end) ==
    LET len == end - gap_start
    IN  IF gap_start # -1 /\ len >= set.gap /\ len > best.len
        THEN [len |-> len, mid |-> gap_start + len \div 2]
        ELSE best

ScanFrame ==
    /\ at = "scan"
    /\ fi < EndFrame
    /\ IF fi \in speech
       THEN best' = Compare(fi) /\ gap_start' = -1
       ELSE /\ gap_start' = IF gap_start = -1 THEN fi ELSE gap_start
            /\ UNCHANGED best
    /\ fi' = fi + 1
    /\ UNCHANGED <<set, n, speech, at, start, span>>

\* The scan is over; a pause that reaches its end counts too.
Cut ==
    /\ at = "scan"
    /\ fi >= EndFrame
    /\ best' = Compare(EndFrame)
    /\ IF best'.len > 0
       THEN TakeCut(Minimum(HardEnd, Maximum(start + 1, best'.mid * Frame)), "vad_gap")
       ELSE TakeCut(HardEnd, "fallback_hard_limit")
    /\ at' = "plan"
    /\ UNCHANGED <<set, n, speech, fi, gap_start>>

Next == PlanEnds \/ Tail \/ ForceCut \/ BeginScan \/ ScanFrame \/ Cut

Spec == Init /\ [][Next]_vars

\* The planning is one synchronous call.
FairSpec == Spec /\ WF_vars(Next)

-----------------------------------------------------------------------------
\* A limit that lets the planning work at all.
PositiveLimit == set.max >= 1

\* The spans cover the audio from end to end without gap or overlap, none is
\* empty, and none is longer than the limit.
SpansPartition ==
    [][PositiveLimit /\ span' # span =>
           /\ span'.start = span.end
           /\ span'.start < span'.end
           /\ span'.end <= n
           /\ span'.end - span'.start <= set.max
           /\ at' = "done" => span'.end = n]_vars

\* A pause is a maximal run of frames without speech in the search range.
Pauses ==
    {p \in (FirstFrame..EndFrame) \X (FirstFrame..EndFrame) :
        /\ p[1] < p[2]
        /\ \A f \in p[1]..(p[2] - 1) : f \notin speech
        /\ p[1] = FirstFrame \/ p[1] - 1 \in speech
        /\ p[2] = EndFrame \/ p[2] \in speech}

LongPauses == {p \in Pauses : p[2] - p[1] >= set.gap}

\* The scan finds the longest pause of the search range, the first of those
\* of equal length, and a hard cut is made only if there is none (162-206).
LongestPauseChosen ==
    [][at = "scan" /\ at' = "plan" =>
           IF LongPauses = {}
           THEN span'.reason = "fallback_hard_limit"
           ELSE \E p \in LongPauses :
                    /\ span'.reason = "vad_gap"
                    /\ best' = [len |-> p[2] - p[1],
                                mid |-> p[1] + (p[2] - p[1]) \div 2]
                    /\ \A q \in LongPauses :
                           \/ q[2] - q[1] < p[2] - p[1]
                           \/ q[2] - q[1] = p[2] - p[1] /\ q[1] >= p[1]]_vars

\* A cut at a pause falls on a frame without speech, in spite of the clamping
\* to the span and of search ranges that begin or end within a frame; a cut
\* clamped to one sample ends a span that has nothing but silence (203).  A
\* negative search range would search behind the limit.
CutsInSilence ==
    set.back >= 0 /\ span.reason = "vad_gap" =>
        \/ (span.end \div Frame) \notin speech
        \/ span.end = span.start + 1 /\ (span.start \div Frame) \notin speech

\* Planning comes to an end.
PlanningEnds == PositiveLimit => <>(at = "done")
=============================================================================
