--------------------------- MODULE SlidingDecode ---------------------------
(***************************************************************************)
(* The sequential loop of decode_utterance (app/decode.py): windows slide  *)
(* over the samples, each one is decoded, and where the next one starts    *)
(* depends on what the decoder said of this one: that it was cut off       *)
(* before its end-of-text token, or where its last timestamp ends.  The    *)
(* loop runs when WHISPER_PARALLEL_ENCODE is off, and for audio that fits  *)
(* one chunk of WHISPER_MAX_CHUNK_SECONDS but not one window of            *)
(* WHISPER_CHUNK_SECONDS.                                                  *)
(*                                                                         *)
(* Everything is counted in samples.  A run of the loop is one behaviour:  *)
(* the settings (environment variables and the request's timestamps flag)  *)
(* and the length of the audio are fixed in Init.                          *)
(***************************************************************************)
EXTENDS Integers

CONSTANTS Settings,     \* combinations of settings a server may run with
          Lengths,      \* lengths of audio
          Window,       \* the model's window: 30 s
          Ticks,        \* timestamps the decoder may predict, from the start
                        \* of the window it decodes
          HalfSecond    \* int(0.5 * sample_rate)

\* What _utterance_window_params, _min_tail_samples and
\* _truncate_retry_samples guarantee of what they return.
ASSUME SettingsAssumption ==
    /\ Window \in Nat \ {0}
    /\ Ticks \subseteq 0..Window
    /\ HalfSecond \in Nat
    /\ Lengths \subseteq Nat
    /\ \A s \in Settings :
           /\ s.chunk \in 1..Window
           /\ s.overlap \in 0..(s.chunk - 1)
           /\ s.minTail \in Nat
           /\ s.retry \in Nat
           /\ s.timestamps \in BOOLEAN

VARIABLES
    set,        \* the settings
    n,          \* the length of the audio
    at,         \* "window", "decode" or "done"
    start,      \* where the next window, or the one being decoded, starts
    end,        \* where the window being decoded ends
    chunk_i,    \* windows decoded so far
    kept,       \* start of the latest segment kept so far, -1 if none
    reached,    \* history: the audio before this has gone to the encoder
    skipped     \* history: a window began after audio nobody had heard

vars == <<set, n, at, start, end, chunk_i, kept, reached, skipped>>

Maximum(a, b) == IF a >= b THEN a ELSE b

Minimum(a, b) == IF a <= b THEN a ELSE b

TypeOK ==
    /\ set \in Settings
    /\ n \in Lengths
    /\ at \in {"window", "decode", "done"}
    /\ start \in 0..n
    /\ end \in 0..n
    /\ chunk_i \in Nat
    /\ kept \in Nat \cup {-1}
    /\ reached \in 0..n
    /\ skipped \in BOOLEAN

Init ==
    /\ set \in Settings
    /\ n \in Lengths
    /\ at = "window"
    /\ start = 0
    /\ end = 0
    /\ chunk_i = 0
    /\ kept = -1
    /\ reached = 0
    /\ skipped = FALSE

-----------------------------------------------------------------------------
Hop == set.chunk - set.overlap

\* Variant: no slack for windows pulled back by a truncation.
MaxChunksWithoutSlack == Maximum(1, n \div Hop)

MaxChunks == Maximum(1, (n \div Maximum(Hop \div 2, 1)) + 8)

\* Variant: the short tail is left to the loop's own test.
MaybeMergeNothing(nxt) == IF nxt >= n THEN n ELSE nxt

\* A tail shorter than min_tail is heard with the last full window instead.
MaybeMergeShortTail(nxt) ==
    IF nxt >= n THEN n
    ELSE IF n - nxt < set.minTail THEN Maximum(0, n - set.chunk)
    ELSE nxt

\* What decode_samples returns, as far as the loop looks at it.
\*   truncated  the token loop hit its limit before end-of-text
\*   seek       round(max segment end * sample_rate), 0 without segments
\*   segment    the start of a segment, -1 without segments: any one of them,
\*              so that what holds of it holds of all
\* Timestamp tokens span the model's window whatever the chunk's length.
Results ==
    [truncated : BOOLEAN, seek : {0}, segment : {-1}] \cup
    IF set.timestamps
    THEN [truncated : BOOLEAN, seek : {start + t : t \in Ticks},
          segment : {start + t : t \in Ticks}]
    ELSE {}

\* Variant: a truncated window pulls back without the least advance.
NextWithoutAdvance(r) ==
    IF end >= n THEN n
    ELSE MaybeMergeShortTail(
        IF r.seek > 0
        THEN Maximum(start + Maximum(Hop \div 4, 1),
                     r.seek - Maximum(set.overlap, HalfSecond))
        ELSE IF r.truncated
        THEN end - Maximum(set.overlap, set.retry)
        ELSE start + Hop)

\* Variant: the lookback is added.
NextLookingAhead(r) ==
    IF end >= n THEN n
    ELSE MaybeMergeShortTail(
        IF r.seek > 0
        THEN Maximum(start + Maximum(Hop \div 4, 1),
                     r.seek + Maximum(set.overlap, HalfSecond))
        ELSE IF r.truncated
        THEN Maximum(start + Maximum(Hop \div 2, 1),
                     end - Maximum(set.overlap, set.retry))
        ELSE start + Hop)

NextChunkStart(r) ==
    IF end >= n THEN n
    ELSE MaybeMergeShortTail(
        IF r.seek > 0
        THEN Maximum(start + Maximum(Hop \div 4, 1),
                     r.seek - Maximum(set.overlap, HalfSecond))
        ELSE IF r.truncated
        THEN Maximum(start + Maximum(Hop \div 2, 1),
                     end - Maximum(set.overlap, set.retry))
        ELSE start + Hop)

\* Variant: the last window's end is not clipped.
PickWindowUnclipped ==
    /\ at = "window"
    /\ start < n
    /\ chunk_i < MaxChunks
    /\ end' = start + set.chunk
    /\ at' = "decode"
    /\ UNCHANGED <<set, n, start, chunk_i, kept, reached, skipped>>

\* The loop's test and the choice of the window.
PickWindow ==
    /\ at = "window"
    /\ start < n
    /\ chunk_i < MaxChunks
    /\ IF n - start <= set.chunk
       THEN /\ start' = IF chunk_i > 0 /\ n - start < set.minTail
                        THEN Maximum(0, n - set.chunk)
                        ELSE start
            /\ end' = n
       ELSE /\ end' = start + set.chunk
            /\ UNCHANGED start
    /\ at' = "decode"
    /\ UNCHANGED <<set, n, chunk_i, kept, reached, skipped>>

LoopEnds ==
    /\ at = "window"
    /\ start >= n \/ chunk_i >= MaxChunks
    /\ at' = "done"
    /\ UNCHANGED <<set, n, start, end, chunk_i, kept, reached, skipped>>

\* The window is decoded, the segments that start before the next window are
\* kept, and the loop moves on.  The two guards before the assignment of
\* start never fire: see NextIsAhead.
DecodeWindow ==
    /\ at = "decode"
    /\ \E r \in Results :
           LET next == NextChunkStart(r)
           IN  /\ kept' = IF r.segment # -1 /\ (next < n => r.segment < next)
                          THEN Maximum(kept, r.segment)
                          ELSE kept
               /\ IF next <= start /\ end >= n
                  THEN at' = "done" /\ UNCHANGED <<start, chunk_i>>
                  ELSE /\ at' = "window"
                       /\ start' = IF next <= start
                                   THEN Minimum(n, start + Maximum(Hop \div 2, 1))
                                   ELSE next
                       /\ chunk_i' = chunk_i + 1
    /\ reached' = Maximum(reached, end)
    /\ skipped' = (skipped \/ start > reached)
    /\ UNCHANGED <<set, n, end>>

Next == PickWindow \/ LoopEnds \/ DecodeWindow

Spec == Init /\ [][Next]_vars

-----------------------------------------------------------------------------
\* Whatever the decoder says of a window, the next one starts after it does:
\* the guards of decode.py 1485-1488 are dead code.
NextIsAhead ==
    at = "decode" => \A r \in Results : NextChunkStart(r) > start

\* Segments kept from one window start before the next window does, so the
\* transcript's segments are in order from window to window: a window is never
\* moved back behind the boundary its predecessor's segments were cut at.
SegmentsInOrder == at = "decode" => kept < start

\* The snap to the last full window reaches back to audio that was heard.
ShortTail == set.minTail <= set.chunk + set.overlap

\* Seeking by timestamps stays within the window that was decoded.
SeekInWindow == set.timestamps => set.chunk = Window

\* Without timestamps every sample goes to the encoder, in windows that leave
\* no gap, before the cap on the number of windows ends the loop (1410).
WholeAudioHeard ==
    at = "done" /\ ~set.timestamps /\ ShortTail => reached = n /\ ~skipped

\* With timestamps too, no window starts past audio nobody heard as long as
\* chunks fill the model's window (1131-1136, 1157-1158).
NoAudioSkipped == ShortTail /\ SeekInWindow => ~skipped

\* "Full utterance" (decode.py 1354): all of the audio is decoded, with
\* timestamps too.
FullUtterance == at = "done" => reached = n
=============================================================================
