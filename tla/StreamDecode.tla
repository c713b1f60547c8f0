---------------------------- MODULE StreamDecode ----------------------------
(***************************************************************************)
(* A streamed answer (app/decode.py): iter_audio_chunk_spans cuts the      *)
(* audio into windows that overlap, _merge_short_tail_spans replaces a     *)
(* short last one, decode_utterance_stream decodes window by window, and   *)
(* stitch_transcripts joins the texts and drops what two windows heard     *)
(* twice.                                                                  *)
(*                                                                         *)
(* A unit of audio holds one word or none, and the decoder hears each one  *)
(* of its window.  Texts are made of the units, so that they say exactly   *)
(* what was lost or repeated; a join compares the words said in them, as   *)
(* _merge_overlap_text does without case and punctuation.  Windows that do *)
(* not overlap are joined like the spans of decode_utterance_parallel.     *)
(* The snap at decode.py 750-754 is left out: with start + chunk >= n it   *)
(* would need n - chunk > start.                                           *)
(***************************************************************************)
EXTENDS Integers, Sequences, SequencesExt

CONSTANTS Settings,     \* combinations of settings a server may run with
          Lengths,      \* lengths of audio
          Speeches,     \* for each length what may be said: the word of each
                        \* unit, or Quiet
          Quiet,
          MaxMerge      \* the most words a join looks at: 48

\* What _utterance_window_params and _min_tail_samples guarantee.
ASSUME StreamAssumption ==
    /\ Lengths \subseteq Nat
    /\ MaxMerge \in Nat
    /\ \A s \in Settings :
           /\ s.chunk \in Nat \ {0}
           /\ s.overlap \in 0..(s.chunk - 1)
           /\ s.minTail \in Nat

VARIABLES
    set,        \* the settings
    n,          \* the length of the audio
    said,       \* what is said
    at,         \* "slide", "tail", "decode", "done" or "failed"
    start,      \* where the next window starts
    spans,      \* the windows, by their first sample
    i,          \* windows decoded
    texts,      \* chunk_texts: what was yielded
    full        \* full_text

vars == <<set, n, said, at, start, spans, i, texts, full>>

Init ==
    /\ set \in Settings
    /\ n \in Lengths
    /\ said \in Speeches[n]
    /\ at = "slide"
    /\ start = 0
    /\ spans = <<>>
    /\ i = 0
    /\ texts = <<>>
    /\ full = <<>>

-----------------------------------------------------------------------------
Minimum(a, b) == IF a <= b THEN a ELSE b

Hop == set.chunk - set.overlap

\* A window is a slice that ends at the end of the audio at the latest.
EndOf(s) == Minimum(s + set.chunk, n)

\* What the decoder returns for a window: the words said in it.
Heard(s, e) ==
    LET Till[u \in s..e] ==
            IF u = s THEN <<>>
            ELSE IF said[u] = Quiet THEN Till[u - 1]
            ELSE Append(Till[u - 1], u)
    IN  Till[e]

\* k words at the end of left are the first k of right.
Boundary(left, right, k) ==
    \A m \in 1..k : said[left[Len(left) - k + m]] = said[right[m]]

\* Variant: an off-by-one in the range of k.
MergeOneLess(left, right) ==
    LET top == Minimum(Minimum(Len(left), Len(right)), MaxMerge) - 1
        best == CHOOSE k \in 0..top :
                    /\ Boundary(left, right, k)
                    /\ \A m \in (k + 1)..top : ~Boundary(left, right, m)
    IN  IF top < 0 THEN left \o right
        ELSE left \o SubSeq(right, best + 1, Len(right))

\* Variant: one word too many is dropped.
MergeOneMore(left, right) ==
    LET top == Minimum(Minimum(Len(left), Len(right)), MaxMerge)
        best == CHOOSE k \in 0..top :
                    /\ Boundary(left, right, k)
                    /\ \A m \in (k + 1)..top : ~Boundary(left, right, m)
    IN  left \o SubSeq(right, best + (IF best = 0 THEN 1 ELSE 2), Len(right))

\* _merge_overlap_text: right without its longest prefix that ends left.
MergeOverlapText(left, right) ==
    LET top == Minimum(Minimum(Len(left), Len(right)), MaxMerge)
        best == CHOOSE k \in 0..top :
                    /\ Boundary(left, right, k)
                    /\ \A m \in (k + 1)..top : ~Boundary(left, right, m)
    IN  left \o SubSeq(right, best + 1, Len(right))

StitchTranscripts(parts) ==
    LET Joined[k \in 0..Len(parts)] ==
            IF k = 0 THEN <<>>
            ELSE MergeOverlapText(Joined[k - 1], parts[k])
    IN  Joined[Len(parts)]

-----------------------------------------------------------------------------
FitsOneWindow ==
    /\ at = "slide"
    /\ n <= set.chunk
    /\ spans' = <<0>>
    /\ at' = "tail"
    /\ UNCHANGED <<set, n, said, start, i, texts, full>>

\* One iteration of the loop of iter_audio_chunk_spans.
AddSpan ==
    /\ at = "slide"
    /\ n > set.chunk
    /\ spans' = Append(spans, start)
    /\ IF EndOf(start) >= n
       THEN at' = "tail" /\ UNCHANGED start
       ELSE start' = start + Hop /\ UNCHANGED at
    /\ UNCHANGED <<set, n, said, i, texts, full>>

\* The last window has fewer than min_tail_samples.
ShortTail ==
    /\ Len(spans) > 1
    /\ n - Last(spans) < set.minTail

\* Variant: the short window is dropped and the one before it moved instead.
MergeShortTailDropping ==
    /\ at = "tail"
    /\ spans' = IF ShortTail
                THEN Append(Front(Front(spans)), n - set.chunk)
                ELSE spans
    /\ at' = "decode"
    /\ UNCHANGED <<set, n, said, start, i, texts, full>>

\* _merge_short_tail_spans: a full window that ends with the audio instead.
MergeShortTail ==
    /\ at = "tail"
    /\ spans' = IF ShortTail THEN Append(Front(spans), n - set.chunk) ELSE spans
    /\ at' = "decode"
    /\ UNCHANGED <<set, n, said, start, i, texts, full>>

\* One window is decoded; an empty text is not yielded.
DecodeSpan ==
    /\ at = "decode"
    /\ i < Len(spans)
    /\ LET text == Heard(spans[i + 1], EndOf(spans[i + 1]))
       IN  texts' = IF text = <<>> THEN texts ELSE Append(texts, text)
    /\ i' = i + 1
    /\ UNCHANGED <<set, n, said, at, start, spans, full>>

\* Decoding a window raises: the whole answer fails, nothing was sent yet.
DecodeRaises ==
    /\ at = "decode"
    /\ i < Len(spans)
    /\ at' = "failed"
    /\ UNCHANGED <<set, n, said, start, spans, i, texts, full>>

Stitch ==
    /\ at = "decode"
    /\ i = Len(spans)
    /\ full' = StitchTranscripts(texts)
    /\ at' = "done"
    /\ UNCHANGED <<set, n, said, start, spans, i, texts>>

Next ==
    \/ FitsOneWindow \/ AddSpan \/ MergeShortTail
    \/ DecodeSpan \/ DecodeRaises \/ Stitch

Spec == Init /\ [][Next]_vars

-----------------------------------------------------------------------------
\* Each window starts and ends later than the one before it, and not after
\* audio nobody heard.
Chained ==
    \A j \in 1..(Len(spans) - 1) :
        /\ spans[j] < spans[j + 1]
        /\ spans[j + 1] <= EndOf(spans[j])
        /\ EndOf(spans[j]) < EndOf(spans[j + 1])

\* The windows to decode hear all of the audio, and each one hears some that
\* no other before it heard, whatever the tail limit (decode.py 704-755).
SpansCover ==
    at \in {"decode", "done", "failed"} =>
        /\ spans # <<>>
        /\ spans[1] = 0
        /\ Chained
        /\ EndOf(spans[Len(spans)]) = n

\* Neighbouring windows share no more words than a join looks at.
OverlapsFit ==
    \A j \in 1..(Len(spans) - 1) :
        Len(Heard(spans[j + 1], EndOf(spans[j]))) <= MaxMerge

Words == {u \in 1..n : said[u] # Quiet}

AllDifferent == \A u, v \in Words : said[u] = said[v] => u = v

\* The joined text has every word that was said, once and in order, if no two
\* windows share more words than a join looks at, and all words are different
\* (decode.py 767-799).
SaidOnce ==
    at = "done" /\ OverlapsFit /\ AllDifferent => full = Heard(0, n)

\* Words that recur are taken for an overlap (decode.py 1321).  But what is
\* lost is only the repetition: the same word was said before, is in the
\* joined text, and so are less words between the two than a join looks at.
OnlyEchoesDropped ==
    at = "done" =>
        \A u \in Words \ Range(full) :
            \E v \in Words \cap Range(full) :
                /\ v < u
                /\ said[v] = said[u]
                /\ Cardinality({w \in Range(full) : v < w /\ w < u}) < MaxMerge

\* "drop duplicated overlap" (decode.py 768): the same as SaidOnce for any
\* overlap.
OverlapDropped == at = "done" /\ AllDifferent => full = Heard(0, n)
=============================================================================
