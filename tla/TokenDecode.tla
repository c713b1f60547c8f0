---------------------------- MODULE TokenDecode ----------------------------
(***************************************************************************)
(* How one window becomes text (app/decode.py): decode_from_cross_kv feeds *)
(* the prompt and then its own predictions to the decoder, one token at a  *)
(* time, and stores what the decoder returns for each in the cache at the  *)
(* current offset, until it predicts EOT, the limit is reached or the tail *)
(* of the answer repeats itself; parse_timestamp_tokens then splits the    *)
(* answer into segments.                                                   *)
(*                                                                         *)
(* The network predicts anything.  A token is a word, a timestamp, or half *)
(* of a character: a character that the vocabulary has no token for is     *)
(* spelled with two tokens, and only both together are valid UTF-8.  Ids   *)
(* that the table of tokens does not have, which have no text, are left    *)
(* out, and so are words that are only white space.                        *)
(***************************************************************************)
EXTENDS Integers, Sequences, FiniteSets, SequencesExt

CONSTANTS Settings,     \* [stamps, english, limit, repeats]
          Context,      \* n_text_ctx
          Words, Stamps, Lead, Trail, EOT,
          Empty         \* a row of the cache that was never written

\* WHISPER_MAX_DECODE_TOKENS and WHISPER_MAX_NGRAM_REPEAT may be any integer;
\* the longest prompt has four tokens.
ASSUME TokenAssumption ==
    /\ Context \in Nat /\ Context >= 4
    /\ Settings \subseteq [stamps : BOOLEAN, english : BOOLEAN,
                           limit : Int, repeats : Int]
    /\ EOT \notin Words \cup Stamps \cup {Lead, Trail}
    /\ Words \cap Stamps = {}
    /\ {Lead, Trail} \cap (Words \cup Stamps) = {} /\ Lead # Trail

VARIABLES
    set,        \* the environment and the request
    at,         \* "prompt", "loop" or "done"
    cache,      \* self_kv: the token each row was computed from
    offset,
    idx,        \* the last prediction
    ans,
    predicted,  \* history: ans before repetitions were taken out of it
    repeated,   \* stopped_on_repeat
    truncated,
    segments,
    text,
    invalid     \* UnicodeDecodeError

result == <<truncated, segments, text, invalid>>
vars == <<set, at, cache, offset, idx, ans, predicted, repeated, result>>

Plain == Words \cup {Lead, Trail}

\* What the decoder may predict.
Tokens == Plain \cup Stamps \cup {EOT}

\* build_sot_sequence; a request with timestamps leaves out the last token.
Prompt ==
    LET seq == IF set.english THEN <<"sot", "notimestamps">>
               ELSE <<"sot", "language", "task", "notimestamps">>
    IN IF set.stamps THEN Front(seq) ELSE seq

Init ==
    /\ set \in Settings
    /\ at = "prompt"
    /\ cache = [p \in 0..(Context - 1) |-> Empty]
    /\ offset = 0
    /\ idx = EOT
    /\ ans = <<>> /\ predicted = <<>>
    /\ repeated = FALSE
    /\ truncated = FALSE /\ segments = <<>> /\ text = <<>> /\ invalid = FALSE

-----------------------------------------------------------------------------
Greater(a, b) == IF a >= b THEN a ELSE b

\* resolve_decode_token_limit; the prompt counts.
TokenLimit(limit) == IF limit <= 0 \/ limit > Context THEN Context ELSE limit

\* The last k tokens of s were said set.repeats times in a row.
EndsInRepeat(s, k) ==
    /\ Len(s) >= k * set.repeats
    /\ \A i \in (Len(s) - k * set.repeats + 1)..(Len(s) - k) : s[i] = s[i + k]

GramSizes == 1..4

RepeatingTail(s) == \E k \in GramSizes : EndsInRepeat(s, k)

\* The shortest group that is repeated.
GramSize(s) ==
    CHOOSE k \in GramSizes :
        EndsInRepeat(s, k) /\ \A j \in 1..(k - 1) : ~EndsInRepeat(s, j)

\* Variant: the first saying of the group is taken out as well.
DropGram(s) == SubSeq(s, 1, Len(s) - GramSize(s) * Greater(0, set.repeats))

\* All but the first saying of the group are taken out.
DropRepeats(s) ==
    SubSeq(s, 1, Len(s) - GramSize(s) * Greater(0, set.repeats - 1))

\* Variant: the offset is advanced before the rows are stored.
StoreNext(token) ==
    /\ cache' = [cache EXCEPT ![offset + 1] = token]
    /\ offset' = offset + 1

\* run_decoder and the rows it returns; a row outside of the cache is lost.
Store(token) ==
    /\ cache' = [cache EXCEPT ![offset] = token]
    /\ offset' = offset + 1

\* The first prediction is masked when timestamps are wanted: EOT is below
\* timestamp_begin too.
First == IF set.stamps THEN Stamps ELSE Tokens

-----------------------------------------------------------------------------
\* for t in sot
FeedPrompt ==
    /\ at = "prompt"
    /\ Store(Prompt[offset + 1])
    /\ IF offset' = Len(Prompt)
       THEN at' = "loop" /\ idx' \in First
       ELSE UNCHANGED <<at, idx>>
    /\ UNCHANGED <<set, ans, predicted, repeated, result>>

Continues == idx # EOT /\ offset < TokenLimit(set.limit)

\* A prediction is accepted and the next one made.
Accept ==
    /\ at = "loop"
    /\ Continues
    /\ ~repeated
    /\ ~RepeatingTail(Append(ans, idx))
    /\ ans' = Append(ans, idx)
    /\ predicted' = ans'
    /\ Store(idx)
    /\ idx' \in Tokens
    /\ UNCHANGED <<set, at, repeated, result>>

\* Variant: the second break is forgotten.
TakeRepeatsOutAndGoOn ==
    /\ at = "loop"
    /\ Continues
    /\ RepeatingTail(Append(ans, idx))
    /\ predicted' = Append(ans, idx)
    /\ ans' = DropRepeats(predicted')
    /\ UNCHANGED <<set, at, cache, offset, idx, repeated, result>>

\* The answer has begun to repeat itself.
StopOnRepeat ==
    /\ at = "loop"
    /\ Continues
    /\ ~repeated
    /\ RepeatingTail(Append(ans, idx))
    /\ predicted' = Append(ans, idx)
    /\ ans' = DropRepeats(predicted')
    /\ repeated' = TRUE
    /\ UNCHANGED <<set, at, cache, offset, idx, result>>

-----------------------------------------------------------------------------
\* Bytes that decode as UTF-8: no half of a character without the other.
Valid(s) ==
    \A i \in DOMAIN s :
        /\ s[i] = Lead => i < Len(s) /\ s[i + 1] = Trail
        /\ s[i] = Trail => i > 1 /\ s[i - 1] = Lead

\* The timestamp after position i of s, or the end of s.
NextStamp(s, i) ==
    CHOOSE e \in (i + 1)..(Len(s) + 1) :
        /\ e <= Len(s) => s[e] \in Stamps
        /\ \A f \in (i + 1)..(e - 1) : s[f] \notin Stamps

\* Variant: the last id of the text is taken for the end.
SegmentShort(s, i, e) ==
    [start |-> s[i], end |-> IF e <= Len(s) THEN s[e] ELSE s[i],
     text |-> SubSeq(s, i + 1, e - 2)]

\* A segment that the answer leaves open ends where it starts.
Segment(s, i, e) ==
    [start |-> s[i], end |-> IF e <= Len(s) THEN s[e] ELSE s[i],
     text |-> SubSeq(s, i + 1, e - 1)]

\* A segment without text is left out.
Spoken(segment) == IF segment.text = <<>> THEN <<>> ELSE <<segment>>

\* Variant: an end is taken for the next start as well.
PairsSharing(s) ==
    LET From[i \in 1..(Len(s) + 2)] ==
            IF i > Len(s) THEN <<>>
            ELSE IF s[i] \notin Stamps THEN From[i + 1]
            ELSE Spoken(Segment(s, i, NextStamp(s, i))) \o From[NextStamp(s, i)]
    IN From[1]

\* parse_timestamp_tokens from position i on: text before a start is passed
\* over, and the scan goes on after the end of the segment.
Pairs(s) ==
    LET From[i \in 1..(Len(s) + 2)] ==
            IF i > Len(s) THEN <<>>
            ELSE IF s[i] \notin Stamps THEN From[i + 1]
            ELSE Spoken(Segment(s, i, NextStamp(s, i)))
                     \o From[NextStamp(s, i) + 1]
    IN From[1]

\* Text ids, in order: `t < timestamp_begin`.
TextIds(s) ==
    LET Till[i \in 0..Len(s)] ==
            IF i = 0 THEN <<>>
            ELSE IF s[i] \in Plain THEN Append(Till[i - 1], s[i])
            ELSE Till[i - 1]
    IN Till[Len(s)]

\* The texts of the segments, or of the whole answer if there are none.
Finish ==
    /\ at = "loop"
    /\ repeated \/ ~Continues
    /\ LET spoken == IF set.stamps THEN Pairs(ans) ELSE <<>>
           whole == IF spoken = <<>> THEN TextIds(ans)
                    ELSE FlattenSeq([k \in DOMAIN spoken |-> spoken[k].text])
       IN /\ invalid' = ~(/\ \A k \in DOMAIN spoken : Valid(spoken[k].text)
                          /\ spoken = <<>> => Valid(whole))
          /\ segments' = IF invalid' THEN <<>> ELSE spoken
          /\ text' = IF invalid' THEN <<>> ELSE whole
    /\ truncated' = (idx # EOT /\ ~repeated /\ offset >= TokenLimit(set.limit))
    /\ at' = "done"
    /\ UNCHANGED <<set, cache, offset, idx, ans, predicted, repeated>>

Next == FeedPrompt \/ Accept \/ StopOnRepeat \/ Finish

Spec == Init /\ [][Next]_vars

\* The decoder returns from every call.
FairSpec == Spec /\ WF_vars(Next)

-----------------------------------------------------------------------------
\* The cache holds the prompt and the accepted predictions, one row for each,
\* in order and without a gap, and nothing else: what the mask of decode.py
\* 160 lets the decoder see is all of the text so far.  No row is written
\* outside of it, whatever limit is set.
CacheIsTheText ==
    LET fed == IF repeated THEN Front(predicted) ELSE predicted
    IN /\ at # "prompt" => offset = Len(Prompt) + Len(fed)
       /\ offset <= Context
       /\ \A p \in 0..(Context - 1) :
              cache[p] = IF p < offset THEN (Prompt \o fed)[p + 1] ELSE Empty

\* What is taken out of an answer only repeats what stays in it, only the stop
\* on a repetition takes anything out, and it takes out enough: no answer
\* holds a group of tokens said WHISPER_MAX_NGRAM_REPEAT times in a row, not
\* even the one that was stopped for it (decode.py 939-946).  With 0 or 1 the
\* very first token is such a group.
OnlyRepetitionDropped ==
    /\ IsPrefix(ans, predicted)
    /\ ans # predicted =>
           /\ repeated
           /\ \E k \in 1..Len(ans) :
                  \A i \in (Len(ans) + 1)..Len(predicted) :
                      predicted[i] = predicted[i - k]
    /\ set.repeats >= 2 =>
           \A i \in 1..Len(ans) : ~RepeatingTail(SubSeq(ans, 1, i))

\* No timestamp from position i to position j.
NoStamps(s, i, j) == \A f \in i..j : s[f] \notin Stamps

\* Where segments with text start: at every other timestamp, if the one after
\* it does not follow at once.
TextStarts(s) ==
    {i \in 1..(Len(s) - 1) :
        /\ s[i] \in Stamps
        /\ Cardinality({j \in 1..(i - 1) : s[j] \in Stamps}) % 2 = 0
        /\ s[i + 1] \notin Stamps}

\* A segment that starts at i: the text up to the timestamp after it, or all
\* that follows.
IsSegmentAt(segment, s, i) ==
    \/ \E e \in (i + 1)..Len(s) :
           /\ NoStamps(s, i + 1, e - 1) /\ s[e] \in Stamps
           /\ segment = [start |-> s[i], end |-> s[e],
                         text |-> SubSeq(s, i + 1, e - 1)]
    \/ /\ NoStamps(s, i + 1, Len(s))
       /\ segment = [start |-> s[i], end |-> s[i],
                     text |-> SubSeq(s, i + 1, Len(s))]

\* Each segment is at a start of its own, in order, and no start is left out.
AreSegments(segs, s) ==
    \E from \in [1..Len(segs) -> TextStarts(s)] :
        /\ \A j, k \in 1..Len(segs) : j < k => from[j] < from[k]
        /\ \A i \in TextStarts(s) : \E k \in 1..Len(segs) : from[k] = i
        /\ \A k \in 1..Len(segs) : IsSegmentAt(segs[k], s, from[k])

\* The scan of parse_timestamp_tokens pairs timestamps as its docstring
\* (decode.py 818) means them to be paired: no text is lost between two pairs
\* that follow each other at once, and none is said twice.
SegmentsAreThePairs ==
    at = "done" /\ set.stamps /\ ~invalid => AreSegments(segments, ans)

\* An answer that ran to EOT and was spelled correctly is always text: cutting
\* it at timestamps cuts no character, and no id gets lost on the way.
\* Otherwise the strict decode (decode.py 807) fails the whole request.
OnlyStopsCutCharacters ==
    at = "done" /\ idx = EOT /\ Valid(predicted) => ~invalid

\* The token loop ends although the decoder may never predict EOT: at the
\* latest when the context is full.
DecodeEnds == <>(at = "done")

\* docs/api.md 157: a window that ends without EOT is heard again from an
\* earlier start on; so it is not an error, if what was predicted up to there
\* can be continued to valid text.
TruncationIsNoError ==
    at = "done" /\ truncated /\ Valid(Append(predicted, Trail)) => ~invalid
=============================================================================
