------------------------ MODULE SlidingDecodeProofs ------------------------
(***************************************************************************)
(* Safety of the sliding loop for every length of audio and all settings   *)
(* the parameter functions can return.  The inductive invariant says       *)
(*   WindowInv  what shape the chosen window has, and that a short tail    *)
(*              left to the loop is already the last full window;          *)
(*   HeardInv   that a window never starts behind a gap;                   *)
(*   CountInv   that without timestamps every window advances by half a    *)
(*              hop, except the last one, so that the cap is never met.    *)
(***************************************************************************)
EXTENDS SlidingDecode, TLAPS

USE SettingsAssumption DEF SettingsAssumption

WindowInv ==
    /\ at = "window" /\ chunk_i > 0 /\ start < n =>
           \/ set.minTail <= n - start
           \/ start = n - set.chunk
    /\ at = "window" /\ chunk_i = 0 => start = 0
    /\ at = "decode" =>
           /\ start < n
           /\ start < end
           /\ end = n \/ end = start + set.chunk
           /\ end <= start + set.chunk
    /\ kept < start \/ start = n \/ at = "done"

\* The hop is positive and no longer than a window.
LEMMA HopType ==
  ASSUME set \in Settings
  PROVE  /\ Hop \in 1..set.chunk
         /\ Hop \div 4 \in 0..Hop
         /\ Hop \div 2 \in 0..Hop
         /\ set.chunk \in Nat \ {0}
<1>1. Hop \in 1..set.chunk /\ set.chunk \in Nat \ {0}
  BY DEF Hop
<1> QED BY <1>1

\* The decoder's answers: no segments, or a seek point in the window.
LEMMA ResultType ==
  ASSUME TypeOK, NEW r \in Results
  PROVE  /\ r.truncated \in BOOLEAN
         /\ r.seek \in Nat
         /\ r.segment \in Nat \cup {-1}
         /\ r.seek > 0 => set.timestamps /\ r.seek <= start + Window
  BY DEF Results, TypeOK

\* Merging a short tail keeps the next window ahead of this one.
LEMMA MergeAhead ==
  ASSUME TypeOK, NEW nxt \in Int, start < nxt, start + set.chunk < n
  PROVE  LET m == MaybeMergeShortTail(nxt)
         IN  /\ m \in 1..n
             /\ start < m
             /\ m = n \/ set.minTail <= n - m \/ m = n - set.chunk
             /\ m = n => nxt >= n
  BY DEF MaybeMergeShortTail, Maximum, TypeOK

\* The point a window leaves for the next one, before a short tail is merged.
Seek(r) ==
    IF r.seek > 0
    THEN Maximum(start + Maximum(Hop \div 4, 1),
                 r.seek - Maximum(set.overlap, HalfSecond))
    ELSE IF r.truncated
    THEN Maximum(start + Maximum(Hop \div 2, 1),
                 end - Maximum(set.overlap, set.retry))
    ELSE start + Hop

\* Where the decoder's timestamps send the next window is ahead.
LEMMA SeekAhead ==
  ASSUME TypeOK, NEW r \in Results
  PROVE  Seek(r) \in Int /\ start < Seek(r)
<1>1. Hop \in Nat \ {0} /\ Hop \div 4 \in Nat /\ Hop \div 2 \in Nat
  BY HopType DEF TypeOK
<1>2. r.seek \in Nat /\ set.overlap \in Nat /\ set.retry \in Nat
      /\ start \in Nat /\ end \in Nat /\ HalfSecond \in Nat
  BY ResultType DEF TypeOK
<1> QED BY <1>1, <1>2 DEF Seek, Maximum

\* The next window starts ahead and leaves no short tail.
LEMMA NextAhead ==
  ASSUME TypeOK, WindowInv, at = "decode", NEW r \in Results
  PROVE  LET m == NextChunkStart(r)
         IN  /\ m \in 1..n
             /\ start < m
             /\ m = n \/ set.minTail <= n - m \/ m = n - set.chunk
             /\ end >= n \/ m = MaybeMergeShortTail(Seek(r))
             /\ m = n => end >= n \/ Seek(r) >= n
<1>1. CASE end >= n
  BY <1>1 DEF NextChunkStart, WindowInv, TypeOK
<1>2. CASE ~(end >= n)
  <2>1. NextChunkStart(r) = MaybeMergeShortTail(Seek(r))
    BY <1>2 DEF NextChunkStart, Seek
  <2>2. start + set.chunk < n
    BY <1>2 DEF WindowInv, TypeOK
  <2> QED BY <2>1, <2>2, SeekAhead, MergeAhead
<1> QED BY <1>1, <1>2

\* The step of a window that was decoded, without the two dead guards.
LEMMA DecodeEffect ==
  ASSUME TypeOK, WindowInv, DecodeWindow
  PROVE  /\ at = "decode" /\ at' = "window"
         /\ UNCHANGED <<set, n, end>>
         /\ chunk_i' = chunk_i + 1
         /\ reached' = Maximum(reached, end)
         /\ skipped' = (skipped \/ start > reached)
         /\ \E r \in Results :
                /\ start' = NextChunkStart(r)
                /\ kept' = IF r.segment # -1 /\ (start' < n => r.segment < start')
                           THEN Maximum(kept, r.segment)
                           ELSE kept
<1>1. /\ at = "decode"
      /\ UNCHANGED <<set, n, end>>
      /\ reached' = Maximum(reached, end)
      /\ skipped' = (skipped \/ start > reached)
  BY DEF DecodeWindow
<1>2. PICK r \in Results :
        LET next == NextChunkStart(r)
        IN  /\ kept' = IF r.segment # -1 /\ (next < n => r.segment < next)
                       THEN Maximum(kept, r.segment)
                       ELSE kept
            /\ IF next <= start /\ end >= n
               THEN at' = "done" /\ UNCHANGED <<start, chunk_i>>
               ELSE /\ at' = "window"
                    /\ start' = IF next <= start
                                THEN Minimum(n, start + Maximum(Hop \div 2, 1))
                                ELSE next
                    /\ chunk_i' = chunk_i + 1
  BY DEF DecodeWindow
<1>3. ~(NextChunkStart(r) <= start)
  BY <1>1, NextAhead DEF TypeOK
<1> QED BY <1>1, <1>2, <1>3

\* In the loop's own test the tail is never moved: it was merged before.
LEMMA PickEffect ==
  ASSUME TypeOK, WindowInv, PickWindow
  PROVE  /\ at = "window" /\ at' = "decode"
         /\ start < n
         /\ chunk_i < MaxChunks
         /\ UNCHANGED <<set, n, start, chunk_i, kept, reached, skipped>>
         /\ \/ end' = n /\ n - start <= set.chunk
            \/ end' = start + set.chunk /\ end' < n
<1>1. /\ at = "window" /\ at' = "decode"
      /\ start < n
      /\ chunk_i < MaxChunks
      /\ UNCHANGED <<set, n, chunk_i, kept, reached, skipped>>
  BY DEF PickWindow
<1>2. CASE n - start <= set.chunk
  <2>1. end' = n
    BY <1>2 DEF PickWindow
  <2>2. start' = IF chunk_i > 0 /\ n - start < set.minTail
                 THEN Maximum(0, n - set.chunk)
                 ELSE start
    BY <1>2 DEF PickWindow
  <2>3. start' = start
    BY <1>1, <2>2 DEF WindowInv, Maximum, TypeOK
  <2> QED BY <1>1, <1>2, <2>1, <2>3
<1>3. CASE ~(n - start <= set.chunk)
  BY <1>1, <1>3 DEF PickWindow, TypeOK
<1> QED BY <1>2, <1>3

\* The first window starts at the beginning of the audio.
LEMMA WindowInit == Init => TypeOK /\ WindowInv
<1> SUFFICES ASSUME Init PROVE TypeOK /\ WindowInv
  OBVIOUS
<1>1. skipped \in BOOLEAN
  BY Zenon DEF Init
<1>2. /\ set \in Settings /\ n \in Lengths
      /\ at = "window" /\ start = 0 /\ end = 0 /\ chunk_i = 0 /\ kept = -1
      /\ reached = 0
  BY DEF Init
<1>3. TypeOK
  BY <1>1, <1>2 DEF TypeOK
<1>4. WindowInv
  BY <1>2 DEF WindowInv
<1> QED BY <1>3, <1>4

\* Every step keeps the window inside the audio.
LEMMA WindowStep == TypeOK /\ WindowInv /\ [Next]_vars => TypeOK' /\ WindowInv'
<1> SUFFICES ASSUME TypeOK, WindowInv, [Next]_vars PROVE TypeOK' /\ WindowInv'
  OBVIOUS
<1>1. CASE PickWindow
  <2>1. TypeOK'
    BY <1>1, PickEffect DEF TypeOK
  <2>2. WindowInv'
    BY <1>1, PickEffect DEF WindowInv, TypeOK
  <2> QED BY <2>1, <2>2
<1>2. CASE LoopEnds
  <2>1. at' = "done" /\ UNCHANGED <<set, n, start, end, chunk_i, kept, reached, skipped>>
    BY <1>2 DEF LoopEnds
  <2>2. TypeOK'
    BY <2>1 DEF TypeOK
  <2>3. WindowInv'
    BY <2>1 DEF WindowInv
  <2> QED BY <2>2, <2>3
<1>3. CASE DecodeWindow
  <2>1. PICK r \in Results :
          /\ start' = NextChunkStart(r)
          /\ kept' = IF r.segment # -1 /\ (start' < n => r.segment < start')
                     THEN Maximum(kept, r.segment)
                     ELSE kept
    BY <1>3, DecodeEffect
  <2>2. /\ at = "decode" /\ at' = "window"
        /\ UNCHANGED <<set, n, end>>
        /\ chunk_i' = chunk_i + 1
        /\ reached' = Maximum(reached, end)
        /\ skipped' = (skipped \/ start > reached)
    BY <1>3, DecodeEffect
  <2>3. /\ start' \in 1..n
        /\ start < start'
        /\ start' = n \/ set.minTail <= n - start' \/ start' = n - set.chunk
    BY <2>1, <2>2, NextAhead
  <2>4. kept' \in Nat \cup {-1} /\ (kept' < start' \/ start' = n)
    BY <2>1, <2>2, <2>3, ResultType DEF Maximum, TypeOK, WindowInv
  <2>5. skipped' \in BOOLEAN
    BY <2>2 DEF TypeOK
  <2>6. TypeOK'
    BY <2>2, <2>3, <2>4, <2>5 DEF Maximum, TypeOK
  <2>7. WindowInv'
    BY <2>2, <2>3, <2>4 DEF WindowInv, TypeOK
  <2> QED BY <2>6, <2>7
<1>4. CASE UNCHANGED vars
  BY <1>4 DEF vars, TypeOK, WindowInv
<1> QED BY <1>1, <1>2, <1>3, <1>4 DEF Next

\* Windows are inside the audio at all times.
LEMMA WindowCorrect == Spec => [](TypeOK /\ WindowInv)
  BY WindowInit, WindowStep, PTL DEF Spec

\* Positions stay within the audio and the history within its types.
THEOREM TypeCorrect == Spec => []TypeOK
  BY WindowCorrect, PTL

\* Whatever the decoder answers, the next window starts later: the guards
\* against standing still are dead code, for every setting.
THEOREM AlwaysAdvances == Spec => []NextIsAhead
<1>1. TypeOK /\ WindowInv => NextIsAhead
  BY NextAhead DEF NextIsAhead, TypeOK
<1> QED BY <1>1, WindowCorrect, PTL

\* Segments kept from earlier windows start before the window being decoded.
THEOREM OrderedSegments == Spec => []SegmentsInOrder
<1>1. TypeOK /\ WindowInv => SegmentsInOrder
  BY DEF WindowInv, SegmentsInOrder, TypeOK
<1> QED BY <1>1, WindowCorrect, PTL

-----------------------------------------------------------------------------
(* No audio is skipped. *)

HeardInv ==
    ShortTail /\ SeekInWindow =>
        /\ ~skipped
        /\ start <= reached
        /\ start = n => at = "decode" \/ reached = n

\* The next window starts where this one ends or before.
LEMMA SeekBehind ==
  ASSUME TypeOK, WindowInv, ShortTail, SeekInWindow, at = "decode", end < n,
         NEW r \in Results
  PROVE  Seek(r) <= end /\ MaybeMergeShortTail(Seek(r)) <= end
<1>1. /\ Hop \in 1..set.chunk
      /\ Hop \div 4 \in 0..Hop
      /\ Hop \div 2 \in 0..Hop
      /\ set.chunk \in Nat \ {0}
  BY HopType DEF TypeOK
<1>2. /\ r.seek \in Nat
      /\ r.seek > 0 => r.seek <= start + set.chunk
      /\ set.overlap \in Nat /\ set.retry \in Nat /\ set.minTail \in Nat
      /\ HalfSecond \in Nat
      /\ start \in Nat /\ end \in Nat /\ n \in Nat
  BY ResultType DEF SeekInWindow, TypeOK
<1>3. end = start + set.chunk
  BY <1>2 DEF WindowInv, TypeOK
<1>4. Hop = set.chunk - set.overlap
  BY DEF Hop
<1>5. /\ Seek(r) <= end
      /\ Seek(r) <= end - set.overlap \/ Seek(r) <= start + Hop
  BY <1>1, <1>2, <1>3, <1>4 DEF Seek, Maximum
<1>6. Seek(r) <= end - set.overlap
  BY <1>1, <1>2, <1>3, <1>4, <1>5
<1>7. Seek(r) \in Int
  BY SeekAhead
<1>8. MaybeMergeShortTail(Seek(r)) <= end
  BY <1>1, <1>2, <1>3, <1>6, <1>7 DEF MaybeMergeShortTail, Maximum, ShortTail
<1> QED BY <1>5, <1>8

\* Nothing has been heard or skipped at first.
LEMMA HeardInit == Init => HeardInv
  BY DEF Init, HeardInv

\* Every step keeps what has been heard contiguous.
LEMMA HeardStep == TypeOK /\ WindowInv /\ HeardInv /\ [Next]_vars => HeardInv'
<1> SUFFICES ASSUME TypeOK, WindowInv, HeardInv, [Next]_vars,
                    ShortTail', SeekInWindow'
             PROVE  /\ ~skipped'
                    /\ start' <= reached'
                    /\ start' = n' => at' = "decode" \/ reached' = n'
  BY DEF HeardInv
<1>1. ShortTail /\ SeekInWindow /\ UNCHANGED <<set, n>>
  BY DEF ShortTail, SeekInWindow, Next, PickWindow, LoopEnds, DecodeWindow, vars
<1>2. ~skipped /\ start <= reached /\ (start = n => at = "decode" \/ reached = n)
  BY <1>1 DEF HeardInv
<1>3. CASE PickWindow
  BY <1>2, <1>3, PickEffect
<1>4. CASE LoopEnds \/ UNCHANGED vars
  BY <1>2, <1>4 DEF LoopEnds, vars
<1>5. CASE DecodeWindow
  <2>1. PICK r \in Results : start' = NextChunkStart(r)
    BY <1>5, DecodeEffect
  <2>2. /\ at = "decode"
        /\ reached' = Maximum(reached, end)
        /\ skipped' = (skipped \/ start > reached)
        /\ n' = n
    BY <1>5, DecodeEffect
  <2>3. ~skipped'
    BY <1>2, <2>2 DEF TypeOK
  <2>4. CASE end = n
    BY <2>1, <2>2, <2>3, <2>4, NextAhead DEF Maximum, TypeOK
  <2>5. CASE end # n
    <3>1. end < n /\ start' = MaybeMergeShortTail(Seek(r))
      BY <2>1, <2>2, <2>5, NextAhead DEF WindowInv, TypeOK
    <3>2. start' <= end /\ start' \in 1..n
      BY <1>1, <2>1, <2>2, <3>1, SeekBehind, NextAhead
    <3> QED BY <2>2, <2>3, <3>1, <3>2 DEF Maximum, TypeOK
  <2> QED BY <2>4, <2>5
<1> QED BY <1>3, <1>4, <1>5 DEF Next

\* What has been heard is contiguous at all times.
LEMMA HeardCorrect == Spec => [](TypeOK /\ WindowInv /\ HeardInv)
  BY WindowInit, WindowStep, HeardInit, HeardStep, PTL DEF Spec

\* No window starts past unheard audio, in either mode, when the tail that is
\* merged is no longer than a window and its overlap and, with timestamps,
\* when windows are the model's own.
THEOREM NothingSkipped == Spec => []NoAudioSkipped
<1>1. HeardInv => NoAudioSkipped
  BY DEF HeardInv, NoAudioSkipped
<1> QED BY <1>1, HeardCorrect, PTL

-----------------------------------------------------------------------------
(* Without timestamps the cap on the number of windows is never met. *)

Stride == Maximum(Hop \div 2, 1)

\* Every window but the last full one advances by a stride at least.
CountInv ==
    ~set.timestamps =>
        \/ chunk_i * Stride <= start
        \/ (chunk_i - 1) * Stride <= start /\ start = n - set.chunk
        \/ start = n

DoneInv == at = "done" /\ ~set.timestamps => start = n

\* A multiple and the next one.
LEMMA NextCount == ASSUME NEW c \in Int, NEW k \in Int PROVE (c + 1) * k = c * k + k
  OBVIOUS

\* Multiplying keeps the order.
LEMMA MulMonotone ==
  ASSUME NEW b \in Nat, NEW c \in Nat, NEW k \in Nat, b <= c
  PROVE  b * k <= c * k
<1>1. PICK d \in Nat : c = b + d
  <2>1. c - b \in Nat /\ c = b + (c - b)
    OBVIOUS
  <2> QED BY <2>1
<1>2. c * k = b * k + d * k /\ d * k \in Nat /\ b * k \in Nat
  BY <1>1
<1> QED BY <1>2

\* A number is below the multiple after its quotient.
LEMMA DivBound ==
  ASSUME NEW a \in Nat, NEW k \in Nat \ {0}
  PROVE  a \div k \in Nat /\ a < (a \div k + 1) * k
<1>1. a \div k \in Int /\ a = k * (a \div k) + (a % k) /\ a % k \in 0..(k - 1)
  OBVIOUS
<1> QED BY <1>1

\* The stride the cap assumes is positive and at most the hop.
LEMMA StrideType ==
  ASSUME TypeOK
  PROVE  Stride \in Nat \ {0} /\ Stride <= Hop
  BY HopType DEF Stride, Maximum, TypeOK

\* A window that is not the first to be merged advances by a stride.
LEMMA SeekStride ==
  ASSUME TypeOK, ~set.timestamps, NEW r \in Results
  PROVE  start + Stride <= Seek(r)
<1>1. r.seek = 0
  BY ResultType
<1>2. Hop \in Nat /\ start \in Nat /\ end \in Nat /\ set.overlap \in Nat
      /\ set.retry \in Nat
  BY HopType DEF TypeOK
<1> QED BY <1>1, <1>2, StrideType DEF Seek, Stride, Maximum

\* While there is audio left, the number of windows is under the cap.
LEMMA CapNotMet ==
  ASSUME TypeOK, CountInv, ~set.timestamps, start < n
  PROVE  chunk_i < MaxChunks
<1> DEFINE q == n \div Stride
<1>1. Stride \in Nat \ {0} /\ n \in Nat /\ start \in Nat /\ chunk_i \in Nat
  BY StrideType DEF TypeOK
<1>2. q \in Nat /\ n < (q + 1) * Stride
  BY <1>1, DivBound
<1> HIDE DEF q
<1>3. (chunk_i - 1) * Stride <= start
  <2>1. chunk_i * Stride = (chunk_i - 1) * Stride + Stride
    BY <1>1, NextCount
  <2>2. (chunk_i - 1) * Stride \in Int
    BY <1>1
  <2> QED BY <1>1, <2>1, <2>2 DEF CountInv
<1>4. chunk_i < q + 8
  <2> SUFFICES ASSUME q + 8 <= chunk_i PROVE FALSE
    BY <1>1, <1>2
  <2>1. q + 1 \in Nat /\ chunk_i - 1 \in Nat /\ q + 1 <= chunk_i - 1
    BY <1>1, <1>2
  <2>2. (q + 1) * Stride <= (chunk_i - 1) * Stride
    BY <1>1, <2>1, MulMonotone
  <2>3. (q + 1) * Stride \in Int /\ (chunk_i - 1) * Stride \in Int
    BY <1>1, <2>1
  <2> QED BY <1>1, <1>2, <1>3, <2>2, <2>3
<1>5. MaxChunks = Maximum(1, q + 8)
  BY DEF MaxChunks, Stride, q
<1> QED BY <1>1, <1>2, <1>4, <1>5 DEF Maximum

\* No window has been counted at first.
LEMMA CountInit == Init => CountInv /\ DoneInv
<1> SUFFICES ASSUME Init PROVE CountInv /\ DoneInv
  OBVIOUS
<1>1. TypeOK
  BY WindowInit
<1>2. chunk_i * Stride = 0
  BY <1>1, StrideType DEF Init
<1> QED BY <1>2 DEF Init, CountInv, DoneInv

\* Without timestamps each counted window is a stride further on.
LEMMA CountStep ==
  TypeOK /\ WindowInv /\ CountInv /\ DoneInv /\ [Next]_vars => CountInv' /\ DoneInv'
<1> SUFFICES ASSUME TypeOK, WindowInv, CountInv, DoneInv, [Next]_vars,
                    ~set.timestamps
             PROVE  CountInv' /\ DoneInv'
  BY DEF CountInv, DoneInv, Next, PickWindow, LoopEnds, DecodeWindow, vars
<1>1. CASE PickWindow
  BY <1>1, PickEffect DEF CountInv, DoneInv, Stride, Hop, Maximum
<1>2. CASE LoopEnds
  <2>1. /\ start >= n \/ chunk_i >= MaxChunks
        /\ UNCHANGED <<set, n, start, chunk_i>>
    BY <1>2 DEF LoopEnds
  <2>2. start = n
    <3>1. MaxChunks \in Int
      BY DivBound, StrideType DEF MaxChunks, Stride, Maximum, TypeOK
    <3> QED BY <2>1, <3>1, CapNotMet DEF TypeOK
  <2> QED BY <2>1, <2>2 DEF CountInv, DoneInv, Stride, Hop, Maximum
<1>3. CASE DecodeWindow
  <2>1. PICK r \in Results : start' = NextChunkStart(r)
    BY <1>3, DecodeEffect
  <2>2. /\ at = "decode" /\ at' = "window"
        /\ UNCHANGED <<set, n>>
        /\ chunk_i' = chunk_i + 1
    BY <1>3, DecodeEffect
  <2>3. Stride' = Stride /\ Stride \in Nat \ {0}
    BY <2>2, StrideType DEF Stride, Hop, Maximum
  <2>4. CASE end >= n
    BY <2>1, <2>2, <2>4 DEF NextChunkStart, CountInv, DoneInv
  <2>5. CASE ~(end >= n)
    <3>1. end = start + set.chunk /\ end < n
      BY <2>2, <2>5 DEF WindowInv, TypeOK
    <3>2. chunk_i * Stride <= start
      BY <3>1 DEF CountInv, TypeOK
    <3>3. (chunk_i + 1) * Stride = chunk_i * Stride + Stride
          /\ chunk_i * Stride \in Int
      BY <2>3, NextCount DEF TypeOK
    <3>4. start' = MaybeMergeShortTail(Seek(r)) /\ start < start' /\ start' \in 1..n
      BY <2>1, <2>2, <2>5, NextAhead
    <3>5. start + Stride <= Seek(r) /\ Seek(r) \in Int
      BY SeekStride, SeekAhead
    <3>6. start' = n \/ start' = n - set.chunk \/ start' = Seek(r)
      BY <3>1, <3>4, <3>5 DEF MaybeMergeShortTail, Maximum, TypeOK
    <3>7. \/ chunk_i' * Stride' <= start'
          \/ (chunk_i' - 1) * Stride' <= start' /\ start' = n' - set'.chunk
          \/ start' = n'
      <4>1. chunk_i' - 1 = chunk_i
        BY <2>2 DEF TypeOK
      <4> QED BY <2>2, <2>3, <3>2, <3>3, <3>4, <3>5, <3>6, <4>1 DEF TypeOK
    <3> QED BY <2>2, <3>7 DEF CountInv, DoneInv
  <2> QED BY <2>4, <2>5
<1>4. CASE UNCHANGED vars
  BY <1>4 DEF vars, CountInv, DoneInv, Stride, Hop, Maximum
<1> QED BY <1>1, <1>2, <1>3, <1>4 DEF Next

\* Without timestamps all of the audio is heard, gapless, for every length and
\* every setting whose tail fits a window and its overlap.
THEOREM EverySampleHeard == Spec => []WholeAudioHeard
<1>1. HeardInv /\ DoneInv => WholeAudioHeard
  BY DEF HeardInv, DoneInv, WholeAudioHeard, SeekInWindow
<1> QED
  BY <1>1, WindowInit, WindowStep, HeardInit, HeardStep, CountInit, CountStep, PTL
     DEF Spec
=============================================================================
