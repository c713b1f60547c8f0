-------------------------- MODULE VoiceSpansProofs --------------------------
(***************************************************************************)
(* Proofs about VoiceSpans for every limit, search range, shortest pause,  *)
(* length of audio, frame length and outcome of the VAD: the types, that   *)
(* the spans partition the audio, that a cut at a pause falls in silence,  *)
(* and that it is the longest pause of the search range.                   *)
(***************************************************************************)
EXTENDS VoiceSpans, TLAPS

USE SettingsAssumption DEF SettingsAssumption

\* A quotient is the multiple of the frame at or just before its dividend.
LEMMA DivBounds ==
    ASSUME NEW a \in Int
    PROVE  /\ a \div Frame \in Int
           /\ (a \div Frame) * Frame <= a
           /\ a < (a \div Frame) * Frame + Frame
  BY SMTT(30)

\* The frame of a sample is the one whose bounds it lies between.
LEMMA DivUnique ==
    ASSUME NEW a \in Int, NEW q \in Int, q * Frame <= a, a < q * Frame + Frame
    PROVE  a \div Frame = q
  BY SMTT(30)

\* Multiplying by the frame length keeps the order.
LEMMA MulMonotone ==
    ASSUME NEW p \in Int, NEW q \in Int, p <= q
    PROVE  p * Frame <= q * Frame
  BY SMTT(30)

\* A multiple of the frame length and the next one.
LEMMA MulSuccessor ==
    ASSUME NEW p \in Int
    PROVE  (p + 1) * Frame = p * Frame + Frame
  BY SMTT(30)

\* The half of a length is a natural number below it.
LEMMA Half ==
    ASSUME NEW k \in Int, k >= 1
    PROVE  k \div 2 \in Nat /\ k \div 2 < k
  OBVIOUS

\* The frames of the audio cover it.
LEMMA FramesCover ==
    ASSUME NEW len \in Nat
    PROVE  Frames(len) \in Nat /\ len <= Frames(len) * Frame
<1>1. len + Frame - 1 \in Int
  OBVIOUS
<1> DEFINE q == (len + Frame - 1) \div Frame
<1>2. /\ q \in Int
      /\ q * Frame <= len + Frame - 1
      /\ len + Frame - 1 < q * Frame + Frame
  BY <1>1, DivBounds
<1>3. q >= 0
  <2>1. SUFFICES ASSUME q + 1 <= 0 PROVE FALSE
    BY <1>2
  <2>2. (q + 1) * Frame <= 0 * Frame
    BY <1>2, <2>1, MulMonotone
  <2>3. QED BY <1>2, <2>2, MulSuccessor
<1>4. QED BY <1>2, <1>3 DEF Frames

Reasons ==
    {"none", "tail", "vad_gap", "fallback_hard_limit", "forced_progress"}

\* The parts of the type of the state that arithmetic needs.
NumberTypes ==
    /\ n \in Nat
    /\ set.max \in Int
    /\ set.back \in Int
    /\ set.gap \in Nat \ {0}
    /\ start \in Int
    /\ fi \in Int
    /\ gap_start \in Int
    /\ best.len \in Nat
    /\ best.mid \in Nat
    /\ span.start \in Int
    /\ span.end \in Int

\* The type invariant has the parts that arithmetic needs.
LEMMA TypesOfNumbers == TypeOK => NumberTypes
  BY DEF TypeOK, NumberTypes

\* The bounds of the search range are numbers.
LEMMA RangeTypes ==
    ASSUME NumberTypes
    PROVE  HardEnd \in Int /\ FirstFrame \in Int /\ EndFrame \in Int
<1>1. Frames(n) \in Nat
  BY FramesCover DEF NumberTypes
<1>2. HardEnd \in Int
  BY <1>1 DEF NumberTypes, HardEnd, Minimum
<1>3. Maximum(start, HardEnd - set.back) \in Int
  BY <1>2 DEF NumberTypes, Maximum
<1>4. FirstFrame \in Int
  BY <1>3, DivBounds DEF FirstFrame
<1>5. (HardEnd + Frame - 1) \div Frame \in Int
  BY <1>2, DivBounds
<1>6. EndFrame \in Int
  BY <1>1, <1>4, <1>5 DEF EndFrame, Minimum, Maximum
<1>7. QED BY <1>2, <1>4, <1>6

-----------------------------------------------------------------------------
\* Where the planning stands: the next span starts where the last one ended.
Position ==
    /\ start <= n
    /\ PositiveLimit => 0 <= start /\ (at # "done" => span.end = start)

\* The scan only runs for a span that is longer than the limit.
Searching == at = "scan" => start < n /\ n - start > set.max /\ HardEnd > start

\* The pause the scan is in: nothing but silence since gap_start.
InPause ==
    at = "scan" =>
        /\ FirstFrame <= fi
        /\ fi # FirstFrame => fi <= EndFrame
        /\ gap_start # -1 =>
               /\ FirstFrame <= gap_start
               /\ gap_start < fi
               /\ \A f \in Int : gap_start <= f /\ f < fi => f \notin speech

\* The middle of the best pause so far is a silent frame of the search range.
SilentMiddle(b) ==
    b.len > 0 => FirstFrame <= b.mid /\ b.mid < EndFrame /\ b.mid \notin speech

BestIsSilent == at = "scan" => SilentMiddle(best)

IInv ==
    TypeOK /\ Position /\ Searching /\ InPause /\ BestIsSilent /\ CutsInSilence

\* A scan has a positive limit and looks at frames of the audio.
LEMMA ScanIsPositive ==
    ASSUME NumberTypes, Position, HardEnd > start
    PROVE  PositiveLimit /\ 0 <= start /\ 0 <= FirstFrame
<1> USE DEF NumberTypes
<1>1. HardEnd \in Int /\ Frames(n) \in Nat
  BY RangeTypes, FramesCover
<1>2. HardEnd <= start + set.max
  BY <1>1 DEF HardEnd, Minimum
<1>3. PositiveLimit /\ 0 <= start
  BY <1>1, <1>2 DEF PositiveLimit, Position
<1>4. /\ Maximum(start, HardEnd - set.back) \in Int
      /\ 0 <= Maximum(start, HardEnd - set.back)
  BY <1>1, <1>3 DEF Maximum
<1>5. /\ FirstFrame \in Int
      /\ Maximum(start, HardEnd - set.back) < FirstFrame * Frame + Frame
  BY <1>4, DivBounds DEF FirstFrame
<1>6. 0 <= FirstFrame
  <2>1. SUFFICES ASSUME FirstFrame + 1 <= 0 PROVE FALSE
    BY <1>5
  <2>2. (FirstFrame + 1) * Frame <= 0 * Frame
    BY <1>5, <2>1, MulMonotone
  <2>3. QED BY <1>4, <1>5, <2>2, MulSuccessor
<1>7. QED BY <1>3, <1>6

\* Comparing the pause that ends at a frame keeps the best pause silent.
LEMMA CompareKeepsSilence ==
    ASSUME NumberTypes, NEW e \in Int, e <= EndFrame, 0 <= FirstFrame,
           best \in [len : Nat, mid : Nat], SilentMiddle(best),
           gap_start # -1 =>
               /\ FirstFrame <= gap_start
               /\ gap_start < e
               /\ \A f \in Int : gap_start <= f /\ f < e => f \notin speech
    PROVE  Compare(e) \in [len : Nat, mid : Nat] /\ SilentMiddle(Compare(e))
<1> USE DEF NumberTypes
<1> DEFINE k == e - gap_start
           b == [len |-> k, mid |-> gap_start + k \div 2]
<1>1. CASE gap_start # -1 /\ k >= set.gap /\ k > best.len
  <2>1. Compare(e) = b
    BY <1>1 DEF Compare
  <2>2. k \in Int /\ k >= 1
    BY <1>1
  <2>3. k \div 2 \in Nat /\ k \div 2 < k
    BY <2>2, Half
  <2>4. FirstFrame \in Int /\ EndFrame \in Int
    BY RangeTypes
  <2>5. b.mid = gap_start + k \div 2 /\ b.len = k
    OBVIOUS
  <2>6. b.mid \in Nat /\ FirstFrame <= b.mid /\ b.mid < e /\ gap_start <= b.mid
    <3> HIDE DEF b
    <3>1. k = e - gap_start
      OBVIOUS
    <3> HIDE DEF k
    <3> QED BY <1>1, <2>3, <2>4, <2>5, <3>1
  <2>7. b.mid \notin speech
    BY <1>1, <2>6
  <2>8. b.mid < EndFrame
    BY <2>4, <2>6
  <2>9. b \in [len : Nat, mid : Nat]
    BY <2>2, <2>6
  <2>10. SilentMiddle(b)
    BY <2>6, <2>7, <2>8 DEF SilentMiddle
  <2>11. QED BY <2>1, <2>9, <2>10
<1>2. CASE ~(gap_start # -1 /\ k >= set.gap /\ k > best.len)
  BY <1>2 DEF Compare
<1>3. QED BY <1>1, <1>2

\* The cut at the middle of the best pause of a scan.
PauseCut(mid) == Minimum(HardEnd, Maximum(start + 1, mid * Frame))

\* The clamping leaves the cut inside the span and beside the silence.
LEMMA PauseCutIsSilent ==
    ASSUME NumberTypes, Position, HardEnd > start,
           NEW mid \in Nat, FirstFrame <= mid, mid < EndFrame,
           mid \notin speech
    PROVE  /\ PauseCut(mid) \in Int
           /\ start < PauseCut(mid) /\ PauseCut(mid) <= HardEnd
           /\ set.back >= 0 =>
                  \/ (PauseCut(mid) \div Frame) \notin speech
                  \/ /\ PauseCut(mid) = start + 1
                     /\ (start \div Frame) \notin speech
<1> USE DEF NumberTypes
<1> DEFINE m == mid * Frame
           from == Maximum(start, HardEnd - set.back)
           C == (HardEnd + Frame - 1) \div Frame
<1>1. HardEnd \in Int /\ FirstFrame \in Int /\ EndFrame \in Int
  BY RangeTypes
<1>2. m \in Int
  OBVIOUS
<1>3. PauseCut(mid) = Minimum(HardEnd, Maximum(start + 1, m))
  BY DEF PauseCut
<1>4. from \in Int /\ start <= from
  BY <1>1 DEF Maximum
<1>5. FirstFrame * Frame <= from /\ from < FirstFrame * Frame + Frame
  BY <1>4, DivBounds DEF FirstFrame
<1>6. C \in Int /\ C * Frame <= HardEnd + Frame - 1
  <2>1. HardEnd + Frame - 1 \in Int
    BY <1>1
  <2>2. QED BY <2>1, DivBounds
<1>7. FirstFrame * Frame \in Int /\ FirstFrame * Frame <= m
  BY <1>1, MulMonotone
<1> HIDE DEF m, C
<1>8. /\ PauseCut(mid) \in Int
      /\ start < PauseCut(mid) /\ PauseCut(mid) <= HardEnd
  BY <1>1, <1>2, <1>3 DEF Minimum, Maximum
<1>9. ASSUME set.back >= 0
      PROVE  m <= HardEnd
  <2>1. from <= HardEnd
    BY <1>1, <1>9 DEF Maximum
  <2>2. CASE mid < C
    <3>1. (mid + 1) * Frame <= C * Frame
      BY <1>6, <2>2, MulMonotone
    <3>2. (mid + 1) * Frame = m + Frame
      BY MulSuccessor DEF m
    <3>3. C * Frame \in Int
      BY <1>6
    <3>4. QED BY <1>1, <1>2, <1>6, <3>1, <3>2, <3>3
  <2>3. CASE ~(mid < C)
    <3>1. Frames(n) \in Nat
      BY FramesCover
    <3>2. EndFrame <= Maximum(FirstFrame + 1, C)
      BY <1>1, <1>6, <3>1 DEF EndFrame, Minimum, Maximum, C
    <3>3. mid = FirstFrame
      BY <1>1, <1>6, <2>3, <3>2 DEF Maximum
    <3>4. m = FirstFrame * Frame
      BY <3>3 DEF m
    <3>5. QED BY <1>1, <1>2, <1>4, <1>5, <2>1, <3>4
  <2>4. QED BY <2>2, <2>3
<1>10. ASSUME set.back >= 0, m >= start + 1
       PROVE  (PauseCut(mid) \div Frame) \notin speech
  <2>1. PauseCut(mid) = m
    BY <1>1, <1>2, <1>3, <1>9, <1>10 DEF Minimum, Maximum
  <2>2. m \div Frame = mid
    BY <1>2, DivUnique DEF m
  <2>3. QED BY <2>1, <2>2
<1>11. ASSUME set.back >= 0, m <= start
       PROVE  PauseCut(mid) = start + 1 /\ (start \div Frame) \notin speech
  <2>1. PauseCut(mid) = start + 1
    BY <1>1, <1>2, <1>3, <1>11 DEF Minimum, Maximum
  <2>2. start < m + Frame
    BY <1>2, <1>4, <1>5, <1>7
  <2>3. start \div Frame = mid
    BY <1>11, <2>2, DivUnique DEF m
  <2>4. QED BY <2>1, <2>3
<1>12. m >= start + 1 \/ m <= start
  BY <1>2
<1>13. QED BY <1>8, <1>10, <1>11, <1>12

-----------------------------------------------------------------------------
\* Planning starts at the beginning of the audio.
LEMMA InitIInv == Init => IInv
<1> SUFFICES ASSUME Init PROVE IInv
  OBVIOUS
<1>1. TypeOK
  <2>1. /\ set \in Settings /\ n \in Lengths
        /\ speech \subseteq 0..(Frames(n) - 1)
    BY Zenon DEF Init
  <2>2. /\ at \in {"plan", "scan", "done"}
        /\ start \in Int /\ fi \in Int /\ gap_start \in Int
    BY DEF Init
  <2>3. best \in [len : Nat, mid : Nat]
    BY DEF Init, NoPause
  <2>4. span \in [start : Int, end : Int, reason : Reasons]
    BY DEF Init, Reasons
  <2>5. QED BY <2>1, <2>2, <2>3, <2>4 DEF TypeOK, Reasons
<1>2. Position
  BY DEF Init, Position
<1>3. Searching /\ InPause /\ BestIsSilent
  BY DEF Init, Searching, InPause, BestIsSilent
<1>4. CutsInSilence
  BY DEF Init, CutsInSilence
<1>5. QED BY <1>1, <1>2, <1>3, <1>4 DEF IInv

\* What an appended span ending at `end` has to satisfy.
LEMMA EmitKeeps ==
    ASSUME IInv, NEW end \in Int, NEW reason \in Reasons, Emit(end, reason),
           end <= n, PositiveLimit => start <= end,
           UNCHANGED <<set, n, speech>>, at' = "plan",
           fi' = fi, gap_start' = gap_start,
           best' \in [len : Nat, mid : Nat],
           set.back >= 0 /\ reason = "vad_gap" =>
               \/ (end \div Frame) \notin speech
               \/ end = start + 1 /\ (start \div Frame) \notin speech
    PROVE  IInv'
<1>1. /\ span' = [start |-> start, end |-> end, reason |-> reason]
      /\ start' = end
  BY DEF Emit
<1>2. start \in Int
  BY DEF IInv, TypeOK
<1>3. span' \in [start : Int, end : Int, reason : Reasons]
  BY <1>1, <1>2
<1>4. TypeOK'
  <2>1. set' \in Settings /\ n' \in Lengths
    BY DEF IInv, TypeOK
  <2>2. (speech \subseteq 0..(Frames(n) - 1))'
    BY DEF IInv, TypeOK, Frames
  <2>3. fi' \in Int /\ gap_start' \in Int /\ start' \in Int
    BY <1>1 DEF IInv, TypeOK
  <2>4. QED BY <1>3, <2>1, <2>2, <2>3 DEF TypeOK, Reasons
<1>5. Position'
  BY <1>1, <1>2 DEF IInv, TypeOK, Position, PositiveLimit
<1>6. (Searching /\ InPause /\ BestIsSilent)'
  BY DEF Searching, InPause, BestIsSilent
<1>7. CutsInSilence'
  BY <1>1 DEF CutsInSilence
<1>8. QED BY <1>4, <1>5, <1>6, <1>7 DEF IInv

\* The state of a scan that a step leaves or takes.
LEMMA ScanFacts ==
    ASSUME IInv, at = "scan"
    PROVE  /\ NumberTypes /\ Position
           /\ HardEnd > start /\ HardEnd <= start + set.max /\ HardEnd < n
           /\ PositiveLimit /\ 0 <= start /\ 0 <= FirstFrame
           /\ HardEnd \in Int /\ FirstFrame \in Int /\ EndFrame \in Int
<1>1. NumberTypes /\ Position /\ HardEnd > start /\ n - start > set.max
  BY TypesOfNumbers DEF IInv, Searching
<1>2. /\ PositiveLimit /\ 0 <= start /\ 0 <= FirstFrame
      /\ HardEnd \in Int /\ FirstFrame \in Int /\ EndFrame \in Int
  BY <1>1, ScanIsPositive, RangeTypes
<1>3. HardEnd <= start + set.max
  BY <1>1, FramesCover DEF HardEnd, Minimum, NumberTypes
<1>4. QED BY <1>1, <1>2, <1>3 DEF NumberTypes

\* At the end of a scan, the pause it is in reaches the end of the range.
LEMMA LastPause ==
    ASSUME IInv, at = "scan", fi >= EndFrame
    PROVE  /\ Compare(EndFrame) \in [len : Nat, mid : Nat]
           /\ SilentMiddle(Compare(EndFrame))
<1>1. /\ NumberTypes /\ 0 <= FirstFrame
      /\ FirstFrame \in Int /\ EndFrame \in Int
  BY ScanFacts
<1>2. gap_start # -1 => fi = EndFrame
  BY <1>1 DEF IInv, InPause, NumberTypes
<1>3. gap_start # -1 =>
          /\ FirstFrame <= gap_start
          /\ gap_start < EndFrame
          /\ \A f \in Int : gap_start <= f /\ f < EndFrame => f \notin speech
  BY <1>2 DEF IInv, InPause
<1>4. best \in [len : Nat, mid : Nat] /\ SilentMiddle(best)
  BY DEF IInv, TypeOK, BestIsSilent
<1>5. EndFrame <= EndFrame
  BY <1>1
<1>6. QED BY <1>1, <1>3, <1>4, <1>5, CompareKeepsSilence

\* A cut keeps the invariant.
LEMMA CutKeeps == IInv /\ Cut => IInv'
<1> SUFFICES ASSUME IInv, Cut PROVE IInv'
  OBVIOUS
<1> DEFINE b == Compare(EndFrame)
<1>1. /\ at = "scan" /\ fi >= EndFrame /\ best' = b /\ at' = "plan"
      /\ UNCHANGED <<set, n, speech>> /\ fi' = fi /\ gap_start' = gap_start
  BY DEF Cut
<1>2. /\ NumberTypes /\ Position
      /\ HardEnd > start /\ HardEnd < n
      /\ PositiveLimit
      /\ HardEnd \in Int
  BY <1>1, ScanFacts
<1>3. b \in [len : Nat, mid : Nat] /\ SilentMiddle(b)
  BY <1>1, LastPause
<1> HIDE DEF b
<1>4. start \in Int /\ n \in Int
  BY <1>2 DEF NumberTypes
<1>5. CASE b.len > 0
  <2>1. /\ b.mid \in Nat /\ FirstFrame <= b.mid /\ b.mid < EndFrame
        /\ b.mid \notin speech
    BY <1>3, <1>5 DEF SilentMiddle
  <2>2. /\ PauseCut(b.mid) \in Int
        /\ start < PauseCut(b.mid) /\ PauseCut(b.mid) <= HardEnd
        /\ set.back >= 0 =>
               \/ (PauseCut(b.mid) \div Frame) \notin speech
               \/ /\ PauseCut(b.mid) = start + 1
                  /\ (start \div Frame) \notin speech
    BY <1>2, <2>1, PauseCutIsSilent
  <2>3. TakeCut(PauseCut(b.mid), "vad_gap")
    BY <1>1, <1>5 DEF Cut, PauseCut, b
  <2>4. Emit(PauseCut(b.mid), "vad_gap")
    BY <1>4, <2>2, <2>3 DEF TakeCut
  <2>5. PauseCut(b.mid) <= n /\ start <= PauseCut(b.mid)
    BY <1>2, <1>4, <2>2
  <2>6. "vad_gap" \in Reasons
    BY DEF Reasons
  <2>7. QED BY <1>1, <1>3, <2>2, <2>4, <2>5, <2>6, EmitKeeps
<1>6. CASE ~(b.len > 0)
  <2>1. TakeCut(HardEnd, "fallback_hard_limit")
    BY <1>1, <1>6 DEF Cut, b
  <2>2. Emit(HardEnd, "fallback_hard_limit")
    BY <1>2, <1>4, <2>1 DEF TakeCut
  <2>3. HardEnd <= n /\ start <= HardEnd
    BY <1>2, <1>4
  <2>4. "fallback_hard_limit" \in Reasons
    BY DEF Reasons
  <2>5. QED BY <1>1, <1>2, <1>3, <2>2, <2>3, <2>4, EmitKeeps
<1>7. QED BY <1>5, <1>6

\* A forced cut keeps the invariant.
LEMMA ForceCutKeeps == IInv /\ ForceCut => IInv'
<1> SUFFICES ASSUME IInv, ForceCut PROVE IInv'
  OBVIOUS
<1> DEFINE end == Minimum(n, start + set.max)
<1>1. NumberTypes
  BY TypesOfNumbers DEF IInv
<1>2. /\ at = "plan" /\ start < n
      /\ UNCHANGED <<set, n, speech>> /\ at' = "plan"
      /\ fi' = fi /\ gap_start' = gap_start /\ best' = best
      /\ TakeCut(start, "empty")
  BY DEF ForceCut, scanVars
<1>3. Emit(end, "forced_progress")
  BY <1>1, <1>2 DEF TakeCut, NumberTypes
<1>4. end \in Int /\ end <= n
  BY <1>1 DEF NumberTypes, Minimum
<1>5. PositiveLimit => start <= end
  BY <1>1, <1>2 DEF NumberTypes, Minimum, PositiveLimit
<1>6. best' \in [len : Nat, mid : Nat]
  BY <1>2 DEF IInv, TypeOK
<1>7. "forced_progress" \in Reasons /\ "forced_progress" # "vad_gap"
  BY DEF Reasons
<1> HIDE DEF end
<1>8. QED BY <1>2, <1>3, <1>4, <1>5, <1>6, <1>7, EmitKeeps

\* A scan begins with a search range and without a pause.
LEMMA BeginScanKeeps == IInv /\ BeginScan => IInv'
<1> SUFFICES ASSUME IInv, BeginScan PROVE IInv'
  OBVIOUS
<1>1. NumberTypes /\ FirstFrame \in Int
  BY TypesOfNumbers, RangeTypes DEF IInv
<1>2. /\ at = "plan" /\ start < n /\ n - start > set.max /\ HardEnd > start
      /\ at' = "scan" /\ fi' = FirstFrame /\ gap_start' = -1 /\ best' = NoPause
      /\ UNCHANGED <<set, n, speech, start, span>>
  BY DEF BeginScan
<1>3. HardEnd' = HardEnd /\ FirstFrame' = FirstFrame
  BY <1>2 DEF HardEnd, FirstFrame, Frames, Minimum, Maximum
<1>4. TypeOK'
  <2>1. /\ set' \in Settings /\ n' \in Lengths
        /\ (speech \subseteq 0..(Frames(n) - 1))'
        /\ start' \in Int
    BY <1>2 DEF IInv, TypeOK, Frames
  <2>2. at' \in {"plan", "scan", "done"} /\ fi' \in Int /\ gap_start' \in Int
    BY <1>1, <1>2
  <2>3. best' \in [len : Nat, mid : Nat]
    BY <1>2 DEF NoPause
  <2>4. span' \in [start : Int, end : Int, reason : Reasons]
    BY <1>2 DEF IInv, TypeOK, Reasons
  <2>5. QED BY <2>1, <2>2, <2>3, <2>4 DEF TypeOK, Reasons
<1>5. Position'
  BY <1>2 DEF IInv, Position, PositiveLimit
<1>6. Searching'
  BY <1>2, <1>3 DEF Searching
<1>7. InPause'
  BY <1>1, <1>2, <1>3 DEF InPause
<1>8. BestIsSilent'
  BY <1>2 DEF BestIsSilent, SilentMiddle, NoPause
<1>9. CutsInSilence'
  BY <1>2 DEF IInv, CutsInSilence
<1>10. QED BY <1>4, <1>5, <1>6, <1>7, <1>8, <1>9 DEF IInv

\* Looking at a frame keeps the pause and the best one silent.
LEMMA ScanFrameKeeps == IInv /\ ScanFrame => IInv'
<1> SUFFICES ASSUME IInv, ScanFrame PROVE IInv'
  OBVIOUS
<1>1. /\ at = "scan" /\ fi < EndFrame /\ fi' = fi + 1
      /\ UNCHANGED <<set, n, speech, at, start, span>>
  BY DEF ScanFrame
<1>2. /\ NumberTypes /\ 0 <= FirstFrame
      /\ FirstFrame \in Int /\ EndFrame \in Int
  BY <1>1, ScanFacts
<1>3. HardEnd' = HardEnd /\ FirstFrame' = FirstFrame /\ EndFrame' = EndFrame
  BY <1>1 DEF HardEnd, FirstFrame, EndFrame, Frames, Minimum, Maximum
<1>4. /\ best \in [len : Nat, mid : Nat] /\ SilentMiddle(best)
      /\ fi \in Int /\ gap_start \in Int
      /\ FirstFrame <= fi
      /\ gap_start # -1 =>
             /\ FirstFrame <= gap_start
             /\ gap_start < fi
             /\ \A f \in Int : gap_start <= f /\ f < fi => f \notin speech
  BY <1>1 DEF IInv, TypeOK, BestIsSilent, InPause
<1>5. fi <= EndFrame
  BY <1>1, <1>2, <1>4
<1>6. /\ best' \in [len : Nat, mid : Nat] /\ SilentMiddle(best')
      /\ gap_start' \in Int
      /\ gap_start' # -1 =>
             /\ FirstFrame <= gap_start'
             /\ gap_start' < fi + 1
             /\ \A f \in Int : gap_start' <= f /\ f < fi + 1 => f \notin speech
  <2>1. CASE fi \in speech
    <3>1. best' = Compare(fi) /\ gap_start' = -1
      BY <2>1 DEF ScanFrame
    <3>2. Compare(fi) \in [len : Nat, mid : Nat] /\ SilentMiddle(Compare(fi))
      BY <1>2, <1>4, <1>5, CompareKeepsSilence
    <3>3. QED BY <3>1, <3>2
  <2>2. CASE fi \notin speech
    <3>1. best' = best /\ gap_start' = IF gap_start = -1 THEN fi ELSE gap_start
      BY <2>2 DEF ScanFrame
    <3>2. CASE gap_start = -1
      BY <1>2, <1>4, <2>2, <3>1, <3>2
    <3>3. CASE gap_start # -1
      <4>1. gap_start' = gap_start
        BY <3>1, <3>3
      <4>2. \A f \in Int : gap_start <= f /\ f < fi + 1 => f \notin speech
        BY <1>4, <2>2, <3>3
      <4>3. QED BY <1>2, <1>4, <3>1, <3>3, <4>1, <4>2
    <3>4. QED BY <3>2, <3>3
  <2>3. QED BY <2>1, <2>2
<1>7. TypeOK'
  <2>1. /\ set' \in Settings /\ n' \in Lengths
        /\ (speech \subseteq 0..(Frames(n) - 1))'
        /\ start' \in Int
    BY <1>1 DEF IInv, TypeOK, Frames
  <2>2. at' \in {"plan", "scan", "done"} /\ fi' \in Int
    BY <1>1, <1>4
  <2>3. span' \in [start : Int, end : Int, reason : Reasons]
    BY <1>1 DEF IInv, TypeOK, Reasons
  <2>4. QED BY <1>6, <2>1, <2>2, <2>3 DEF TypeOK, Reasons
<1>8. Position'
  BY <1>1 DEF IInv, Position, PositiveLimit
<1>9. Searching'
  BY <1>1, <1>3 DEF IInv, Searching
<1>10. InPause'
  <2>1. FirstFrame <= fi + 1 /\ fi + 1 <= EndFrame
    BY <1>1, <1>2, <1>4
  <2>2. QED BY <1>1, <1>3, <1>6, <2>1 DEF InPause
<1>11. BestIsSilent'
  BY <1>1, <1>3, <1>6 DEF BestIsSilent, SilentMiddle
<1>12. CutsInSilence'
  BY <1>1 DEF IInv, CutsInSilence
<1>13. QED BY <1>7, <1>8, <1>9, <1>10, <1>11, <1>12 DEF IInv

\* The two ways in which the planning ends.
LEMMA EndKeeps == IInv /\ (PlanEnds \/ Tail) => IInv'
<1> SUFFICES ASSUME IInv, PlanEnds \/ Tail PROVE IInv'
  OBVIOUS
<1>1. /\ at' = "done"
      /\ UNCHANGED <<set, n, speech, start, fi, gap_start, best>>
      /\ \/ span' = span
         \/ span' = [start |-> start, end |-> n, reason |-> "tail"]
  BY DEF PlanEnds, Tail, scanVars
<1>2. start \in Int /\ n \in Int
  BY TypesOfNumbers DEF IInv, NumberTypes
<1>3. TypeOK'
  <2>1. /\ set' \in Settings /\ n' \in Lengths
        /\ (speech \subseteq 0..(Frames(n) - 1))'
    BY <1>1 DEF IInv, TypeOK, Frames
  <2>2. /\ at' \in {"plan", "scan", "done"} /\ start' \in Int
        /\ fi' \in Int /\ gap_start' \in Int
        /\ best' \in [len : Nat, mid : Nat]
    BY <1>1 DEF IInv, TypeOK
  <2>3. span' \in [start : Int, end : Int, reason : Reasons]
    BY <1>1, <1>2 DEF IInv, TypeOK, Reasons
  <2>4. QED BY <2>1, <2>2, <2>3 DEF TypeOK, Reasons
<1>4. Position'
  BY <1>1 DEF IInv, Position, PositiveLimit
<1>5. (Searching /\ InPause /\ BestIsSilent)'
  BY <1>1 DEF Searching, InPause, BestIsSilent
<1>6. CutsInSilence'
  BY <1>1 DEF IInv, CutsInSilence
<1>7. QED BY <1>3, <1>4, <1>5, <1>6 DEF IInv

\* The invariant is about the variables of the planning alone.
LEMMA StutterKeeps == IInv /\ UNCHANGED vars => IInv'
<1> SUFFICES ASSUME IInv, UNCHANGED vars PROVE IInv'
  OBVIOUS
<1>1. UNCHANGED <<set, n, speech, at, start, fi, gap_start, best, span>>
  BY DEF vars, scanVars
<1>2. TypeOK' /\ Position' /\ CutsInSilence'
  BY <1>1 DEF IInv, TypeOK, Position, CutsInSilence, Frames, PositiveLimit
<1>3. HardEnd' = HardEnd /\ FirstFrame' = FirstFrame /\ EndFrame' = EndFrame
  BY <1>1 DEF HardEnd, FirstFrame, EndFrame, Frames, Minimum, Maximum
<1>4. Searching' /\ InPause' /\ BestIsSilent'
  BY <1>1, <1>3 DEF IInv, Searching, InPause, BestIsSilent, SilentMiddle
<1>5. QED BY <1>2, <1>4 DEF IInv

\* The invariant holds at all times, for every setting and outcome of the
\* VAD (speech_cut.py 152-279).
THEOREM Inductive == Spec => []IInv
<1>1. IInv /\ [Next]_vars => IInv'
  BY CutKeeps, ForceCutKeeps, BeginScanKeeps, ScanFrameKeeps, EndKeeps,
     StutterKeeps DEF Next
<1>2. QED BY InitIInv, <1>1, PTL DEF Spec

-----------------------------------------------------------------------------
\* The types hold for every setting; the middle of a pause is never a
\* negative frame.
THEOREM TypeCorrect == Spec => []TypeOK
<1>1. IInv => TypeOK
  BY DEF IInv
<1>2. QED BY Inductive, <1>1, PTL

\* Cuts at a pause fall in silence, or end a silent span of one sample.
THEOREM SilentCuts == Spec => []CutsInSilence
<1>1. IInv => CutsInSilence
  BY DEF IInv
<1>2. QED BY Inductive, <1>1, PTL

\* What each appended span adds to the partition.
PartitionStep ==
    PositiveLimit /\ span' # span =>
        /\ span'.start = span.end
        /\ span'.start < span'.end
        /\ span'.end <= n
        /\ span'.end - span'.start <= set.max
        /\ at' = "done" => span'.end = n

\* A span that ends ahead, within limit and audio, extends the partition.
LEMMA EmitExtends ==
    ASSUME IInv, NEW end \in Int, NEW reason \in Reasons, Emit(end, reason),
           at # "done", at' # "done",
           start < end, end <= n, end <= start + set.max
    PROVE  PartitionStep
<1>1. span' = [start |-> start, end |-> end, reason |-> reason]
  BY DEF Emit
<1>2. NumberTypes /\ Position
  BY TypesOfNumbers DEF IInv
<1>3. QED BY <1>1, <1>2 DEF PartitionStep, Position, NumberTypes

\* The span of a scan extends the partition.
LEMMA CutExtends ==
    ASSUME IInv, Cut
    PROVE  PartitionStep
<1> DEFINE b == Compare(EndFrame)
<1>1. at = "scan" /\ fi >= EndFrame /\ best' = b /\ at' = "plan"
  BY DEF Cut
<1>2. /\ NumberTypes /\ Position
      /\ HardEnd > start /\ HardEnd < n /\ HardEnd <= start + set.max
      /\ HardEnd \in Int
  BY <1>1, ScanFacts
<1>3. b \in [len : Nat, mid : Nat] /\ SilentMiddle(b)
  BY <1>1, LastPause
<1> HIDE DEF b
<1>4. start \in Int /\ n \in Int /\ set.max \in Int
  BY <1>2 DEF NumberTypes
<1>5. CASE b.len > 0
  <2>1. /\ b.mid \in Nat /\ FirstFrame <= b.mid /\ b.mid < EndFrame
        /\ b.mid \notin speech
    BY <1>3, <1>5 DEF SilentMiddle
  <2>2. /\ PauseCut(b.mid) \in Int
        /\ start < PauseCut(b.mid) /\ PauseCut(b.mid) <= HardEnd
    BY <1>2, <2>1, PauseCutIsSilent
  <2>3. TakeCut(PauseCut(b.mid), "vad_gap")
    BY <1>1, <1>5 DEF Cut, PauseCut, b
  <2>4. Emit(PauseCut(b.mid), "vad_gap")
    BY <1>4, <2>2, <2>3 DEF TakeCut
  <2>5. PauseCut(b.mid) <= n /\ PauseCut(b.mid) <= start + set.max
    BY <1>2, <1>4, <2>2
  <2>6. "vad_gap" \in Reasons
    BY DEF Reasons
  <2>7. QED BY <1>1, <2>2, <2>4, <2>5, <2>6, EmitExtends
<1>6. CASE ~(b.len > 0)
  <2>1. TakeCut(HardEnd, "fallback_hard_limit")
    BY <1>1, <1>6 DEF Cut, b
  <2>2. Emit(HardEnd, "fallback_hard_limit")
    BY <1>2, <1>4, <2>1 DEF TakeCut
  <2>3. "fallback_hard_limit" \in Reasons /\ HardEnd <= n
    BY <1>2, <1>4 DEF Reasons
  <2>4. QED BY <1>1, <1>2, <2>2, <2>3, EmitExtends
<1>7. QED BY <1>5, <1>6

\* The spans partition the audio and respect the limit, for every positive
\* limit: find_cut_sample never needs its caller to force a cut.
THEOREM SpansArePartition == Spec => SpansPartition
<1>1. ASSUME IInv, [Next]_vars PROVE [PartitionStep]_vars
  <2>1. NumberTypes /\ Position
    BY <1>1, TypesOfNumbers DEF IInv
  <2>2. CASE Cut
    BY <1>1, <2>2, CutExtends
  <2>3. CASE ForceCut
    <3>1. start < n /\ n - start > set.max /\ HardEnd <= start
      BY <2>3 DEF ForceCut
    <3>2. Frames(n) \in Nat /\ n <= Frames(n) * Frame
      BY <2>1, FramesCover DEF NumberTypes
    <3>3. ~PositiveLimit
      <4>1. Frames(n) * Frame \in Int
        BY <3>2
      <4>2. QED BY <2>1, <3>1, <3>2, <4>1
                   DEF HardEnd, Minimum, PositiveLimit, NumberTypes
    <3>4. QED BY <3>3 DEF PartitionStep
  <2>4. CASE Tail
    <3>1. /\ at = "plan" /\ start < n /\ n - start <= set.max
          /\ span' = [start |-> start, end |-> n, reason |-> "tail"]
      BY <2>4 DEF Tail
    <3>2. QED BY <2>1, <3>1 DEF PartitionStep, Position, NumberTypes
  <2>5. CASE PlanEnds \/ BeginScan \/ ScanFrame
    <3>1. span' = span
      BY <2>5 DEF PlanEnds, BeginScan, ScanFrame
    <3>2. QED BY <3>1 DEF PartitionStep
  <2>6. QED BY <1>1, <2>2, <2>3, <2>4, <2>5 DEF Next
<1>2. QED BY <1>1, Inductive, PTL DEF Spec, SpansPartition, PartitionStep
-----------------------------------------------------------------------------
\* A pause that has ended before frame e.
Ended(p, e) == p \in LongPauses /\ p[2] <= e

Length(p) == p[2] - p[1]

\* The pause p comes first in the scan's order: longer, or as long and earlier.
Before(p, q) ==
    \/ Length(q) < Length(p)
    \/ Length(q) = Length(p) /\ q[1] >= p[1]

\* b is the first of the pauses that have ended by frame e.
BestOf(b, e) ==
    IF b.len = 0
    THEN \A q : ~Ended(q, e)
    ELSE \E p \in LongPauses :
             /\ p[2] <= e
             /\ b = [len |-> Length(p), mid |-> p[1] + Length(p) \div 2]
             /\ \A q : Ended(q, e) => Before(p, q)

\* The scan is in a pause since the first of its frames; in none at its
\* beginning and after speech.
AtItsStart ==
    IF gap_start # -1
    THEN gap_start = FirstFrame \/ gap_start - 1 \in speech
    ELSE fi = FirstFrame \/ fi - 1 \in speech

ScanInv == at = "scan" => AtItsStart /\ BestOf(best, fi - 1)

\* What membership in LongPauses says of the two frames of a pause.
LEMMA PauseFacts ==
    ASSUME FirstFrame \in Int, EndFrame \in Int, NEW q \in LongPauses
    PROVE  /\ q[1] \in Int /\ q[2] \in Int
           /\ FirstFrame <= q[1] /\ q[1] < q[2] /\ q[2] <= EndFrame
           /\ \A f \in Int : q[1] <= f /\ f < q[2] => f \notin speech
           /\ q[1] = FirstFrame \/ q[1] - 1 \in speech
           /\ q[2] = EndFrame \/ q[2] \in speech
           /\ Length(q) >= set.gap
           /\ q = <<q[1], q[2]>>
<1>1. q \in (FirstFrame..EndFrame) \X (FirstFrame..EndFrame)
  BY DEF LongPauses, Pauses
<1>2. /\ q[1] \in FirstFrame..EndFrame /\ q[2] \in FirstFrame..EndFrame
      /\ q = <<q[1], q[2]>>
  BY <1>1
<1>3. /\ q[1] < q[2]
      /\ \A f \in q[1]..(q[2] - 1) : f \notin speech
      /\ q[1] = FirstFrame \/ q[1] - 1 \in speech
      /\ q[2] = EndFrame \/ q[2] \in speech
      /\ q[2] - q[1] >= set.gap
  BY DEF LongPauses, Pauses
<1>4. ASSUME NEW f \in Int, q[1] <= f, f < q[2] PROVE f \notin speech
  <2>1. f \in q[1]..(q[2] - 1)
    BY <1>2, <1>4
  <2>2. QED BY <1>3, <2>1
<1>5. QED BY <1>2, <1>3, <1>4 DEF Length

\* The only pause that can end at frame e is the one the scan is in.
LEMMA OnlyThisPause ==
    ASSUME NumberTypes, FirstFrame \in Int, EndFrame \in Int,
           InPause, AtItsStart, at = "scan",
           NEW q \in LongPauses, q[2] = fi
    PROVE  gap_start # -1 /\ q[1] = gap_start
<1> USE DEF NumberTypes
<1>1. /\ q[1] \in Int /\ FirstFrame <= q[1] /\ q[1] < fi
      /\ \A f \in Int : q[1] <= f /\ f < fi => f \notin speech
      /\ q[1] = FirstFrame \/ q[1] - 1 \in speech
  BY PauseFacts
<1>2. fi - 1 \notin speech /\ fi # FirstFrame
  BY <1>1
<1>3. gap_start # -1
  BY <1>2 DEF AtItsStart
<1>4. /\ FirstFrame <= gap_start /\ gap_start < fi
      /\ \A f \in Int : gap_start <= f /\ f < fi => f \notin speech
      /\ gap_start = FirstFrame \/ gap_start - 1 \in speech
  BY <1>3 DEF InPause, AtItsStart
<1>5. ~(q[1] < gap_start)
  BY <1>1, <1>4
<1>6. ~(gap_start < q[1])
  BY <1>1, <1>4
<1>7. QED BY <1>1, <1>3, <1>5, <1>6

\* The pause that the scan is in when it reaches speech or the end.
LEMMA ThisPause ==
    ASSUME NumberTypes, FirstFrame \in Int, EndFrame \in Int,
           InPause, AtItsStart, at = "scan", gap_start # -1,
           fi <= EndFrame, fi = EndFrame \/ fi \in speech,
           fi - gap_start >= set.gap
    PROVE  <<gap_start, fi>> \in LongPauses
<1> USE DEF NumberTypes
<1>1. /\ FirstFrame <= gap_start /\ gap_start < fi
      /\ \A f \in Int : gap_start <= f /\ f < fi => f \notin speech
      /\ gap_start = FirstFrame \/ gap_start - 1 \in speech
  BY DEF InPause, AtItsStart
<1>2. <<gap_start, fi>> \in (FirstFrame..EndFrame) \X (FirstFrame..EndFrame)
  BY <1>1
<1>3. \A f \in gap_start..(fi - 1) : f \notin speech
  BY <1>1
<1>4. <<gap_start, fi>> \in Pauses
  BY <1>1, <1>2, <1>3 DEF Pauses
<1>5. QED BY <1>4 DEF LongPauses

\* Comparing the pause that ends at the scan's frame keeps the first best.
LEMMA CompareKeepsBest ==
    ASSUME NumberTypes, FirstFrame \in Int, EndFrame \in Int,
           InPause, AtItsStart, at = "scan", BestOf(best, fi - 1),
           fi <= EndFrame, fi = EndFrame \/ fi \in speech
    PROVE  BestOf(Compare(fi), fi)
<1> USE DEF NumberTypes
<1> DEFINE k == fi - gap_start
           here == <<gap_start, fi>>
           b == [len |-> k, mid |-> gap_start + k \div 2]
<1>1. ASSUME NEW q, Ended(q, fi), ~Ended(q, fi - 1)
      PROVE  gap_start # -1 /\ q = here /\ k >= set.gap
  <2>1. q \in LongPauses /\ q[2] <= fi
    BY <1>1 DEF Ended
  <2>2. /\ q[1] \in Int /\ q[2] \in Int /\ q = <<q[1], q[2]>>
        /\ Length(q) >= set.gap
    BY <2>1, PauseFacts
  <2>3. q[2] = fi
    BY <1>1, <2>1, <2>2 DEF Ended
  <2>4. gap_start # -1 /\ q[1] = gap_start
    BY <2>1, <2>3, OnlyThisPause
  <2>5. QED BY <2>2, <2>3, <2>4 DEF Length
<1>2. CASE gap_start # -1 /\ k >= set.gap /\ k > best.len
  <2>1. Compare(fi) = b
    BY <1>2 DEF Compare
  <2>2. here \in LongPauses
    BY <1>2, ThisPause
  <2>3. here[1] = gap_start /\ here[2] = fi /\ Length(here) = k
    BY DEF Length
  <2>4. b = [len |-> Length(here), mid |-> here[1] + Length(here) \div 2]
    BY <2>3
  <2>5. k \in Int /\ b.len = k /\ k # 0 /\ here[2] <= fi
    BY <1>2, <2>3
  <2> HIDE DEF here, k, b
  <2>6. ASSUME NEW q, Ended(q, fi) PROVE Before(here, q)
    <3>1. CASE Ended(q, fi - 1)
      <4>1. best.len # 0
        BY <3>1 DEF BestOf
      <4>2. PICK p \in LongPauses :
                /\ best = [len |-> Length(p), mid |-> p[1] + Length(p) \div 2]
                /\ \A r : Ended(r, fi - 1) => Before(p, r)
        BY <4>1 DEF BestOf
      <4>3. best.len = Length(p) /\ Before(p, q)
        BY <3>1, <4>2
      <4>4. Length(q) \in Int
        <5>1. q \in LongPauses
          BY <3>1 DEF Ended
        <5>2. QED BY <5>1, PauseFacts DEF Length
      <4>5. QED BY <1>2, <2>3, <2>5, <4>3, <4>4 DEF Before
    <3>2. CASE ~Ended(q, fi - 1)
      <4>1. q = here
        BY <1>1, <2>6, <3>2
      <4>2. QED BY <2>3, <2>5, <4>1 DEF Before
    <3>3. QED BY <3>1, <3>2
  <2>7. BestOf(b, fi)
    BY <2>2, <2>4, <2>5, <2>6 DEF BestOf
  <2>8. QED BY <2>1, <2>7
<1>3. CASE ~(gap_start # -1 /\ k >= set.gap /\ k > best.len)
  <2>1. Compare(fi) = best
    BY <1>3 DEF Compare
  <2>2. CASE best.len = 0
    <3>1. ASSUME NEW q, Ended(q, fi) PROVE FALSE
      <4>1. ~Ended(q, fi - 1)
        BY <2>2 DEF BestOf
      <4>2. gap_start # -1 /\ k >= set.gap
        BY <1>1, <3>1, <4>1
      <4>3. QED BY <1>3, <2>2, <4>2
    <3>2. QED BY <2>1, <2>2, <3>1 DEF BestOf
  <2>3. CASE best.len # 0
    <3>1. PICK p \in LongPauses :
              /\ p[2] <= fi - 1
              /\ best = [len |-> Length(p), mid |-> p[1] + Length(p) \div 2]
              /\ \A q : Ended(q, fi - 1) => Before(p, q)
      BY <2>3 DEF BestOf
    <3>2. /\ p[1] \in Int /\ p[2] \in Int /\ p[1] < p[2]
          /\ p[2] <= fi
          /\ best.len = Length(p)
      BY <3>1, PauseFacts
    <3>3. ASSUME NEW q, Ended(q, fi) PROVE Before(p, q)
      <4>1. CASE Ended(q, fi - 1)
        BY <3>1, <4>1
      <4>2. CASE ~Ended(q, fi - 1)
        <5>1. gap_start # -1 /\ q = here /\ k >= set.gap
          BY <1>1, <3>3, <4>2
        <5>2. q[1] = gap_start /\ Length(q) = k /\ k <= Length(p)
          BY <1>3, <3>2, <5>1 DEF Length
        <5>3. p[1] <= q[1]
          BY <3>1, <3>2, <5>2 DEF Length
        <5>4. k \in Int /\ Length(p) \in Int
          BY <3>2 DEF Length
        <5> HIDE DEF k
        <5>5. QED BY <3>2, <5>2, <5>3, <5>4 DEF Before
      <4>3. QED BY <4>1, <4>2
    <3>4. QED BY <2>1, <2>3, <3>1, <3>2, <3>3 DEF BestOf
  <2>4. QED BY <2>2, <2>3
<1>4. QED BY <1>2, <1>3

\* A frame without speech inside the range ends no pause.
LEMMA SilenceKeepsBest ==
    ASSUME NumberTypes, FirstFrame \in Int, EndFrame \in Int,
           BestOf(best, fi - 1), fi < EndFrame, fi \notin speech
    PROVE  BestOf(best, fi)
<1>1. ASSUME NEW q PROVE Ended(q, fi) <=> Ended(q, fi - 1)
  <2>1. ASSUME q \in LongPauses PROVE q[2] <= fi <=> q[2] <= fi - 1
    BY <2>1, PauseFacts DEF NumberTypes
  <2>2. QED BY <2>1 DEF Ended
<1>2. ASSUME NEW p \in LongPauses, p[2] <= fi - 1 PROVE p[2] <= fi
  BY <1>2, PauseFacts DEF NumberTypes
<1>3. CASE best.len = 0
  BY <1>1, <1>3 DEF BestOf
<1>4. CASE best.len # 0
  <2>1. PICK p \in LongPauses :
            /\ p[2] <= fi - 1
            /\ best = [len |-> Length(p), mid |-> p[1] + Length(p) \div 2]
            /\ \A q : Ended(q, fi - 1) => Before(p, q)
    BY <1>4 DEF BestOf
  <2>2. p[2] <= fi /\ \A q : Ended(q, fi) => Before(p, q)
    BY <1>1, <1>2, <2>1
  <2>3. QED BY <1>4, <2>1, <2>2 DEF BestOf
<1>5. QED BY <1>3, <1>4

\* The scan keeps the first of the longest pauses it has passed.
LEMMA ScanInvInductive == IInv /\ ScanInv /\ [Next]_vars => ScanInv'
<1> SUFFICES ASSUME IInv, ScanInv, [Next]_vars, at' = "scan" PROVE ScanInv'
  BY DEF ScanInv
<1>1. CASE BeginScan
  <2>1. /\ fi' = FirstFrame /\ gap_start' = -1 /\ best' = NoPause
        /\ UNCHANGED <<set, n, speech, start>>
    BY <1>1 DEF BeginScan
  <2>2. NumberTypes /\ FirstFrame \in Int /\ EndFrame \in Int
    BY TypesOfNumbers, RangeTypes DEF IInv
  <2>3. FirstFrame' = FirstFrame /\ LongPauses' = LongPauses
    BY <2>1 DEF LongPauses, Pauses, HardEnd, FirstFrame, EndFrame, Frames,
                Minimum, Maximum
  <2>4. AtItsStart'
    BY <2>1, <2>3 DEF AtItsStart
  <2>5. ASSUME NEW q PROVE ~Ended(q, FirstFrame - 1)
    BY <2>2, PauseFacts DEF Ended
  <2>6. ASSUME NEW q PROVE ~Ended(q, FirstFrame - 1)'
    BY <2>3, <2>5 DEF Ended
  <2>7. BestOf(best, fi - 1)'
    BY <2>1, <2>3, <2>6 DEF BestOf, NoPause, Ended
  <2>8. QED BY <2>4, <2>7 DEF ScanInv
<1>2. CASE ScanFrame
  <2>1. /\ at = "scan" /\ fi < EndFrame /\ fi' = fi + 1
        /\ UNCHANGED <<set, n, speech, start>>
    BY <1>2 DEF ScanFrame
  <2>2. /\ NumberTypes /\ FirstFrame \in Int /\ EndFrame \in Int
        /\ InPause /\ AtItsStart /\ BestOf(best, fi - 1)
    BY <2>1, ScanFacts DEF IInv, ScanInv
  <2>3. FirstFrame' = FirstFrame /\ LongPauses' = LongPauses
    BY <2>1 DEF LongPauses, Pauses, HardEnd, FirstFrame, EndFrame, Frames,
                Minimum, Maximum
  <2>4. fi \in Int /\ fi' - 1 = fi
    BY <2>1, <2>2 DEF NumberTypes
  <2>5. AtItsStart' /\ BestOf(best', fi)
    <3>1. CASE fi \in speech
      <4>1. best' = Compare(fi) /\ gap_start' = -1
        BY <1>2, <3>1 DEF ScanFrame
      <4>2. AtItsStart'
        BY <2>1, <2>3, <2>4, <3>1, <4>1 DEF AtItsStart
      <4>3. fi <= EndFrame
        BY <2>1, <2>2, <2>4
      <4>4. QED BY <2>1, <2>2, <3>1, <4>1, <4>2, <4>3, CompareKeepsBest
    <3>2. CASE fi \notin speech
      <4>1. /\ best' = best
            /\ gap_start' = IF gap_start = -1 THEN fi ELSE gap_start
        BY <1>2, <3>2 DEF ScanFrame
      <4>2. AtItsStart'
        <5>1. CASE gap_start = -1
          <6>1. gap_start' = fi /\ fi >= 0
            BY <2>1, <2>2, <2>4, <4>1, <5>1, ScanFacts DEF InPause
          <6>2. QED BY <2>1, <2>2, <2>3, <5>1, <6>1 DEF AtItsStart
        <5>2. CASE gap_start # -1
          BY <2>1, <2>2, <2>3, <4>1, <5>2 DEF AtItsStart
        <5>3. QED BY <5>1, <5>2
      <4>3. QED BY <2>1, <2>2, <3>2, <4>1, <4>2, SilenceKeepsBest
    <3>3. QED BY <3>1, <3>2
  <2>6. BestOf(best, fi - 1)'
    BY <2>3, <2>4, <2>5 DEF BestOf, Ended
  <2>7. QED BY <2>5, <2>6 DEF ScanInv
<1>3. CASE UNCHANGED vars
  <2>1. UNCHANGED <<set, n, speech, at, start, fi, gap_start, best>>
    BY <1>3 DEF vars, scanVars
  <2>2. FirstFrame' = FirstFrame /\ LongPauses' = LongPauses
    BY <2>1 DEF LongPauses, Pauses, HardEnd, FirstFrame, EndFrame, Frames,
                Minimum, Maximum
  <2>3. QED BY <2>1, <2>2 DEF ScanInv, AtItsStart, BestOf, Ended
<1>4. ~(PlanEnds \/ Tail \/ ForceCut \/ Cut)
  BY DEF PlanEnds, Tail, ForceCut, Cut
<1>5. QED BY <1>1, <1>2, <1>3, <1>4 DEF Next

\* What the end of a scan chooses.
LongestStep ==
    at = "scan" /\ at' = "plan" =>
        IF LongPauses = {}
        THEN span'.reason = "fallback_hard_limit"
        ELSE \E p \in LongPauses :
                 /\ span'.reason = "vad_gap"
                 /\ best' = [len |-> p[2] - p[1],
                             mid |-> p[1] + (p[2] - p[1]) \div 2]
                 /\ \A q \in LongPauses :
                        \/ q[2] - q[1] < p[2] - p[1]
                        \/ q[2] - q[1] = p[2] - p[1] /\ q[1] >= p[1]

\* The end of a scan has compared every pause of the range.
LEMMA CutTakesLongest ==
    ASSUME IInv, ScanInv, Cut
    PROVE  LongestStep
<1> DEFINE b == Compare(EndFrame)
<1>1. at = "scan" /\ fi >= EndFrame /\ best' = b
  BY DEF Cut
<1>2. /\ NumberTypes /\ Position /\ InPause /\ AtItsStart
      /\ BestOf(best, fi - 1)
      /\ HardEnd > start /\ HardEnd \in Int
      /\ FirstFrame \in Int /\ EndFrame \in Int
      /\ start \in Int /\ fi \in Int /\ gap_start \in Int
  BY <1>1, ScanFacts DEF IInv, ScanInv, NumberTypes
<1>3. b \in [len : Nat, mid : Nat] /\ SilentMiddle(b)
  BY <1>1, LastPause
<1>4. BestOf(b, EndFrame)
  <2>1. CASE fi = EndFrame
    <3>1. fi <= EndFrame
      BY <1>2, <2>1
    <3>2. BestOf(Compare(fi), fi)
      BY <1>1, <1>2, <2>1, <3>1, CompareKeepsBest
    <3>3. QED BY <2>1, <3>2
  <2>2. CASE fi # EndFrame
    <3>1. fi = FirstFrame /\ EndFrame < FirstFrame
      BY <1>1, <1>2, <2>2 DEF InPause
    <3>2. gap_start = -1
      BY <1>1, <1>2, <3>1 DEF InPause
    <3>3. b = best
      BY <3>2 DEF Compare
    <3>4. LongPauses = {}
      BY <1>2, <3>1, PauseFacts
    <3>5. QED BY <1>2, <3>3, <3>4 DEF BestOf, Ended
  <2>3. QED BY <2>1, <2>2
<1>5. \A q \in LongPauses : Ended(q, EndFrame)
  BY <1>2, PauseFacts DEF Ended
<1>6. CASE b.len = 0
  <2>1. LongPauses = {}
    BY <1>4, <1>5, <1>6 DEF BestOf
  <2>2. ~(b.len > 0)
    BY <1>6
  <2>3. TakeCut(HardEnd, "fallback_hard_limit")
    BY <1>1, <2>2 DEF Cut
  <2>4. Emit(HardEnd, "fallback_hard_limit")
    BY <1>2, <2>3 DEF TakeCut
  <2>5. span'.reason = "fallback_hard_limit"
    BY <2>4 DEF Emit
  <2>6. QED BY <2>1, <2>5 DEF LongestStep
<1>7. CASE b.len # 0
  <2>1. PICK p \in LongPauses :
            /\ b = [len |-> Length(p), mid |-> p[1] + Length(p) \div 2]
            /\ \A q : Ended(q, EndFrame) => Before(p, q)
    BY <1>4, <1>7 DEF BestOf
  <2>2. b.len > 0
    BY <1>3, <1>7
  <2>3. TakeCut(PauseCut(b.mid), "vad_gap")
    BY <1>1, <2>2 DEF Cut, PauseCut
  <2> HIDE DEF b
  <2>4. /\ b.mid \in Nat /\ FirstFrame <= b.mid /\ b.mid < EndFrame
        /\ b.mid \notin speech
    BY <1>3, <2>2 DEF SilentMiddle
  <2>5. PauseCut(b.mid) \in Int /\ start < PauseCut(b.mid)
    BY <1>2, <2>4, PauseCutIsSilent
  <2>6. Emit(PauseCut(b.mid), "vad_gap")
    BY <1>2, <2>3, <2>5 DEF TakeCut
  <2>7. span'.reason = "vad_gap"
    BY <2>6 DEF Emit
  <2>8. \A q \in LongPauses : Before(p, q)
    BY <1>5, <2>1
  <2>9. QED BY <1>1, <2>1, <2>7, <2>8 DEF LongestStep, Before, Length
<1>8. QED BY <1>6, <1>7

\* For every limit, search range and outcome of the VAD the scan ends with the
\* first of the longest pauses of its range, and cuts at the limit only when
\* none of them is long enough (speech_cut.py 162-206).
THEOREM LongestIsChosen == Spec => LongestPauseChosen
<1>1. Init => ScanInv
  BY DEF Init, ScanInv
<1>2. ASSUME IInv, ScanInv, [Next]_vars PROVE [LongestStep]_vars
  <2>1. CASE Cut
    BY <1>2, <2>1, CutTakesLongest
  <2>2. CASE PlanEnds \/ Tail \/ ForceCut \/ BeginScan \/ ScanFrame
    <3>1. ~(at = "scan" /\ at' = "plan")
      BY <2>2 DEF PlanEnds, Tail, ForceCut, BeginScan, ScanFrame
    <3>2. QED BY <3>1 DEF LongestStep
  <2>3. QED BY <1>2, <2>1, <2>2 DEF Next
<1>3. QED BY <1>1, <1>2, Inductive, ScanInvInductive, PTL
          DEF Spec, LongestPauseChosen, LongestStep
=============================================================================
