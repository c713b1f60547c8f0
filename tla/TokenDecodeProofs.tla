------------------------- MODULE TokenDecodeProofs -------------------------
(***************************************************************************)
(* For every size of the context, every limit, every vocabulary and        *)
(* whatever the decoder predicts: the cache holds the text so far, a stop  *)
(* on a repetition takes out repetitions only, and no repetition is left;  *)
(* an answer that ran to EOT is text if it was spelled correctly, and its  *)
(* segments are those between pairs of timestamps.                         *)
(*                                                                         *)
(* The last two are about recursive functions.  Each is opened once: a     *)
(* function that satisfies its equation exists (ScanExists, IdsExist), and *)
(* from then on only the equation is used, from the last position of the   *)
(* answer backwards for the scan (AllDown), from the first one on for the  *)
(* text ids (AllUp).                                                       *)
(***************************************************************************)
EXTENDS TokenDecode, SequenceTheorems, FiniteSetTheorems,
        WellFoundedInduction, TLAPS

USE TokenAssumption DEF TokenAssumption

-----------------------------------------------------------------------------
(* Sequences.                                                              *)

\* A prefix is made of the first elements.
LEMMA PrefixFacts ==
  ASSUME NEW S, NEW s \in Seq(S), NEW k \in 0..Len(s)
  PROVE  /\ SubSeq(s, 1, k) \in Seq(S)
         /\ Len(SubSeq(s, 1, k)) = k
         /\ \A i \in 1..k : SubSeq(s, 1, k)[i] = s[i]
<1>1. k \in Int /\ \A i \in 1..k : s[i] \in S
  OBVIOUS
<1>2. /\ SubSeq(s, 1, k) \in Seq(S)
      /\ Len(SubSeq(s, 1, k)) = IF 1 <= k THEN k - 1 + 1 ELSE 0
      /\ \A i \in 1..(k - 1 + 1) : SubSeq(s, 1, k)[i] = s[1 + i - 1]
  BY <1>1, SubSeqProperties
<1> QED BY <1>2

\* A prefix of a prefix is a prefix.
LEMMA PrefixOfPrefix ==
  ASSUME NEW S, NEW s \in Seq(S), NEW k \in 0..Len(s), NEW i \in 0..k
  PROVE  SubSeq(SubSeq(s, 1, k), 1, i) = SubSeq(s, 1, i)
<1> DEFINE p == SubSeq(s, 1, k)
           a == SubSeq(p, 1, i)
           b == SubSeq(s, 1, i)
<1>1. p \in Seq(S) /\ Len(p) = k /\ \A j \in 1..k : p[j] = s[j]
  BY PrefixFacts
<1> HIDE DEF p
<1>2. a \in Seq(S) /\ Len(a) = i /\ \A j \in 1..i : a[j] = p[j]
  BY <1>1, PrefixFacts
<1>3. b \in Seq(S) /\ Len(b) = i /\ \A j \in 1..i : b[j] = s[j]
  BY PrefixFacts
<1> HIDE DEF a, b
<1>4. a = b
  BY <1>1, <1>2, <1>3
<1> QED BY <1>4 DEF a, b, p

\* The prefixes of a sequence after an element is appended.
LEMMA PrefixOfAppend ==
  ASSUME NEW S, NEW s \in Seq(S), NEW e \in S, NEW i \in 0..Len(s)
  PROVE  SubSeq(Append(s, e), 1, i) = SubSeq(s, 1, i)
<1> DEFINE t == Append(s, e)
           a == SubSeq(t, 1, i)
           b == SubSeq(s, 1, i)
<1>1. t \in Seq(S) /\ Len(t) = Len(s) + 1 /\ \A j \in 1..Len(s) : t[j] = s[j]
  BY AppendProperties
<1> HIDE DEF t
<1>2. a \in Seq(S) /\ Len(a) = i /\ \A j \in 1..i : a[j] = t[j]
  BY <1>1, PrefixFacts
<1>3. b \in Seq(S) /\ Len(b) = i /\ \A j \in 1..i : b[j] = s[j]
  BY PrefixFacts
<1> HIDE DEF a, b
<1>4. a = b
  BY <1>1, <1>2, <1>3
<1> QED BY <1>4 DEF a, b, t

\* All of a sequence is its longest prefix.
LEMMA WholePrefix ==
  ASSUME NEW S, NEW s \in Seq(S)
  PROVE  SubSeq(s, 1, Len(s)) = s
<1> DEFINE a == SubSeq(s, 1, Len(s))
<1>1. a \in Seq(S) /\ Len(a) = Len(s) /\ \A j \in 1..Len(s) : a[j] = s[j]
  BY PrefixFacts
<1> HIDE DEF a
<1>2. a = s
  BY <1>1
<1> QED BY <1>2 DEF a

\* The sequence without its last element is one shorter.
LEMMA FrontFacts ==
  ASSUME NEW S, NEW s \in Seq(S), Len(s) >= 1
  PROVE  Front(s) \in Seq(S) /\ Len(Front(s)) = Len(s) - 1
<1> DEFINE k == Len(s) - 1
<1>1. k \in 0..Len(s)
  OBVIOUS
<1>2. Front(s) = SubSeq(s, 1, k)
  BY DEF Front
<1> HIDE DEF k
<1>3. SubSeq(s, 1, k) \in Seq(S) /\ Len(SubSeq(s, 1, k)) = k
  BY <1>1, PrefixFacts
<1> QED BY <1>2, <1>3 DEF k

\* Without the element just added a sequence is as before.
LEMMA FrontOfAppend ==
  ASSUME NEW S, NEW s \in Seq(S), NEW e \in S
  PROVE  Front(Append(s, e)) = s
<1>1. Len(Append(s, e)) - 1 = Len(s)
  OBVIOUS
<1>2. Front(Append(s, e)) = SubSeq(Append(s, e), 1, Len(s))
  BY <1>1 DEF Front
<1> QED BY <1>2, PrefixOfAppend, WholePrefix

-----------------------------------------------------------------------------
(* The prompt and the limit.                                               *)

Names == {"sot", "language", "task", "notimestamps"}

Vocabulary == Names \cup Tokens

\* The prompt of the models for English.
LEMMA ShortPrompt ==
  /\ <<"sot", "notimestamps">> \in Seq(Names)
  /\ Len(<<"sot", "notimestamps">>) = 2
BY DEF Names

\* The prompt of the multilingual models.
LEMMA LongPrompt ==
  /\ <<"sot", "language", "task", "notimestamps">> \in Seq(Names)
  /\ Len(<<"sot", "language", "task", "notimestamps">>) = 4
BY DEF Names

\* Every prompt has one to four tokens.
LEMMA PromptType ==
  ASSUME set \in Settings
  PROVE  /\ Prompt \in Seq(Names)
         /\ Len(Prompt) \in Nat /\ 1 <= Len(Prompt) /\ Len(Prompt) <= 4
<1> DEFINE short == <<"sot", "notimestamps">>
           long == <<"sot", "language", "task", "notimestamps">>
           seq == IF set.english THEN short ELSE long
<1>1. /\ short \in Seq(Names) /\ Len(short) = 2
      /\ long \in Seq(Names) /\ Len(long) = 4
  BY ShortPrompt, LongPrompt
<1>2. Prompt = IF set.stamps THEN Front(seq) ELSE seq
  BY DEF Prompt
<1> HIDE DEF short, long
<1>3. seq \in Seq(Names) /\ Len(seq) \in {2, 4}
  BY <1>1
<1> HIDE DEF seq
<1>4. Front(seq) \in Seq(Names) /\ Len(Front(seq)) \in {1, 3}
  <2>1. Len(seq) >= 1
    BY <1>3
  <2>2. Front(seq) \in Seq(Names) /\ Len(Front(seq)) = Len(seq) - 1
    BY <1>3, <2>1, FrontFacts
  <2> QED BY <1>3, <2>2
<1>5. Prompt = seq \/ Prompt = Front(seq)
  BY <1>2
<1>6. Prompt \in Seq(Names)
  BY <1>3, <1>4, <1>5
<1>7. \/ Len(Prompt) = 1 \/ Len(Prompt) = 2
      \/ Len(Prompt) = 3 \/ Len(Prompt) = 4
  BY <1>3, <1>4, <1>5
<1> DEFINE L == Len(Prompt)
<1>8. L = 1 \/ L = 2 \/ L = 3 \/ L = 4
  BY <1>7
<1> HIDE DEF L
<1>9. L \in Nat /\ 1 <= L /\ L <= 4
  BY <1>8
<1> QED BY <1>6, <1>9 DEF L

\* The limit never exceeds the context.
LEMMA LimitInContext ==
  ASSUME NEW limit \in Int
  PROVE  TokenLimit(limit) \in Int /\ TokenLimit(limit) <= Context
BY DEF TokenLimit

\* The limits are numbers.
LEMMA SettingTypes ==
  ASSUME set \in Settings
  PROVE  set.limit \in Int /\ set.repeats \in Int
OBVIOUS

-----------------------------------------------------------------------------
(* The end of an answer that is stopped.                                   *)

\* There is a shortest group among those that are repeated.
LEMMA GramExists ==
  ASSUME NEW s, RepeatingTail(s)
  PROVE  GramSize(s) \in {1, 2, 3, 4} /\ EndsInRepeat(s, GramSize(s))
<1> DEFINE Least(k) == /\ EndsInRepeat(s, k)
                       /\ \A j \in 1..(k - 1) : ~EndsInRepeat(s, j)
<1>1. GramSizes = {1, 2, 3, 4}
  BY DEF GramSizes
<1>2. \E k \in {1, 2, 3, 4} : EndsInRepeat(s, k)
  BY <1>1 DEF RepeatingTail
<1>3. \E k \in GramSizes : Least(k)
  <2> HIDE DEF GramSizes
  <2>1. CASE EndsInRepeat(s, 1)
    <3>1. 1..(1 - 1) = {}
      OBVIOUS
    <3> QED BY <1>1, <2>1, <3>1
  <2>2. CASE ~EndsInRepeat(s, 1) /\ EndsInRepeat(s, 2)
    <3>1. 1..(2 - 1) = {1}
      OBVIOUS
    <3> QED BY <1>1, <2>2, <3>1
  <2>3. CASE ~EndsInRepeat(s, 1) /\ ~EndsInRepeat(s, 2) /\ EndsInRepeat(s, 3)
    <3>1. 1..(3 - 1) = {1, 2}
      OBVIOUS
    <3> QED BY <1>1, <2>3, <3>1
  <2>4. CASE /\ ~EndsInRepeat(s, 1) /\ ~EndsInRepeat(s, 2)
             /\ ~EndsInRepeat(s, 3) /\ EndsInRepeat(s, 4)
    <3>1. 1..(4 - 1) = {1, 2, 3}
      OBVIOUS
    <3> QED BY <1>1, <2>4, <3>1
  <2> QED BY <1>2, <2>1, <2>2, <2>3, <2>4
<1>4. GramSize(s) \in GramSizes /\ Least(GramSize(s))
  BY <1>3, Zenon DEF GramSize
<1> QED BY <1>1, <1>4

\* A stop keeps a prefix, and what it takes out repeats what it keeps.
LEMMA StopFacts ==
  ASSUME set \in Settings, NEW s \in Seq(Tokens), RepeatingTail(s)
  PROVE  \E m \in 0..Len(s) :
             /\ DropRepeats(s) = SubSeq(s, 1, m)
             /\ set.repeats >= 2 => m < Len(s)
             /\ m # Len(s) => \E k \in 1..m :
                                 \A i \in (m + 1)..Len(s) : s[i] = s[i - k]
<1> DEFINE g == GramSize(s)
           t == set.repeats
           m == Len(s) - g * Greater(0, t - 1)
<1>1. g \in {1, 2, 3, 4} /\ EndsInRepeat(s, g)
  BY GramExists
<1>2. t \in Int
  BY SettingTypes
<1>3. /\ Len(s) \in Nat
      /\ Len(s) >= g * t
      /\ \A i \in (Len(s) - g * t + 1)..(Len(s) - g) : s[i] = s[i + g]
  BY <1>1 DEF EndsInRepeat
<1>4. DropRepeats(s) = SubSeq(s, 1, m)
  BY DEF DropRepeats
<1> HIDE DEF g, t
<1>5. CASE t <= 1
  <2>1. Greater(0, t - 1) = 0
    BY <1>2, <1>5 DEF Greater
  <2>2. m = Len(s)
    BY <1>1, <1>3, <2>1
  <2>3. m \in 0..Len(s) /\ ~(t >= 2)
    BY <1>2, <1>3, <1>5, <2>2
  <2> HIDE DEF m
  <2> QED BY <1>4, <2>2, <2>3 DEF t
<1>6. CASE t >= 2
  <2>1. Greater(0, t - 1) = t - 1
    BY <1>2, <1>6 DEF Greater
  <2>2. m = Len(s) - g * (t - 1)
    BY <2>1
  <2>3. g * (t - 1) = g * t - g /\ g * (t - 1) >= g /\ g * t \in Int
    BY <1>1, <1>2, <1>6
  <2> DEFINE p == g * t
  <2>4. p \in Int /\ m = Len(s) - p + g /\ p >= g + g
    BY <1>1, <1>2, <1>3, <1>6, <2>2, <2>3
  <2>5. /\ Len(s) >= p
        /\ \A i \in (Len(s) - p + 1)..(Len(s) - g) : s[i] = s[i + g]
    BY <1>3
  <2>6. g \in Nat /\ g >= 1
    BY <1>1
  <2> HIDE DEF m, p
  <2>7. m \in 0..Len(s) /\ m < Len(s) /\ g \in 1..m
    BY <1>3, <2>4, <2>5, <2>6
  <2>8. ASSUME NEW i \in (m + 1)..Len(s) PROVE s[i] = s[i - g]
    <3>1. i - g \in (Len(s) - p + 1)..(Len(s) - g) /\ i - g + g = i
      BY <1>3, <2>4, <2>6, <2>7
    <3> QED BY <2>5, <3>1
  <2>9. \E k \in 1..m : \A i \in (m + 1)..Len(s) : s[i] = s[i - k]
    BY <2>7, <2>8
  <2> QED BY <1>4, <2>7, <2>9
<1>7. t <= 1 \/ t >= 2
  BY <1>2
<1> QED BY Zenon, <1>5, <1>6, <1>7

-----------------------------------------------------------------------------
(* The cache.  CacheIsTheText is inductive once it is said that an answer  *)
(* is what was predicted until a repetition stops it, and that the prompt  *)
(* is fed before anything is predicted.                                    *)

\* What was given to the decoder after the prompt.
Fed == IF repeated THEN Front(predicted) ELSE predicted

Answers ==
    /\ set \in Settings
    /\ ans \in Seq(Tokens)
    /\ predicted \in Seq(Tokens)

Course ==
    /\ at = "prompt" => ~repeated /\ predicted = <<>>
    /\ ~repeated => ans = predicted
    /\ repeated => Len(predicted) >= 1

Rows ==
    /\ offset \in Nat
    /\ offset <= Context
    /\ at = "prompt" => offset < Len(Prompt)
    /\ at # "prompt" => idx \in Tokens /\ offset = Len(Prompt) + Len(Fed)
    /\ DOMAIN cache = 0..(Context - 1)

Contents ==
    \A p \in 0..(Context - 1) :
        cache[p] = IF p < offset THEN (Prompt \o Fed)[p + 1] ELSE Empty

CacheInv == Answers /\ Course /\ Rows /\ Contents

\* What the cache has been fed of an answer is an answer.
LEMMA FedType ==
  ASSUME Answers, Course
  PROVE  Fed \in Seq(Tokens)
BY FrontFacts DEF Answers, Course, Fed

\* What a text is made of.
LEMMA TextFacts ==
  ASSUME NEW P \in Seq(Names), NEW s \in Seq(Tokens)
  PROVE  /\ P \o s \in Seq(Vocabulary)
         /\ Len(P \o s) = Len(P) + Len(s)
         /\ \A i \in 1..(Len(P) + Len(s)) :
                (P \o s)[i] = IF i <= Len(P) THEN P[i] ELSE s[i - Len(P)]
<1>1. P \in Seq(Vocabulary) /\ s \in Seq(Vocabulary)
  BY DEF Vocabulary
<1> QED BY <1>1, ConcatProperties

\* The cache is empty before the prompt.
LEMMA CacheInit == Init => CacheInv
<1> SUFFICES ASSUME Init PROVE CacheInv
  OBVIOUS
<1>1. /\ set \in Settings /\ at = "prompt" /\ offset = 0
      /\ ans = <<>> /\ predicted = <<>>
      /\ cache = [p \in 0..(Context - 1) |-> Empty]
  BY DEF Init
<1>2. ~repeated
  BY Zenon DEF Init
<1>3. Answers
  BY <1>1 DEF Answers
<1>4. Course
  BY <1>1, <1>2 DEF Course
<1>5. Len(Prompt) \in Nat /\ 1 <= Len(Prompt)
  BY <1>1, PromptType
<1>6. Rows
  <2>1. DOMAIN cache = 0..(Context - 1)
    BY <1>1
  <2>2. offset \in Nat /\ offset <= Context /\ offset < Len(Prompt)
    BY <1>1, <1>5
  <2> QED BY <1>1, <2>1, <2>2 DEF Rows
<1>7. Contents
  BY <1>1 DEF Contents
<1> QED BY <1>3, <1>4, <1>6, <1>7 DEF CacheInv

\* A row of the prompt is stored behind the rows before it.
LEMMA CacheAfterPrompt == CacheInv /\ FeedPrompt => CacheInv'
<1> SUFFICES ASSUME CacheInv, FeedPrompt PROVE CacheInv'
  OBVIOUS
<1> DEFINE L == Len(Prompt)
<1>1. /\ set \in Settings /\ ans \in Seq(Tokens) /\ predicted = <<>>
      /\ offset \in Nat /\ offset < L
      /\ DOMAIN cache = 0..(Context - 1)
  BY DEF CacheInv, Answers, Course, Rows, FeedPrompt
<1>2. ~repeated /\ ans = predicted /\ at = "prompt"
  BY Zenon DEF CacheInv, Course, FeedPrompt
<1>3. /\ set' = set /\ ans' = ans /\ predicted' = predicted
      /\ repeated' = repeated
      /\ offset' = offset + 1
      /\ cache' = [cache EXCEPT ![offset] = Prompt[offset + 1]]
  BY DEF FeedPrompt, Store
<1>4. Prompt' = Prompt /\ Prompt \in Seq(Names) /\ L \in Nat /\ 1 <= L /\ L <= 4
  BY <1>1, <1>3, PromptType DEF Prompt
<1>5. Fed = <<>> /\ Fed' = <<>>
  BY <1>1, <1>2, <1>3 DEF Fed
<1>6. Answers'
  BY <1>1, <1>3 DEF Answers
<1>7. Course'
  BY <1>1, <1>2, <1>3 DEF Course
<1>8. \/ offset' = L /\ at' = "loop" /\ idx' \in Tokens
      \/ offset' # L /\ at' = "prompt"
  BY <1>2 DEF FeedPrompt, First, Tokens
<1>9. Rows'
  <2>1. DOMAIN cache' = 0..(Context - 1)
    BY <1>1, <1>3
  <2>2. offset' \in Nat /\ offset' <= Context
    <3>1. offset' = offset + 1 /\ offset \in Nat /\ offset < L
      BY <1>1, <1>3
    <3> QED BY <1>4, <3>1
  <2>3. at' = "prompt" => offset' < L
    BY <1>1, <1>3, <1>4, <1>8
  <2>4. at' # "prompt" => idx' \in Tokens /\ offset' = L + Len(Fed')
    BY <1>4, <1>5, <1>8
  <2> QED BY <1>4, <2>1, <2>2, <2>3, <2>4 DEF Rows
<1>10. Contents'
  <2>1. Prompt \o Fed = Prompt /\ (Prompt \o Fed)' = Prompt
    BY <1>4, <1>5, ConcatEmptySeq
  <2>2. \A p \in 0..(Context - 1) :
            cache[p] = IF p < offset THEN Prompt[p + 1] ELSE Empty
    BY <2>1 DEF CacheInv, Contents
  <2>3. ASSUME NEW p \in 0..(Context - 1)
        PROVE  cache'[p] = IF p < offset' THEN Prompt[p + 1] ELSE Empty
    BY <1>1, <1>3, <2>2
  <2> QED BY <2>1, <2>3 DEF Contents
<1> QED BY <1>6, <1>7, <1>9, <1>10 DEF CacheInv

\* The row of an accepted token is stored behind the text.
LEMMA CacheAfterAccept == CacheInv /\ Accept => CacheInv'
<1> SUFFICES ASSUME CacheInv, Accept PROVE CacheInv'
  OBVIOUS
<1> DEFINE L == Len(Prompt)
<1>1. at = "loop" /\ ~repeated /\ ans = predicted
  BY Zenon DEF CacheInv, Course, Accept
<1>2. /\ set \in Settings /\ ans \in Seq(Tokens) /\ idx \in Tokens
      /\ offset \in Nat
      /\ DOMAIN cache = 0..(Context - 1)
  BY <1>1 DEF CacheInv, Answers, Rows
<1>3. /\ set' = set /\ at' = at /\ repeated' = repeated
      /\ ans' = Append(ans, idx) /\ predicted' = Append(ans, idx)
      /\ offset' = offset + 1 /\ idx' \in Tokens
      /\ cache' = [cache EXCEPT ![offset] = idx]
  BY DEF Accept, Store
<1>4. Prompt' = Prompt /\ Prompt \in Seq(Names) /\ L \in Nat /\ 1 <= L /\ L <= 4
  BY <1>2, <1>3, PromptType DEF Prompt
<1>5. Fed = ans /\ Fed' = Append(ans, idx)
  BY <1>1, <1>3 DEF Fed
<1>6. offset = L + Len(ans)
  BY <1>1, <1>5 DEF CacheInv, Rows
<1>7. offset < Context
  <2>1. TokenLimit(set.limit) \in Int /\ TokenLimit(set.limit) <= Context
    BY <1>2, SettingTypes, LimitInContext
  <2>2. offset < TokenLimit(set.limit)
    BY DEF Accept, Continues
  <2> QED BY <1>2, <2>1, <2>2
<1>8. /\ Append(ans, idx) \in Seq(Tokens)
      /\ Len(Append(ans, idx)) = Len(ans) + 1
      /\ \A i \in 1..Len(ans) : Append(ans, idx)[i] = ans[i]
      /\ Append(ans, idx)[Len(ans) + 1] = idx
  BY <1>2, AppendProperties
<1>9. Answers'
  BY <1>2, <1>3, <1>8 DEF Answers
<1>10. Course'
  BY <1>1, <1>3 DEF Course
<1>11. Rows'
  <2>1. DOMAIN cache' = 0..(Context - 1)
    BY <1>2, <1>3
  <2>2. offset' \in Nat /\ offset' <= Context
    BY <1>2, <1>3, <1>7
  <2>3. idx' \in Tokens /\ offset' = L + Len(Fed')
    BY <1>3, <1>4, <1>5, <1>6, <1>8
  <2> QED BY <1>1, <1>3, <1>4, <2>1, <2>2, <2>3 DEF Rows
<1>12. Contents'
  <2> DEFINE A == Append(ans, idx)
  <2>1. /\ Len(ans) \in Nat
        /\ \A i \in 1..(L + Len(ans)) :
              (Prompt \o ans)[i] = IF i <= L THEN Prompt[i] ELSE ans[i - L]
    BY <1>2, <1>4, TextFacts
  <2>2. \A i \in 1..(L + Len(A)) :
            (Prompt \o A)[i] = IF i <= L THEN Prompt[i] ELSE A[i - L]
    BY <1>4, <1>8, TextFacts
  <2>3. \A p \in 0..(Context - 1) :
            cache[p] = IF p < offset THEN (Prompt \o ans)[p + 1] ELSE Empty
    BY <1>5 DEF CacheInv, Contents
  <2>4. offset' = offset + 1 /\ offset \in Nat /\ L \in Nat
    BY <1>2, <1>3, <1>4
  <2>5. \A p \in 0..(Context - 1) :
            cache'[p] = IF p = offset THEN idx ELSE cache[p]
    BY <1>2, <1>3
  <2>6. /\ Len(A) = Len(ans) + 1
        /\ \A i \in 1..Len(ans) : A[i] = ans[i]
        /\ A[Len(ans) + 1] = idx
    BY <1>8
  <2>7. offset = L + Len(ans)
    BY <1>6
  <2> DEFINE old == Prompt \o ans
             new == Prompt \o A
  <2> HIDE DEF L, A, old, new
  <2>8. ASSUME NEW p \in 0..(Context - 1)
        PROVE  cache'[p] = IF p < offset' THEN new[p + 1] ELSE Empty
    <3>1. CASE p < offset
      <4>1. cache'[p] = old[p + 1]
        <5>1. p # offset
          BY <2>4, <3>1
        <5>2. cache[p] = old[p + 1]
          BY <2>3, <3>1 DEF old
        <5> QED BY <2>5, <5>1, <5>2
      <4>2. p + 1 \in 1..(L + Len(ans)) /\ p + 1 \in 1..(L + Len(A))
        BY <2>1, <2>4, <2>6, <2>7, <3>1
      <4>3. old[p + 1] = IF p + 1 <= L THEN Prompt[p + 1] ELSE ans[p + 1 - L]
        BY <2>1, <4>2 DEF old, L
      <4>4. new[p + 1] = IF p + 1 <= L THEN Prompt[p + 1] ELSE A[p + 1 - L]
        BY <2>2, <4>2 DEF new, L
      <4>5. p + 1 > L => ans[p + 1 - L] = A[p + 1 - L]
        BY <2>1, <2>4, <2>6, <4>2
      <4>6. new[p + 1] = old[p + 1]
        <5>1. CASE p + 1 <= L
          BY <4>3, <4>4, <5>1
        <5>2. CASE p + 1 > L
          <6>1. ~(p + 1 <= L)
            BY <2>4, <5>2
          <6> QED BY <4>3, <4>4, <4>5, <5>2, <6>1
        <5> QED BY <2>4, <5>1, <5>2
      <4>7. p < offset'
        BY <2>4, <3>1
      <4> QED BY <4>1, <4>6, <4>7
    <3>2. CASE p = offset
      <4>1. cache'[p] = idx
        BY <2>5, <3>2
      <4>2. /\ p + 1 \in 1..(L + Len(A)) /\ ~(p + 1 <= L)
            /\ p + 1 - L = Len(ans) + 1 /\ p < offset'
        BY <2>1, <2>4, <2>6, <2>7, <3>2
      <4>3. new[p + 1] = A[p + 1 - L]
        BY <2>2, <4>2 DEF new, L
      <4> QED BY <2>6, <4>1, <4>2, <4>3
    <3>3. CASE p > offset
      <4>1. ~(p < offset) /\ ~(p < offset') /\ p # offset
        BY <2>4, <3>3
      <4> QED BY <2>3, <2>5, <4>1
    <3> QED BY <2>4, <3>1, <3>2, <3>3
  <2>9. (Prompt \o Fed)' = new
    BY <1>4, <1>5 DEF new, A
  <2> QED BY <2>8, <2>9 DEF Contents
<1> QED BY <1>9, <1>10, <1>11, <1>12 DEF CacheInv

\* A repetition is taken out of the answer, not out of the cache.
LEMMA CacheAfterStop == CacheInv /\ StopOnRepeat => CacheInv'
<1> SUFFICES ASSUME CacheInv, StopOnRepeat PROVE CacheInv'
  OBVIOUS
<1>1. at = "loop" /\ ~repeated /\ ans = predicted /\ repeated'
  BY Zenon DEF CacheInv, Course, StopOnRepeat
<1>2. set \in Settings /\ ans \in Seq(Tokens) /\ idx \in Tokens
  BY <1>1 DEF CacheInv, Answers, Rows
<1>3. /\ set' = set /\ at' = at /\ offset' = offset /\ cache' = cache
      /\ idx' = idx /\ predicted' = Append(ans, idx)
      /\ ans' = DropRepeats(Append(ans, idx))
  BY DEF StopOnRepeat
<1>4. Prompt' = Prompt
  BY <1>3 DEF Prompt
<1>5. Fed = ans /\ Fed' = ans
  BY <1>1, <1>2, <1>3, FrontOfAppend DEF Fed
<1>6. predicted' \in Seq(Tokens) /\ Len(predicted') = Len(ans) + 1
  BY <1>2, <1>3, AppendProperties
<1>7. ans' \in Seq(Tokens)
  <2>1. RepeatingTail(Append(ans, idx))
    BY DEF StopOnRepeat
  <2>2. Append(ans, idx) \in Seq(Tokens)
    BY <1>2, AppendProperties
  <2>3. PICK m \in 0..Len(Append(ans, idx)) :
            ans' = SubSeq(Append(ans, idx), 1, m)
    BY <1>2, <1>3, <2>1, <2>2, StopFacts
  <2> QED BY <2>2, <2>3, PrefixFacts
<1>8. Answers'
  BY <1>2, <1>3, <1>6, <1>7 DEF Answers
<1>9. Course'
  <2>1. Len(predicted') >= 1
    BY <1>2, <1>6
  <2> QED BY <1>1, <1>3, <2>1 DEF Course
<1>10. Rows'
  BY <1>1, <1>2, <1>3, <1>4, <1>5 DEF CacheInv, Rows
<1>11. Contents'
  BY <1>3, <1>4, <1>5 DEF CacheInv, Contents
<1> QED BY <1>8, <1>9, <1>10, <1>11 DEF CacheInv

\* Every step keeps the cache equal to the text.
LEMMA CacheStep == CacheInv /\ [Next]_vars => CacheInv'
<1> SUFFICES ASSUME CacheInv, [Next]_vars PROVE CacheInv'
  OBVIOUS
<1>1. CASE FeedPrompt
  BY <1>1, CacheAfterPrompt
<1>2. CASE Accept
  BY <1>2, CacheAfterAccept
<1>3. CASE StopOnRepeat
  BY <1>3, CacheAfterStop
<1>4. ASSUME Finish \/ UNCHANGED vars
      PROVE  CacheInv'
  <2>1. /\ set' = set /\ cache' = cache /\ offset' = offset /\ idx' = idx
        /\ ans' = ans /\ predicted' = predicted /\ repeated' = repeated
        /\ at' = "prompt" => at = "prompt"
        /\ at = "prompt" => at' = "prompt"
    BY <1>4 DEF Finish, vars
  <2>2. Prompt' = Prompt /\ Fed' = Fed
    BY <2>1 DEF Prompt, Fed
  <2>3. Answers' /\ Course'
    BY <2>1 DEF CacheInv, Answers, Course
  <2>4. Rows' /\ Contents'
    BY <2>1, <2>2 DEF CacheInv, Rows, Contents
  <2> QED BY <2>3, <2>4 DEF CacheInv
<1> QED BY <1>1, <1>2, <1>3, <1>4 DEF Next

\* The cache is the text at all times.
LEMMA CacheCorrect == Spec => []CacheInv
BY CacheInit, CacheStep, PTL DEF Spec

\* What the decoder sees through its cache is the whole text so far, without a
\* gap and never past the context, for every limit (decode.py 947-958).
THEOREM CacheHoldsTheText == Spec => []CacheIsTheText
<1>1. CacheInv => CacheIsTheText
  BY DEF CacheInv, Rows, Contents, Fed, CacheIsTheText
<1> QED BY <1>1, CacheCorrect, PTL

-----------------------------------------------------------------------------
(* Repetitions.  That no prefix of an answer repeats its tail is inductive *)
(* with the types: an accepted prediction adds one prefix, which was       *)
(* tested, and a stop leaves a prefix of what was accepted.                *)

Repeats(s, times) ==
    \E k \in GramSizes :
        /\ Len(s) >= k * times
        /\ \A i \in (Len(s) - k * times + 1)..(Len(s) - k) : s[i] = s[i + k]

Kept(a, p) ==
    /\ IsPrefix(a, p)
    /\ a # p => \E k \in 1..Len(a) :
                   \A i \in (Len(a) + 1)..Len(p) : p[i] = p[i - k]

NoLoops(a, times) ==
    times >= 2 => \A i \in 1..Len(a) : ~Repeats(SubSeq(a, 1, i), times)

StopInv ==
    /\ repeated => Kept(ans, predicted)
    /\ NoLoops(ans, set.repeats)

\* The rule that stops a repetition and its definition agree.
LEMMA TailIsRepeats ==
  ASSUME NEW s
  PROVE  RepeatingTail(s) <=> Repeats(s, set.repeats)
BY DEF RepeatingTail, EndsInRepeat, Repeats

\* What the stop takes out repeats what it keeps.
LEMMA StopKeeps ==
  ASSUME set \in Settings, NEW s \in Seq(Tokens), RepeatingTail(s)
  PROVE  Kept(DropRepeats(s), s)
<1>1. PICK m \in 0..Len(s) :
          /\ DropRepeats(s) = SubSeq(s, 1, m)
          /\ m # Len(s) => \E k \in 1..m :
                              \A i \in (m + 1)..Len(s) : s[i] = s[i - k]
  BY StopFacts
<1> DEFINE a == SubSeq(s, 1, m)
<1>2. a \in Seq(Tokens) /\ Len(a) = m
  BY PrefixFacts
<1>3. SubSeq(a, 1, m) = a
  BY <1>2, WholePrefix
<1>4. a # s => m # Len(s)
  BY WholePrefix
<1>5. IsPrefix(a, s)
  BY <1>2, <1>3 DEF IsPrefix
<1> HIDE DEF a
<1>6. a # s => \E k \in 1..Len(a) :
                 \A i \in (Len(a) + 1)..Len(s) : s[i] = s[i - k]
  BY <1>1, <1>2, <1>4
<1> QED BY <1>1, <1>5, <1>6 DEF Kept, a

\* An answer that is not stopped has no group said too often.
LEMMA LoopsAfterAppend ==
  ASSUME NEW s \in Seq(Tokens), NEW e \in Tokens, NEW times \in Int,
         NoLoops(s, times), ~Repeats(Append(s, e), times)
  PROVE  NoLoops(Append(s, e), times)
<1> DEFINE t == Append(s, e)
<1> SUFFICES ASSUME times >= 2, NEW i \in 1..Len(t)
             PROVE  ~Repeats(SubSeq(t, 1, i), times)
  BY DEF NoLoops
<1>1. t \in Seq(Tokens) /\ Len(t) = Len(s) + 1
  BY AppendProperties
<1>2. CASE i = Len(t)
  BY <1>1, <1>2, WholePrefix
<1>3. CASE i # Len(t)
  <2>1. i \in 0..Len(s) /\ i \in 1..Len(s)
    BY <1>1, <1>3
  <2>2. SubSeq(t, 1, i) = SubSeq(s, 1, i)
    BY <2>1, PrefixOfAppend
  <2> QED BY <2>1, <2>2 DEF NoLoops
<1> QED BY <1>2, <1>3

\* Nor has one that is stopped, once the repetition is out.
LEMMA LoopsAfterStop ==
  ASSUME set \in Settings, NEW s \in Seq(Tokens), NEW e \in Tokens,
         NoLoops(s, set.repeats), RepeatingTail(Append(s, e))
  PROVE  NoLoops(DropRepeats(Append(s, e)), set.repeats)
<1> DEFINE t == Append(s, e)
<1>1. t \in Seq(Tokens) /\ Len(t) = Len(s) + 1
  BY AppendProperties
<1>2. PICK m \in 0..Len(t) :
          DropRepeats(t) = SubSeq(t, 1, m) /\ (set.repeats >= 2 => m < Len(t))
  BY <1>1, StopFacts
<1> HIDE DEF t
<1> SUFFICES ASSUME set.repeats >= 2, NEW i \in 1..Len(SubSeq(t, 1, m))
             PROVE  ~Repeats(SubSeq(SubSeq(t, 1, m), 1, i), set.repeats)
  BY <1>2 DEF NoLoops, t
<1>3. Len(SubSeq(t, 1, m)) = m
  BY <1>1, PrefixFacts
<1>4. i \in 0..m /\ i \in 0..Len(s) /\ i \in 1..Len(s)
  BY <1>1, <1>2, <1>3
<1>5. SubSeq(SubSeq(t, 1, m), 1, i) = SubSeq(t, 1, i)
  BY <1>1, <1>4, PrefixOfPrefix
<1>6. SubSeq(t, 1, i) = SubSeq(s, 1, i)
  BY <1>4, PrefixOfAppend DEF t
<1> QED BY <1>4, <1>5, <1>6 DEF NoLoops

\* There is no answer at first.
LEMMA StopInit == Init => StopInv
<1> SUFFICES ASSUME Init PROVE StopInv
  OBVIOUS
<1>1. ~repeated
  BY Zenon DEF Init
<1>2. Len(ans) = 0
  BY DEF Init
<1>3. NoLoops(ans, set.repeats)
  BY <1>2 DEF NoLoops
<1> QED BY <1>1, <1>3 DEF StopInv

\* Every step keeps the answer free of repetitions.
LEMMA StopStep == CacheInv /\ StopInv /\ [Next]_vars => StopInv'
<1> SUFFICES ASSUME CacheInv, StopInv, [Next]_vars PROVE StopInv'
  OBVIOUS
<1>1. set \in Settings /\ ans \in Seq(Tokens) /\ set.repeats \in Int
  BY SettingTypes DEF CacheInv, Answers
<1>2. NoLoops(ans, set.repeats)
  BY DEF StopInv
<1>3. CASE Accept
  <2>1. ~repeated' /\ ~RepeatingTail(Append(ans, idx))
    BY <1>3, Zenon DEF Accept
  <2>2. ans' = Append(ans, idx) /\ set' = set /\ idx \in Tokens
    BY <1>3 DEF Accept, CacheInv, Rows
  <2>3. ~Repeats(Append(ans, idx), set.repeats)
    BY <2>1, TailIsRepeats
  <2>4. NoLoops(ans', set'.repeats)
    BY <1>1, <1>2, <2>2, <2>3, LoopsAfterAppend
  <2> QED BY <2>1, <2>4 DEF StopInv
<1>4. CASE StopOnRepeat
  <2>1. /\ RepeatingTail(Append(ans, idx)) /\ set' = set /\ idx \in Tokens
        /\ predicted' = Append(ans, idx)
        /\ ans' = DropRepeats(Append(ans, idx))
    BY <1>4 DEF StopOnRepeat, CacheInv, Rows
  <2>2. Append(ans, idx) \in Seq(Tokens)
    BY <1>1, <2>1, AppendProperties
  <2>3. Kept(ans', predicted')
    BY <1>1, <2>1, <2>2, StopKeeps
  <2>4. NoLoops(ans', set'.repeats)
    BY <1>1, <1>2, <2>1, LoopsAfterStop
  <2> QED BY <2>3, <2>4 DEF StopInv
<1>5. ASSUME FeedPrompt \/ Finish \/ UNCHANGED vars
      PROVE  StopInv'
  <2>1. /\ set' = set /\ ans' = ans /\ predicted' = predicted
        /\ repeated' = repeated
    BY <1>5 DEF FeedPrompt, Finish, vars
  <2> QED BY <2>1 DEF StopInv
<1> QED BY <1>3, <1>4, <1>5 DEF Next

\* Whatever is predicted and whatever WHISPER_MAX_NGRAM_REPEAT is, a stop takes
\* out only what it has shown to be repeated, and leaves no repetition
\* (decode.py 939-946).
THEOREM RepetitionsTakenOut == Spec => []OnlyRepetitionDropped
<1>1. CacheInv /\ StopInv => OnlyRepetitionDropped
  <2> SUFFICES ASSUME CacheInv, StopInv PROVE OnlyRepetitionDropped
    OBVIOUS
  <2>1. Kept(ans, predicted)
    <3>1. CASE repeated
      BY <3>1 DEF StopInv
    <3>2. CASE ~repeated
      <4>1. ans = predicted /\ ans \in Seq(Tokens)
        BY <3>2 DEF CacheInv, Course, Answers
      <4>2. IsPrefix(ans, ans)
        BY <4>1 DEF IsPrefix
      <4> QED BY <4>1, <4>2 DEF Kept
    <3>3. repeated \/ ~repeated
      OBVIOUS
    <3> QED BY <3>1, <3>2, <3>3
  <2>2. ans # predicted => repeated
    BY DEF CacheInv, Course
  <2>3. set.repeats >= 2 =>
            \A i \in 1..Len(ans) : ~RepeatingTail(SubSeq(ans, 1, i))
    BY TailIsRepeats DEF StopInv, NoLoops
  <2> QED BY <2>1, <2>2, <2>3 DEF Kept, OnlyRepetitionDropped
<1>2. Spec => [](CacheInv /\ StopInv)
  BY CacheInit, CacheStep, StopInit, StopStep, PTL DEF Spec
<1> QED BY <1>1, <1>2, PTL

-----------------------------------------------------------------------------
(* Numbers of an interval, from below and from above.                      *)

\* What goes on to a number from those before it holds for all.
LEMMA AllUp ==
  ASSUME NEW a \in Nat, NEW c \in Nat, NEW G,
         \A u \in a..c : (\A v \in a..(u - 1) : v \in G) => u \in G
  PROVE  \A u \in a..c : u \in G
<1> DEFINE T == (a..c) \ G
<1>1. SUFFICES ASSUME T # {} PROVE FALSE
  OBVIOUS
<1>2. PICK x \in T : \A y \in T : ~(y < x)
  <2>1. T \subseteq Nat
    OBVIOUS
  <2> HIDE DEF T
  <2>2. PICK x \in T : \A y \in T : <<y, x>> \notin OpToRel(<, Nat)
    BY <1>1, <2>1, NatLessThanWellFounded, WFMin
  <2>3. \A y \in T : ~(y < x)
    BY <2>1, <2>2 DEF OpToRel
  <2> QED BY <2>3
<1>3. \A v \in a..(x - 1) : v \in a..c /\ v < x
  OBVIOUS
<1>4. \A v \in a..(x - 1) : v \in G
  BY <1>2, <1>3
<1> QED BY <1>4

\* And what goes on to it from those after it.
LEMMA AllDown ==
  ASSUME NEW a \in Nat, NEW c \in Nat, NEW G,
         \A u \in a..c : (\A v \in (u + 1)..c : v \in G) => u \in G
  PROVE  \A u \in a..c : u \in G
<1> DEFINE H == {t \in a..c : a + c - t \in G}
<1>1. ASSUME NEW u \in a..c, \A v \in a..(u - 1) : v \in H
      PROVE  u \in H
  <2> DEFINE x == a + c - u
  <2>1. x \in a..c
    OBVIOUS
  <2>2. ASSUME NEW v \in (x + 1)..c PROVE v \in G
    <3>1. a + c - v \in a..(u - 1) /\ a + c - (a + c - v) = v
      BY <2>1
    <3>2. a + c - v \in H
      BY <3>1, <1>1
    <3> QED BY <3>1, <3>2
  <2> HIDE DEF x
  <2>3. x \in G
    BY <2>1, <2>2
  <2> QED BY <2>3 DEF x
<1>2. \A u \in a..c : u \in H
  <2> HIDE DEF H
  <2> QED BY <1>1, AllUp
<1>3. ASSUME NEW u \in a..c PROVE u \in G
  <2>1. a + c - u \in a..c /\ a + c - (a + c - u) = u
    OBVIOUS
  <2>2. a + c - u \in H
    BY <1>2, <2>1
  <2> QED BY <2>1, <2>2
<1> QED BY <1>3

-----------------------------------------------------------------------------
(* The text of an answer.                                                  *)

\* The timestamp after a position is the first one, if there is one.
LEMMA NextStampFacts ==
  ASSUME NEW S, NEW s \in Seq(S), NEW i \in 1..Len(s)
  PROVE  /\ NextStamp(s, i) \in (i + 1)..(Len(s) + 1)
         /\ NextStamp(s, i) <= Len(s) => s[NextStamp(s, i)] \in Stamps
         /\ NoStamps(s, i + 1, NextStamp(s, i) - 1)
<1> DEFINE Is(e) == /\ e <= Len(s) => s[e] \in Stamps
                    /\ \A f \in (i + 1)..(e - 1) : s[f] \notin Stamps
           x == CHOOSE e \in (i + 1)..(Len(s) + 1) : Is(e)
<1>1. Len(s) \in Nat /\ i \in Nat /\ Len(s) + 1 \in (i + 1)..(Len(s) + 1)
  OBVIOUS
<1>2. \E e \in (i + 1)..(Len(s) + 1) : Is(e)
  <2>1. SUFFICES ASSUME \A e \in (i + 1)..(Len(s) + 1) : ~Is(e) PROVE FALSE
    OBVIOUS
  <2> DEFINE G == {e \in (i + 1)..Len(s) : s[e] \notin Stamps}
  <2>2. ASSUME NEW u \in (i + 1)..Len(s), \A v \in (i + 1)..(u - 1) : v \in G
        PROVE  u \in G
    <3>1. u \in (i + 1)..(Len(s) + 1)
      BY <1>1
    <3>2. \A f \in (i + 1)..(u - 1) : s[f] \notin Stamps
      BY <2>2
    <3> QED BY <2>1, <3>1, <3>2
  <2>3. \A u \in (i + 1)..Len(s) : u \in G
    <3>1. i + 1 \in Nat
      BY <1>1
    <3> HIDE DEF G
    <3> QED BY <1>1, <2>2, <3>1, AllUp
  <2>4. ~(Len(s) + 1 <= Len(s)) /\ Len(s) + 1 - 1 = Len(s)
    BY <1>1
  <2>5. Is(Len(s) + 1)
    BY <2>3, <2>4
  <2> QED BY <1>1, <2>1, <2>5
<1>3. x \in (i + 1)..(Len(s) + 1) /\ Is(x)
  <2> HIDE DEF Is
  <2> QED BY <1>2
<1>4. x = NextStamp(s, i)
  BY DEF NextStamp
<1> HIDE DEF x
<1> QED BY <1>3, <1>4 DEF NoStamps

\* A timestamp is not half of a character: what is between two of them is
\* whole.
LEMMA BetweenStampsIsValid ==
  ASSUME NEW S, NEW s \in Seq(S), Valid(s), NEW i \in 1..Len(s),
         s[i] \in Stamps
  PROVE  Valid(Segment(s, i, NextStamp(s, i)).text)
<1> DEFINE e == NextStamp(s, i)
           t == SubSeq(s, i + 1, e - 1)
<1>1. /\ e \in (i + 1)..(Len(s) + 1)
      /\ e <= Len(s) => s[e] \in Stamps
  BY NextStampFacts
<1>2. Segment(s, i, e).text = t
  BY DEF Segment
<1> HIDE DEF e
<1>3. Len(s) \in Nat /\ i \in Nat /\ e \in Nat
  BY <1>1
<1>4. /\ Len(t) = e - 1 - i
      /\ \A j \in 1..(e - 1 - i) : t[j] = s[i + j]
      /\ DOMAIN t = 1..(e - 1 - i)
  BY <1>1, <1>3
<1> HIDE DEF t
<1>5. \A j \in 1..Len(s) :
          /\ s[j] = Lead => j < Len(s) /\ s[j + 1] = Trail
          /\ s[j] = Trail => j > 1 /\ s[j - 1] = Lead
  <2>1. DOMAIN s = 1..Len(s)
    OBVIOUS
  <2> QED BY <2>1 DEF Valid
<1>6. ASSUME NEW j \in 1..(e - 1 - i)
      PROVE  /\ t[j] = Lead => j < e - 1 - i /\ t[j + 1] = Trail
             /\ t[j] = Trail => j > 1 /\ t[j - 1] = Lead
  <2>1. i + j \in 1..Len(s) /\ t[j] = s[i + j]
    BY <1>1, <1>3, <1>4
  <2>2. ASSUME t[j] = Lead PROVE j < e - 1 - i /\ t[j + 1] = Trail
    <3>1. i + j < Len(s) /\ s[i + j + 1] = Trail
      BY <2>1, <2>2, <1>5
    <3>2. i + j + 1 # e
      <4>1. SUFFICES ASSUME i + j + 1 = e PROVE FALSE
        OBVIOUS
      <4>2. e <= Len(s)
        BY <3>1, <4>1, <1>3
      <4> QED BY <3>1, <4>1, <4>2, <1>1
    <3>3. j + 1 \in 1..(e - 1 - i) /\ i + (j + 1) = i + j + 1
      BY <3>2, <1>1, <1>3
    <3>4. t[j + 1] = s[i + j + 1]
      BY <3>3, <1>4
    <3>5. j < e - 1 - i
      BY <3>3, <1>3
    <3> QED BY <3>1, <3>4, <3>5
  <2>3. ASSUME t[j] = Trail PROVE j > 1 /\ t[j - 1] = Lead
    <3> DEFINE p == i + j
    <3>0. p \in 1..Len(s) /\ s[p] = Trail
      BY <2>1, <2>3
    <3> HIDE DEF p
    <3>01. s[p - 1] = Lead
      BY <3>0, <1>5
    <3>1. s[i + j - 1] = Lead
      BY <3>01 DEF p
    <3>2. j # 1
      <4>1. SUFFICES ASSUME j = 1 PROVE FALSE
        OBVIOUS
      <4>2. i + j - 1 = i
        BY <4>1, <1>3
      <4> QED BY <3>1, <4>2
    <3>3. j > 1 /\ j - 1 \in 1..(e - 1 - i) /\ i + (j - 1) = i + j - 1
      BY <3>2, <1>1, <1>3
    <3>4. t[j - 1] = s[i + j - 1]
      BY <3>3, <1>4
    <3> QED BY <3>1, <3>3, <3>4
  <2> QED BY <2>2, <2>3
<1>7. Valid(t)
  BY <1>4, <1>6 DEF Valid
<1> QED BY <1>2, <1>7 DEF e

\* The scan from each position of s on.
Scan(s, F) ==
    F = [i \in 1..(Len(s) + 2) |->
            IF i > Len(s) THEN <<>>
            ELSE IF s[i] \notin Stamps THEN F[i + 1]
            ELSE Spoken(Segment(s, i, NextStamp(s, i)))
                     \o F[NextStamp(s, i) + 1]]

\* The scan ends.
LEMMA ScanExists ==
  ASSUME NEW S, NEW s \in Seq(S)
  PROVE  \E F : Scan(s, F)
<1> DEFINE N == Len(s) + 2
           Down(i, F) ==
               F = [x \in i..N |->
                       IF x > Len(s) THEN <<>>
                       ELSE IF s[x] \notin Stamps THEN F[x + 1]
                       ELSE Spoken(Segment(s, x, NextStamp(s, x)))
                                \o F[NextStamp(s, x) + 1]]
           G == {i \in 1..N : \E F : Down(i, F)}
<1>0. Len(s) \in Nat /\ N \in Nat /\ N = Len(s) + 2
  OBVIOUS
<1>1. ASSUME NEW i \in 1..N, \A v \in (i + 1)..N : v \in G
      PROVE  i \in G
  <2>1. CASE i > Len(s)
    <3>1. Down(i, [x \in i..N |-> <<>>])
      <4>1. \A x \in i..N : x > Len(s)
        BY <2>1, <1>0
      <4> QED BY <4>1
    <3> QED BY <3>1
  <2>2. CASE ~(i > Len(s))
    <3>1. i + 1 \in (i + 1)..N
      BY <2>2, <1>0
    <3>2. PICK E : Down(i + 1, E)
      BY <3>1, <1>1
    <3> DEFINE F == [x \in i..N |->
                        IF x > Len(s) THEN <<>>
                        ELSE IF s[x] \notin Stamps THEN E[x + 1]
                        ELSE Spoken(Segment(s, x, NextStamp(s, x)))
                                 \o E[NextStamp(s, x) + 1]]
    <3>3. ASSUME NEW x \in (i + 1)..N PROVE F[x] = E[x]
      <4>1. x \in i..N
        BY <1>0
      <4>2. E[x] = IF x > Len(s) THEN <<>>
                   ELSE IF s[x] \notin Stamps THEN E[x + 1]
                   ELSE Spoken(Segment(s, x, NextStamp(s, x)))
                            \o E[NextStamp(s, x) + 1]
        BY <3>2
      <4>3. F[x] = IF x > Len(s) THEN <<>>
                   ELSE IF s[x] \notin Stamps THEN E[x + 1]
                   ELSE Spoken(Segment(s, x, NextStamp(s, x)))
                            \o E[NextStamp(s, x) + 1]
        BY <4>1
      <4> QED BY <4>2, <4>3
    <3>4. ASSUME NEW x \in i..N
          PROVE  F[x] = IF x > Len(s) THEN <<>>
                        ELSE IF s[x] \notin Stamps THEN F[x + 1]
                        ELSE Spoken(Segment(s, x, NextStamp(s, x)))
                                 \o F[NextStamp(s, x) + 1]
      <4>1. F[x] = IF x > Len(s) THEN <<>>
                   ELSE IF s[x] \notin Stamps THEN E[x + 1]
                   ELSE Spoken(Segment(s, x, NextStamp(s, x)))
                            \o E[NextStamp(s, x) + 1]
        OBVIOUS
      <4>2. CASE x > Len(s)
        BY <4>1, <4>2
      <4>3. CASE ~(x > Len(s))
        <5>1. x \in 1..Len(s) /\ x + 1 \in (i + 1)..N
          BY <4>3, <1>0
        <5>2. NextStamp(s, x) \in (x + 1)..(Len(s) + 1)
          BY <5>1, NextStampFacts
        <5>3. NextStamp(s, x) + 1 \in (i + 1)..N
          BY <5>1, <5>2, <1>0
        <5>4. /\ F[x + 1] = E[x + 1]
              /\ F[NextStamp(s, x) + 1] = E[NextStamp(s, x) + 1]
          <6> HIDE DEF F, N
          <6> QED BY <3>3, <5>1, <5>3
        <5> HIDE DEF F, N
        <5> QED BY <4>1, <5>4
      <4> QED BY <4>2, <4>3
    <3>5. F = [x \in i..N |-> F[x]]
      OBVIOUS
    <3>6. Down(i, F)
      <4> HIDE DEF F, N
      <4> QED BY <3>4, <3>5
    <3> QED BY <3>6
  <2> QED BY <2>1, <2>2
<1>2. \A i \in 1..N : i \in G
  <2>1. 1 \in Nat
    OBVIOUS
  <2> HIDE DEF G, N
  <2> QED BY <1>0, <1>1, <2>1, AllDown
<1>3. 1 \in 1..N
  BY <1>0
<1>4. PICK F : Down(1, F)
  BY <1>2, <1>3
<1> QED BY <1>4 DEF Scan

\* Pairs returns the scan from the first position on.
LEMMA PairsScan ==
  ASSUME NEW S, NEW s \in Seq(S)
  PROVE  \E F : Scan(s, F) /\ Pairs(s) = F[1]
<1> DEFINE G == CHOOSE F : Scan(s, F)
<1>1. Scan(s, G)
  BY ScanExists
<1>2. Pairs(s) = G[1]
  BY DEF Pairs, Scan
<1> QED BY <1>1, <1>2

\* The segments that the scan can make.
Segments(s) ==
    {Segment(s, j, NextStamp(s, j)) :
        j \in {k \in 1..Len(s) : s[k] \in Stamps}}

\* The scan makes no others.
LEMMA ScanMakes ==
  ASSUME NEW S, NEW s \in Seq(S), NEW F, Scan(s, F)
  PROVE  \A i \in 1..(Len(s) + 2) : F[i] \in Seq(Segments(s))
<1> DEFINE N == Len(s) + 2
           G == {i \in 1..N : F[i] \in Seq(Segments(s))}
<1>0. Len(s) \in Nat /\ N \in Nat /\ N = Len(s) + 2
  OBVIOUS
<1>1. ASSUME NEW i \in 1..N, \A v \in (i + 1)..N : v \in G
      PROVE  i \in G
  <2>1. F[i] = IF i > Len(s) THEN <<>>
               ELSE IF s[i] \notin Stamps THEN F[i + 1]
               ELSE Spoken(Segment(s, i, NextStamp(s, i)))
                        \o F[NextStamp(s, i) + 1]
    BY DEF Scan
  <2>2. CASE i > Len(s)
    <3>1. F[i] = <<>> /\ <<>> \in Seq(Segments(s))
      BY <2>1, <2>2, EmptySeq
    <3> QED BY Zenon, <3>1
  <2>3. CASE ~(i > Len(s)) /\ s[i] \notin Stamps
    <3>1. F[i] = F[i + 1]
      BY <2>1, <2>3
    <3>2. i + 1 \in (i + 1)..N
      BY <2>3, <1>0
    <3>3. i + 1 \in G
      BY <3>2, <1>1
    <3> QED BY <3>1, <3>3
  <2>4. CASE ~(i > Len(s)) /\ s[i] \in Stamps
    <3> DEFINE e == NextStamp(s, i)
               x == Segment(s, i, e)
    <3>1. i \in 1..Len(s)
      BY <2>4, <1>0
    <3>2. e \in (i + 1)..(Len(s) + 1)
      BY <3>1, NextStampFacts
    <3>3. e + 1 \in (i + 1)..N
      BY <3>1, <3>2, <1>0
    <3>4. F[e + 1] \in Seq(Segments(s))
      BY <3>3, <1>1
    <3>5. x \in Segments(s)
      BY <2>4, <3>1 DEF Segments
    <3>6. F[i] = Spoken(x) \o F[e + 1]
      BY <2>1, <2>4
    <3> HIDE DEF x, e
    <3>7. Spoken(x) \in Seq(Segments(s))
      BY <3>5 DEF Spoken
    <3>8. F[i] \in Seq(Segments(s))
      BY <3>4, <3>6, <3>7
    <3> QED BY <3>8
  <2> QED BY <2>2, <2>3, <2>4
<1>2. \A i \in 1..N : i \in G
  <2>1. 1 \in Nat
    OBVIOUS
  <2> HIDE DEF G, N
  <2> QED BY <1>0, <1>1, <2>1, AllDown
<1> QED BY <1>2

\* The text ids of s up to each position.
Ids(s, F) ==
    F = [i \in 0..Len(s) |-> IF i = 0 THEN <<>>
                             ELSE IF s[i] \in Plain THEN Append(F[i - 1], s[i])
                             ELSE F[i - 1]]

\* They can be listed.
LEMMA IdsExist ==
  ASSUME NEW S, NEW s \in Seq(S)
  PROVE  \E F : Ids(s, F) /\ TextIds(s) = F[Len(s)]
<1> DEFINE Up(k, F) ==
               F = [i \in 0..k |-> IF i = 0 THEN <<>>
                                   ELSE IF s[i] \in Plain
                                   THEN Append(F[i - 1], s[i])
                                   ELSE F[i - 1]]
           G == {k \in 0..Len(s) : \E F : Up(k, F)}
<1>0. Len(s) \in Nat /\ 0 \in Nat /\ Len(s) \in 0..Len(s)
  OBVIOUS
<1>1. ASSUME NEW k \in 0..Len(s), \A v \in 0..(k - 1) : v \in G
      PROVE  k \in G
  <2>1. CASE k = 0
    <3>1. Up(0, [i \in 0..0 |-> <<>>])
      OBVIOUS
    <3> QED BY <2>1, <3>1
  <2>2. CASE k # 0
    <3>1. k - 1 \in 0..(k - 1)
      BY <2>2, <1>0
    <3>2. PICK E : Up(k - 1, E)
      BY <3>1, <1>1
    <3> DEFINE F == [i \in 0..k |-> IF i = 0 THEN <<>>
                                    ELSE IF s[i] \in Plain
                                    THEN Append(E[i - 1], s[i])
                                    ELSE E[i - 1]]
    <3>3. ASSUME NEW i \in 0..k, i # 0 PROVE F[i - 1] = E[i - 1]
      <4>1. i - 1 \in 0..k /\ i - 1 \in 0..(k - 1)
        BY <3>3, <1>0
      <4>2. E[i - 1] = IF i - 1 = 0 THEN <<>>
                       ELSE IF s[i - 1] \in Plain
                       THEN Append(E[i - 1 - 1], s[i - 1])
                       ELSE E[i - 1 - 1]
        BY <3>2, <4>1
      <4>3. F[i - 1] = IF i - 1 = 0 THEN <<>>
                       ELSE IF s[i - 1] \in Plain
                       THEN Append(E[i - 1 - 1], s[i - 1])
                       ELSE E[i - 1 - 1]
        BY <4>1
      <4> QED BY <4>2, <4>3
    <3>4. Up(k, F)
      BY <3>3
    <3> QED BY <3>4
  <2> QED BY <2>1, <2>2
<1>2. \A k \in 0..Len(s) : k \in G
  <2> HIDE DEF G
  <2> QED BY <1>0, <1>1, AllUp
<1>3. \E F : Ids(s, F)
  BY <1>0, <1>2 DEF Ids
<1> DEFINE H == CHOOSE F : Ids(s, F)
<1>4. Ids(s, H)
  BY <1>3
<1>5. TextIds(s) = H[Len(s)]
  BY DEF TextIds, Ids
<1> QED BY <1>4, <1>5

\* Valid but for a first half at the end.
Open(t) ==
    \A j \in 1..Len(t) :
        /\ t[j] = Lead /\ j < Len(t) => t[j + 1] = Trail
        /\ t[j] = Trail => j > 1 /\ t[j - 1] = Lead

EndsOpen(t) == Len(t) > 0 /\ t[Len(t)] = Lead

\* A token more: the second half if there is a first one.
LEMMA OneMoreId ==
  ASSUME NEW t \in Seq(Plain), Open(t), NEW x \in Plain,
         EndsOpen(t) <=> x = Trail
  PROVE  Open(Append(t, x)) /\ (EndsOpen(Append(t, x)) <=> x = Lead)
<1> DEFINE u == Append(t, x)
<1>1. /\ Len(t) \in Nat /\ Len(u) = Len(t) + 1
      /\ \A j \in 1..Len(t) : u[j] = t[j]
      /\ u[Len(t) + 1] = x
  OBVIOUS
<1> HIDE DEF u
<1>2. EndsOpen(u) <=> x = Lead
  BY <1>1 DEF EndsOpen
<1>3. ASSUME NEW j \in 1..Len(u)
      PROVE  /\ u[j] = Lead /\ j < Len(u) => u[j + 1] = Trail
             /\ u[j] = Trail => j > 1 /\ u[j - 1] = Lead
  <2>1. CASE j = Len(t) + 1
    <3>1. ~(j < Len(u))
      BY <2>1, <1>1
    <3>2. ASSUME u[j] = Trail PROVE j > 1 /\ u[j - 1] = Lead
      <4>1. Len(t) > 0 /\ t[Len(t)] = Lead
        BY <2>1, <3>2, <1>1 DEF EndsOpen
      <4>2. j - 1 = Len(t) /\ Len(t) \in 1..Len(t)
        BY <2>1, <4>1, <1>1
      <4> QED BY <4>1, <4>2, <1>1
    <3> QED BY <3>1, <3>2
  <2>2. CASE j = Len(t)
    <3>1. j \in 1..Len(t) /\ u[j] = t[j]
      BY <2>2, <1>1
    <3>2. ASSUME u[j] = Lead PROVE u[j + 1] = Trail
      <4>1. EndsOpen(t)
        BY <2>2, <3>1, <3>2 DEF EndsOpen
      <4> QED BY <2>2, <4>1, <1>1
    <3>3. ASSUME u[j] = Trail PROVE j > 1 /\ u[j - 1] = Lead
      <4>1. j > 1 /\ t[j - 1] = Lead
        BY <3>1, <3>3 DEF Open
      <4>2. j - 1 \in 1..Len(t)
        BY <3>1, <4>1, <1>1
      <4> QED BY <4>1, <4>2, <1>1
    <3> QED BY <3>2, <3>3
  <2>3. CASE j < Len(t)
    <3>1. /\ j \in 1..Len(t) /\ u[j] = t[j]
          /\ j + 1 \in 1..Len(t) /\ u[j + 1] = t[j + 1]
      BY <2>3, <1>1
    <3>2. ASSUME u[j] = Trail PROVE j > 1 /\ u[j - 1] = Lead
      <4>1. j > 1 /\ t[j - 1] = Lead
        BY <3>1, <3>2 DEF Open
      <4>2. j - 1 \in 1..Len(t)
        BY <3>1, <4>1, <1>1
      <4> QED BY <4>1, <4>2, <1>1
    <3> QED BY <2>3, <3>1, <3>2 DEF Open
  <2> QED BY <2>1, <2>2, <2>3, <1>1
<1>4. Open(u)
  BY <1>3 DEF Open
<1> QED BY <1>2, <1>4 DEF u

\* Taking timestamps out of valid text parts no character.
LEMMA WholeIsValid ==
  ASSUME NEW S, NEW s \in Seq(S), Valid(s)
  PROVE  Valid(TextIds(s))
<1>1. PICK F : Ids(s, F) /\ TextIds(s) = F[Len(s)]
  BY IdsExist
<1> DEFINE G == {k \in 0..Len(s) :
                    /\ F[k] \in Seq(Plain) /\ Open(F[k])
                    /\ EndsOpen(F[k]) <=> k > 0 /\ s[k] = Lead}
<1>2. Len(s) \in Nat /\ 0 \in Nat /\ Len(s) \in 0..Len(s)
  OBVIOUS
<1>3. \A j \in 1..Len(s) :
          /\ s[j] = Lead => j < Len(s) /\ s[j + 1] = Trail
          /\ s[j] = Trail => j > 1 /\ s[j - 1] = Lead
  <2>1. DOMAIN s = 1..Len(s)
    OBVIOUS
  <2> QED BY <2>1 DEF Valid
<1>4. ASSUME NEW k \in 0..Len(s), \A v \in 0..(k - 1) : v \in G
      PROVE  k \in G
  <2>1. CASE k = 0
    <3>1. F[0] = <<>>
      BY <2>1, <1>1 DEF Ids
    <3>2. <<>> \in Seq(Plain) /\ Len(<<>>) = 0
      OBVIOUS
    <3>3. Open(<<>>) /\ ~EndsOpen(<<>>)
      BY <3>2 DEF Open, EndsOpen
    <3>4. F[0] \in Seq(Plain) /\ Open(F[0]) /\ ~EndsOpen(F[0])
      BY Zenon, <3>1, <3>2, <3>3
    <3>5. ~(k > 0)
      BY <2>1
    <3> QED BY <2>1, <3>4, <3>5
  <2>2. CASE k # 0
    <3> DEFINE t == F[k - 1]
    <3>1. k \in 1..Len(s) /\ k - 1 \in 0..(k - 1) /\ k > 0
      BY <2>2, <1>2
    <3>2. F[k] = IF s[k] \in Plain THEN Append(t, s[k]) ELSE t
      BY <2>2, <1>1 DEF Ids
    <3>3. /\ t \in Seq(Plain) /\ Open(t)
          /\ EndsOpen(t) <=> k - 1 > 0 /\ s[k - 1] = Lead
      BY <3>1, <1>4
    <3> HIDE DEF t
    <3>4. EndsOpen(t) <=> s[k] = Trail
      <4>1. ASSUME EndsOpen(t) PROVE s[k] = Trail
        <5>1. k - 1 \in 1..Len(s) /\ s[k - 1] = Lead
          BY <3>1, <3>3, <4>1
        <5>2. s[(k - 1) + 1] = Trail
          BY <5>1, <1>3
        <5>3. (k - 1) + 1 = k
          BY <3>1
        <5> QED BY <5>2, <5>3
      <4>2. ASSUME s[k] = Trail PROVE EndsOpen(t)
        <5>1. k > 1 /\ s[k - 1] = Lead
          BY <3>1, <4>2, <1>3
        <5> QED BY <3>1, <3>3, <5>1
      <4> QED BY <4>1, <4>2
    <3>5. Lead \in Plain /\ Trail \in Plain
      BY DEF Plain
    <3>6. CASE s[k] \in Plain
      <4>1. /\ Open(Append(t, s[k]))
            /\ EndsOpen(Append(t, s[k])) <=> s[k] = Lead
        BY <3>3, <3>4, <3>6, OneMoreId
      <4>2. F[k] = Append(t, s[k]) /\ F[k] \in Seq(Plain)
        BY <3>2, <3>3, <3>6
      <4>3. Open(F[k]) /\ (EndsOpen(F[k]) <=> s[k] = Lead)
        BY Zenon, <4>1, <4>2
      <4> QED BY <3>1, <4>2, <4>3
    <3>7. CASE s[k] \notin Plain
      <4>1. F[k] = t /\ ~EndsOpen(t) /\ s[k] # Lead
        BY <3>2, <3>4, <3>5, <3>7
      <4>2. Open(F[k]) /\ ~EndsOpen(F[k]) /\ F[k] \in Seq(Plain)
        BY Zenon, <4>1, <3>3
      <4> QED BY <4>1, <4>2
    <3> QED BY <3>6, <3>7
  <2> QED BY <2>1, <2>2
<1>5. \A k \in 0..Len(s) : k \in G
  <2> HIDE DEF G
  <2> QED BY <1>2, <1>4, AllUp
<1> DEFINE t == F[Len(s)]
<1>6. /\ t \in Seq(Plain) /\ Open(t)
      /\ EndsOpen(t) <=> Len(s) > 0 /\ s[Len(s)] = Lead
  BY <1>2, <1>5
<1> HIDE DEF t
<1>7. ~EndsOpen(t)
  <2>1. ASSUME Len(s) > 0, s[Len(s)] = Lead PROVE FALSE
    <3>1. Len(s) \in 1..Len(s)
      BY <2>1, <1>2
    <3>2. Len(s) < Len(s)
      BY <2>1, <3>1, <1>3
    <3> QED BY <3>2, <1>2
  <2> QED BY <2>1, <1>6
<1>8. Len(t) \in Nat
  BY <1>6
<1>9. ASSUME NEW j \in 1..Len(t)
      PROVE  /\ t[j] = Lead => j < Len(t) /\ t[j + 1] = Trail
             /\ t[j] = Trail => j > 1 /\ t[j - 1] = Lead
  <2>1. ASSUME t[j] = Lead PROVE j < Len(t)
    <3>1. j # Len(t)
      BY <2>1, <1>7, <1>8 DEF EndsOpen
    <3> QED BY <3>1, <1>8
  <2> QED BY <2>1, <1>6 DEF Open
<1>10. Valid(t)
  <2>1. DOMAIN t = 1..Len(t)
    BY <1>6
  <2> QED BY <2>1, <1>9 DEF Valid
<1> QED BY <1>1, <1>10 DEF t

\* The segments of a valid answer are valid.
LEMMA PairsAreValid ==
  ASSUME NEW S, NEW s \in Seq(S), Valid(s)
  PROVE  \A k \in DOMAIN Pairs(s) : Valid(Pairs(s)[k].text)
<1>1. PICK F : Scan(s, F) /\ Pairs(s) = F[1]
  BY PairsScan
<1>2. 1 \in 1..(Len(s) + 2)
  OBVIOUS
<1>3. Pairs(s) \in Seq(Segments(s))
  BY <1>1, <1>2, ScanMakes
<1>4. \A x \in Segments(s) : Valid(x.text)
  BY BetweenStampsIsValid DEF Segments
<1> QED BY <1>3, <1>4

CutInv ==
    /\ repeated => idx # EOT
    /\ OnlyStopsCutCharacters

\* What a valid answer becomes is valid.
LEMMA FinishOfValid ==
  ASSUME NEW S, ans \in Seq(S), Valid(ans), Finish
  PROVE  ~invalid'
<1> DEFINE spoken == IF set.stamps THEN Pairs(ans) ELSE <<>>
           whole == IF spoken = <<>> THEN TextIds(ans)
                    ELSE FlattenSeq([k \in DOMAIN spoken |-> spoken[k].text])
<1>1. invalid' = ~(/\ \A k \in DOMAIN spoken : Valid(spoken[k].text)
                   /\ spoken = <<>> => Valid(whole))
  BY DEF Finish
<1>2. \A k \in DOMAIN spoken : Valid(spoken[k].text)
  <2>1. CASE set.stamps
    <3>1. spoken = Pairs(ans)
      BY <2>1
    <3> HIDE DEF spoken
    <3> QED BY <3>1, PairsAreValid
  <2>2. CASE ~set.stamps
    <3>1. spoken = <<>>
      BY <2>2
    <3>2. DOMAIN spoken = {}
      BY <3>1
    <3> HIDE DEF spoken
    <3> QED BY <3>2
  <2> QED BY <2>1, <2>2
<1>3. spoken = <<>> => Valid(whole)
  <2>1. Valid(TextIds(ans))
    BY WholeIsValid
  <2> HIDE DEF spoken
  <2> QED BY Zenon, <2>1
<1> HIDE DEF spoken, whole
<1> QED BY Zenon, <1>1, <1>2, <1>3

\* Every step keeps an answer that ran to EOT whole.
LEMMA CutStep == CacheInv /\ CutInv /\ [Next]_vars => CutInv'
<1> SUFFICES ASSUME CacheInv, CutInv, [Next]_vars PROVE CutInv'
  OBVIOUS
<1>1. ans \in Seq(Tokens) /\ (~repeated => ans = predicted)
  BY DEF CacheInv, Answers, Course
<1>2. CASE FeedPrompt
  <2>1. at = "prompt" /\ at' # "done" /\ repeated' = repeated
    BY <1>2 DEF FeedPrompt
  <2>2. ~repeated
    BY Zenon, <2>1 DEF CacheInv, Course
  <2> QED BY Zenon, <2>1, <2>2 DEF CutInv, OnlyStopsCutCharacters
<1>3. CASE Accept
  <2>1. at' # "done" /\ ~repeated /\ repeated' = repeated
    BY <1>3 DEF Accept
  <2> QED BY Zenon, <2>1 DEF CutInv, OnlyStopsCutCharacters
<1>4. CASE StopOnRepeat
  <2>1. at' # "done" /\ idx' = idx /\ idx # EOT
    BY <1>4 DEF StopOnRepeat, Continues
  <2> QED BY Zenon, <2>1 DEF CutInv, OnlyStopsCutCharacters
<1>5. CASE Finish
  <2>1. idx' = idx /\ repeated' = repeated /\ predicted' = predicted
    BY <1>5 DEF Finish
  <2>2. ASSUME idx = EOT, Valid(predicted) PROVE ~invalid'
    <3>1. ~repeated
      BY Zenon, <2>2 DEF CutInv
    <3>2. Valid(ans)
      BY Zenon, <1>1, <2>2, <3>1
    <3> QED BY <1>1, <1>5, <3>2, FinishOfValid
  <2> QED BY Zenon, <2>1, <2>2 DEF CutInv, OnlyStopsCutCharacters
<1>6. CASE UNCHANGED vars
  BY Zenon, <1>6 DEF vars, result, CutInv, OnlyStopsCutCharacters
<1> QED BY <1>2, <1>3, <1>4, <1>5, <1>6 DEF Next

\* Whatever is predicted: an answer that ran to EOT and was spelled correctly
\* is text, with timestamps and without (decode.py 810-871).
THEOREM WholeAnswersAreText == Spec => []OnlyStopsCutCharacters
<1>1. Init => CutInv
  BY Zenon DEF Init, CutInv, OnlyStopsCutCharacters
<1>2. Spec => []CutInv
  BY <1>1, CutStep, CacheCorrect, PTL DEF Spec
<1>3. CutInv => OnlyStopsCutCharacters
  BY DEF CutInv
<1> QED BY <1>2, <1>3, PTL

-----------------------------------------------------------------------------
(* The segments of an answer.                                              *)

\* How many timestamps there are before a position.
Before(s, i) == Cardinality({j \in 1..(i - 1) : s[j] \in Stamps})

\* One more after a timestamp.
LEMMA BeforeNext ==
  ASSUME NEW s, NEW i \in Nat \ {0}
  PROVE  /\ Before(s, i) \in Nat
         /\ s[i] \in Stamps => Before(s, i + 1) = Before(s, i) + 1
<1> DEFINE A == {j \in 1..(i - 1) : s[j] \in Stamps}
           B == {j \in 1..((i + 1) - 1) : s[j] \in Stamps}
<1>1. IsFiniteSet(A)
  <2>1. A \subseteq Nat /\ \A j \in A : j <= i
    OBVIOUS
  <2> HIDE DEF A
  <2> QED BY <2>1, FS_BoundedSetOfNaturals
<1>2. Cardinality(A) \in Nat
  BY <1>1, FS_CardinalityType
<1>3. ASSUME s[i] \in Stamps PROVE Cardinality(B) = Cardinality(A) + 1
  <2>1. B = A \cup {i} /\ i \notin A
    BY <1>3
  <2> HIDE DEF A, B
  <2> QED BY <1>1, <2>1, FS_AddElement
<1> QED BY <1>2, <1>3 DEF Before

\* None more over a stretch without timestamps.
LEMMA BeforeOver ==
  ASSUME NEW s, NEW i \in Nat \ {0}, NEW e \in Nat, i <= e,
         NoStamps(s, i, e - 1)
  PROVE  Before(s, e) = Before(s, i)
<1>1. {j \in 1..(e - 1) : s[j] \in Stamps} = {j \in 1..(i - 1) : s[j] \in Stamps}
  BY DEF NoStamps
<1> QED BY <1>1 DEF Before

\* The starts from a position on.
StartsFrom(s, i) == {j \in TextStarts(s) : i <= j}

\* segs are the segments from position i on.
AreSegmentsFrom(segs, s, i) ==
    \E from \in [1..Len(segs) -> StartsFrom(s, i)] :
        /\ \A j, k \in 1..Len(segs) : j < k => from[j] < from[k]
        /\ \A j \in StartsFrom(s, i) : \E k \in 1..Len(segs) : from[k] = j
        /\ \A k \in 1..Len(segs) : IsSegmentAt(segs[k], s, from[k])

\* No segment starts after the end.
LEMMA NoSegments ==
  ASSUME NEW S, NEW s \in Seq(S), NEW i \in Nat, i > Len(s)
  PROVE  AreSegmentsFrom(<<>>, s, i)
<1>1. StartsFrom(s, i) = {}
  BY DEF StartsFrom, TextStarts
<1>2. Len(<<>>) = 0 /\ 1..0 = {}
  OBVIOUS
<1> DEFINE from == [k \in 1..0 |-> 0]
<1>3. from \in [1..0 -> StartsFrom(s, i)]
  BY <1>2
<1> HIDE DEF from
<1> QED BY Zenon, <1>1, <1>2, <1>3 DEF AreSegmentsFrom

\* Segments from later on are the segments when no other starts between.
LEMMA SameSegments ==
  ASSUME NEW s, NEW segs, NEW i, NEW j, StartsFrom(s, i) = StartsFrom(s, j),
         AreSegmentsFrom(segs, s, j)
  PROVE  AreSegmentsFrom(segs, s, i)
BY Zenon DEF AreSegmentsFrom

\* A segment before the others.
LEMMA SegmentBefore ==
  ASSUME NEW S, NEW s \in Seq(S), NEW T, NEW segs \in Seq(T), NEW x \in T,
         NEW i \in Nat, NEW j \in Nat, i < j,
         StartsFrom(s, i) = {i} \cup StartsFrom(s, j),
         AreSegmentsFrom(segs, s, j), IsSegmentAt(x, s, i)
  PROVE  AreSegmentsFrom(<<x>> \o segs, s, i)
<1> DEFINE L == Len(segs)
           all == <<x>> \o segs
<1>1. PICK f \in [1..L -> StartsFrom(s, j)] :
          /\ \A a, b \in 1..L : a < b => f[a] < f[b]
          /\ \A a \in StartsFrom(s, j) : \E k \in 1..L : f[k] = a
          /\ \A k \in 1..L : IsSegmentAt(segs[k], s, f[k])
  BY DEF AreSegmentsFrom
<1>2. /\ L \in Nat /\ Len(all) = L + 1 /\ all[1] = x
      /\ \A k \in 1..L : all[k + 1] = segs[k]
  OBVIOUS
<1> HIDE DEF all
<1> DEFINE from == [k \in 1..(L + 1) |-> IF k = 1 THEN i ELSE f[k - 1]]
<1>3. from[1] = i /\ \A k \in 1..L : from[k + 1] = f[k]
  <2>1. from[1] = i
    BY <1>2
  <2>2. ASSUME NEW k \in 1..L PROVE from[k + 1] = f[k]
    <3>1. k + 1 \in 1..(L + 1) /\ k + 1 # 1 /\ (k + 1) - 1 = k
      BY <1>2
    <3> QED BY <3>1
  <2> QED BY <2>1, <2>2
<1>4. from \in [1..(L + 1) -> StartsFrom(s, i)]
  <2>1. ASSUME NEW k \in 1..(L + 1)
        PROVE  (IF k = 1 THEN i ELSE f[k - 1]) \in StartsFrom(s, i)
    <3>1. CASE k = 1
      BY <3>1
    <3>2. CASE k # 1
      <4>1. k - 1 \in 1..L
        BY <3>2, <1>2
      <4>2. f[k - 1] \in StartsFrom(s, j)
        BY <4>1, <1>1
      <4> QED BY <3>2, <4>2
    <3> QED BY <3>1, <3>2
  <2> QED BY <2>1
<1> HIDE DEF from
<1>5. ASSUME NEW k \in 1..(L + 1), k # 1
      PROVE  /\ k - 1 \in 1..L /\ from[k] = f[k - 1] /\ all[k] = segs[k - 1]
             /\ f[k - 1] \in StartsFrom(s, j)
  <2>1. k - 1 \in 1..L /\ (k - 1) + 1 = k
    BY <1>2, <1>5
  <2>2. from[(k - 1) + 1] = f[k - 1] /\ all[(k - 1) + 1] = segs[k - 1]
    BY <2>1, <1>2, <1>3
  <2> QED BY <2>1, <2>2, <1>1
<1>6. ASSUME NEW a \in 1..(L + 1), NEW b \in 1..(L + 1), a < b
      PROVE  from[a] < from[b]
  <2>1. b # 1 /\ b - 1 \in 1..L /\ from[b] = f[b - 1]
        /\ f[b - 1] \in StartsFrom(s, j)
    <3>1. b # 1
      BY <1>6, <1>2
    <3> QED BY <3>1, <1>5
  <2>2. CASE a = 1
    <3>1. f[b - 1] \in Nat /\ j <= f[b - 1]
      BY <2>1 DEF StartsFrom, TextStarts
    <3> QED BY <2>1, <2>2, <3>1, <1>3
  <2>3. CASE a # 1
    <3>1. a - 1 \in 1..L /\ from[a] = f[a - 1]
      BY <2>3, <1>5
    <3>2. a - 1 < b - 1
      BY <1>6, <1>2
    <3>3. f[a - 1] < f[b - 1]
      BY <2>1, <3>1, <3>2, <1>1
    <3> QED BY <2>1, <3>1, <3>3
  <2> QED BY <2>2, <2>3
<1>7. ASSUME NEW a \in StartsFrom(s, i)
      PROVE  \E k \in 1..(L + 1) : from[k] = a
  <2>1. CASE a = i
    <3>1. 1 \in 1..(L + 1)
      BY <1>2
    <3> QED BY <2>1, <3>1, <1>3
  <2>2. CASE a # i
    <3>1. a \in StartsFrom(s, j)
      BY <2>2
    <3>2. PICK k \in 1..L : f[k] = a
      BY <3>1, <1>1
    <3>3. k + 1 \in 1..(L + 1) /\ from[k + 1] = a
      BY <3>2, <1>2, <1>3
    <3> QED BY <3>3
  <2> QED BY <2>1, <2>2
<1>8. ASSUME NEW k \in 1..(L + 1) PROVE IsSegmentAt(all[k], s, from[k])
  <2>1. CASE k = 1
    BY <2>1, <1>2, <1>3
  <2>2. CASE k # 1
    <3>1. k - 1 \in 1..L /\ from[k] = f[k - 1] /\ all[k] = segs[k - 1]
      BY <2>2, <1>5
    <3> QED BY <3>1, <1>1
  <2> QED BY <2>1, <2>2
<1>9. AreSegmentsFrom(all, s, i)
  BY Zenon, <1>2, <1>4, <1>6, <1>7, <1>8 DEF AreSegmentsFrom
<1> QED BY <1>9 DEF all

\* The starts from a timestamp on, if the number of those before it is even:
\* the timestamp, if there is text behind it, and those after its end.
LEMMA StartsFromStamp ==
  ASSUME NEW S, NEW s \in Seq(S), NEW i \in 1..Len(s), s[i] \in Stamps,
         Before(s, i) % 2 = 0,
         NEW e, e = NextStamp(s, i)
  PROVE  /\ e + 1 <= Len(s) => Before(s, e + 1) % 2 = 0
         /\ e # i + 1 => StartsFrom(s, i) = {i} \cup StartsFrom(s, e + 1)
         /\ e = i + 1 => StartsFrom(s, i) = StartsFrom(s, e + 1)
<1>1. /\ e \in (i + 1)..(Len(s) + 1)
      /\ e <= Len(s) => s[e] \in Stamps
      /\ NoStamps(s, i + 1, e - 1)
  BY NextStampFacts
<1>2. Len(s) \in Nat /\ i \in Nat \ {0} /\ e \in Nat \ {0} /\ i + 1 \in Nat \ {0}
  BY <1>1
<1>3. Before(s, i) \in Nat /\ Before(s, e) = Before(s, i) + 1
  <2>1. Before(s, i) \in Nat /\ Before(s, i + 1) = Before(s, i) + 1
    BY <1>2, BeforeNext
  <2>2. Before(s, e) = Before(s, i + 1)
    BY <1>1, <1>2, BeforeOver
  <2> QED BY <2>1, <2>2
<1>4. Before(s, e) % 2 = 1
  <2> DEFINE x == Before(s, i)
  <2>1. x \in Nat /\ x % 2 = 0
    BY <1>3
  <2> HIDE DEF x
  <2>2. (x + 1) % 2 = 1
    BY <2>1
  <2> QED BY <2>2, <1>3 DEF x
<1>5. ASSUME e <= Len(s) PROVE Before(s, e + 1) % 2 = 0
  <2>1. Before(s, e + 1) = Before(s, e) + 1 /\ Before(s, e) \in Nat
    BY <1>1, <1>2, <1>5, BeforeNext
  <2> DEFINE x == Before(s, e)
  <2>2. x \in Nat /\ x % 2 = 1
    BY <1>4, <2>1
  <2> HIDE DEF x
  <2>3. (x + 1) % 2 = 0
    BY <2>2
  <2> QED BY <2>1, <2>3 DEF x
<1>6. \A j \in (i + 1)..e : j \notin TextStarts(s)
  <2>1. ASSUME NEW j \in (i + 1)..e, j \in TextStarts(s) PROVE FALSE
    <3>1. /\ j \in 1..(Len(s) - 1) /\ s[j] \in Stamps
          /\ Before(s, j) % 2 = 0
      BY <2>1 DEF TextStarts, Before
    <3>2. CASE j = e
      BY <3>1, <3>2, <1>4
    <3>3. CASE j # e
      <4>1. j \in (i + 1)..(e - 1)
        BY <3>3, <1>1, <1>2
      <4> QED BY <3>1, <4>1, <1>1 DEF NoStamps
    <3> QED BY <3>2, <3>3
  <2> QED BY <2>1
<1>7. i \in TextStarts(s) <=> e # i + 1
  <2>1. ASSUME e # i + 1 PROVE i \in TextStarts(s)
    <3>1. i \in 1..(Len(s) - 1) /\ i + 1 \in (i + 1)..(e - 1)
      BY <2>1, <1>1, <1>2
    <3>2. s[i + 1] \notin Stamps
      BY <3>1, <1>1 DEF NoStamps
    <3> QED BY <3>1, <3>2 DEF TextStarts, Before
  <2>2. ASSUME e = i + 1, i \in TextStarts(s) PROVE FALSE
    <3>1. i \in 1..(Len(s) - 1) /\ s[i + 1] \notin Stamps
      BY <2>2 DEF TextStarts
    <3>2. e <= Len(s)
      BY <2>2, <3>1, <1>2
    <3> QED BY <2>2, <3>1, <3>2, <1>1
  <2> QED BY <2>1, <2>2
<1>8. \A j \in TextStarts(s) : j \in Nat
  BY DEF TextStarts
<1>9. \A j \in StartsFrom(s, i) : j = i \/ j \in StartsFrom(s, e + 1)
  <2>1. ASSUME NEW j \in StartsFrom(s, i), j # i
        PROVE  j \in StartsFrom(s, e + 1)
    <3>1. j \in TextStarts(s) /\ i <= j /\ j \in Nat
      BY <1>8 DEF StartsFrom
    <3>2. ~(j \in (i + 1)..e)
      BY <3>1, <1>6
    <3>3. e + 1 <= j
      BY <2>1, <3>1, <3>2, <1>2
    <3> QED BY <3>1, <3>3 DEF StartsFrom
  <2> QED BY <2>1
<1>10. StartsFrom(s, e + 1) \subseteq StartsFrom(s, i)
  <2>1. ASSUME NEW j \in StartsFrom(s, e + 1) PROVE j \in StartsFrom(s, i)
    <3>1. j \in TextStarts(s) /\ e + 1 <= j /\ j \in Nat
      BY <1>8 DEF StartsFrom
    <3>2. i <= j
      BY <3>1, <1>1, <1>2
    <3> QED BY <3>1, <3>2 DEF StartsFrom
  <2> QED BY <2>1
<1>11. i \in StartsFrom(s, i) <=> e # i + 1
  BY <1>2, <1>7 DEF StartsFrom
<1>12. e + 1 <= Len(s) => e <= Len(s)
  BY <1>2
<1> QED BY <1>5, <1>9, <1>10, <1>11, <1>12

\* The segment that the scan makes at a timestamp is one, and has text unless
\* the next timestamp follows at once.
LEMMA SegmentIsOne ==
  ASSUME NEW S, NEW s \in Seq(S), NEW i \in 1..Len(s),
         NEW e, e = NextStamp(s, i)
  PROVE  /\ IsSegmentAt(Segment(s, i, e), s, i)
         /\ Segment(s, i, e).text = <<>> <=> e = i + 1
<1>1. /\ e \in (i + 1)..(Len(s) + 1)
      /\ e <= Len(s) => s[e] \in Stamps
      /\ NoStamps(s, i + 1, e - 1)
  BY NextStampFacts
<1>2. Len(s) \in Nat /\ i \in Nat /\ e \in Nat
  BY <1>1
<1>3. IsSegmentAt(Segment(s, i, e), s, i)
  <2>1. CASE e <= Len(s)
    <3>1. e \in (i + 1)..Len(s)
      BY <2>1, <1>1, <1>2
    <3>2. Segment(s, i, e) = [start |-> s[i], end |-> s[e],
                              text |-> SubSeq(s, i + 1, e - 1)]
      BY <2>1 DEF Segment
    <3> QED BY <2>1, <3>1, <3>2, <1>1 DEF IsSegmentAt
  <2>2. CASE ~(e <= Len(s))
    <3>1. e - 1 = Len(s)
      BY <2>2, <1>1, <1>2
    <3>2. Segment(s, i, e) = [start |-> s[i], end |-> s[i],
                              text |-> SubSeq(s, i + 1, e - 1)]
      BY <2>2 DEF Segment
    <3> QED BY <3>1, <3>2, <1>1 DEF IsSegmentAt
  <2> QED BY <2>1, <2>2
<1> DEFINE t == SubSeq(s, i + 1, e - 1)
<1>4. Segment(s, i, e).text = t
  BY DEF Segment
<1>5. t \in Seq(S) /\ Len(t) = e - 1 - i
  BY <1>1, <1>2
<1> HIDE DEF t
<1>6. t = <<>> <=> e = i + 1
  <2>1. t = <<>> <=> Len(t) = 0
    BY <1>5
  <2>2. Len(t) = 0 <=> e = i + 1
    BY <1>2, <1>5
  <2> QED BY <2>1, <2>2
<1> QED BY <1>3, <1>4, <1>6

\* The scan finds every segment, from each position that is not within one.
LEMMA ScanFinds ==
  ASSUME NEW S, NEW s \in Seq(S), NEW F, Scan(s, F)
  PROVE  \A i \in 1..(Len(s) + 2) :
             (i <= Len(s) => Before(s, i) % 2 = 0)
                 => AreSegmentsFrom(F[i], s, i)
<1> DEFINE N == Len(s) + 2
           G == {i \in 1..N : (i <= Len(s) => Before(s, i) % 2 = 0)
                                  => AreSegmentsFrom(F[i], s, i)}
<1>0. Len(s) \in Nat /\ N \in Nat /\ N = Len(s) + 2
  OBVIOUS
<1>1. ASSUME NEW i \in 1..N, \A v \in (i + 1)..N : v \in G
      PROVE  i \in G
  <2>0. SUFFICES ASSUME i <= Len(s) => Before(s, i) % 2 = 0
                 PROVE  AreSegmentsFrom(F[i], s, i)
    OBVIOUS
  <2>1. F[i] = IF i > Len(s) THEN <<>>
               ELSE IF s[i] \notin Stamps THEN F[i + 1]
               ELSE Spoken(Segment(s, i, NextStamp(s, i)))
                        \o F[NextStamp(s, i) + 1]
    BY DEF Scan
  <2>2. CASE i > Len(s)
    <3>1. AreSegmentsFrom(<<>>, s, i) /\ i \in Nat
      BY <2>2, <1>0, NoSegments
    <3> QED BY <2>1, <2>2, <3>1
  <2>3. CASE ~(i > Len(s)) /\ s[i] \notin Stamps
    <3>1. F[i] = F[i + 1]
      BY <2>1, <2>3
    <3>2. i + 1 \in (i + 1)..N /\ i \in Nat \ {0} /\ i <= Len(s)
      BY <2>3, <1>0
    <3>3. NoStamps(s, i, (i + 1) - 1)
      BY <2>3, <3>2 DEF NoStamps
    <3>4. Before(s, i + 1) = Before(s, i)
      BY <3>2, <3>3, BeforeOver
    <3>5. Before(s, i + 1) % 2 = 0
      BY <2>0, <3>2, <3>4
    <3>6. AreSegmentsFrom(F[i + 1], s, i + 1)
      BY <3>2, <3>5, <1>1
    <3>7. StartsFrom(s, i) = StartsFrom(s, i + 1)
      <4>1. \A j \in TextStarts(s) : j \in Nat /\ j # i
        BY <2>3 DEF TextStarts
      <4> QED BY <3>2, <4>1 DEF StartsFrom
    <3> QED BY <3>1, <3>6, <3>7, SameSegments
  <2>4. CASE ~(i > Len(s)) /\ s[i] \in Stamps
    <3> DEFINE e == NextStamp(s, i)
               x == Segment(s, i, e)
    <3>1. i \in 1..Len(s) /\ i \in Nat /\ i <= Len(s)
      BY <2>4, <1>0
    <3>2. Before(s, i) % 2 = 0
      BY <2>0, <3>1
    <3>3. e \in (i + 1)..(Len(s) + 1)
      BY <3>1, NextStampFacts
    <3>4. /\ e + 1 <= Len(s) => Before(s, e + 1) % 2 = 0
          /\ e # i + 1 => StartsFrom(s, i) = {i} \cup StartsFrom(s, e + 1)
          /\ e = i + 1 => StartsFrom(s, i) = StartsFrom(s, e + 1)
      BY <2>4, <3>1, <3>2, StartsFromStamp
    <3>5. IsSegmentAt(x, s, i) /\ (x.text = <<>> <=> e = i + 1)
      BY <3>1, SegmentIsOne
    <3>6. F[i] = Spoken(x) \o F[e + 1]
      BY <2>1, <2>4
    <3>7. e + 1 \in (i + 1)..N /\ e + 1 \in 1..N /\ e + 1 \in Nat /\ i < e + 1
      BY <3>1, <3>3, <1>0
    <3>8. F[e + 1] \in Seq(Segments(s)) /\ x \in Segments(s)
      <4>1. F[e + 1] \in Seq(Segments(s))
        <5>1. \A j \in 1..(Len(s) + 2) : F[j] \in Seq(Segments(s))
          BY ScanMakes
        <5> QED BY <3>7, <5>1
      <4>2. x \in Segments(s)
        BY <2>4, <3>1 DEF Segments
      <4> QED BY <4>1, <4>2
    <3>9. AreSegmentsFrom(F[e + 1], s, e + 1)
      <4>1. e + 1 \in G
        BY <3>7, <1>1
      <4> QED BY <3>4, <4>1
    <3> HIDE DEF x, e
    <3>10. CASE e = i + 1
      <4>1. Spoken(x) = <<>>
        BY <3>5, <3>10 DEF Spoken
      <4>2. <<>> \o F[e + 1] = F[e + 1]
        BY <3>8
      <4>3. F[i] = F[e + 1]
        BY <3>6, <4>1, <4>2
      <4>4. AreSegmentsFrom(F[e + 1], s, i)
        BY <3>4, <3>9, <3>10, SameSegments
      <4> QED BY <4>3, <4>4
    <3>11. CASE e # i + 1
      <4>1. Spoken(x) = <<x>>
        BY <3>5, <3>11 DEF Spoken
      <4>2. StartsFrom(s, i) = {i} \cup StartsFrom(s, e + 1)
        BY <3>4, <3>11
      <4> DEFINE y == F[e + 1]
                 b == e + 1
      <4>3. /\ y \in Seq(Segments(s)) /\ AreSegmentsFrom(y, s, b)
            /\ b \in Nat /\ i < b
            /\ StartsFrom(s, i) = {i} \cup StartsFrom(s, b)
        BY <3>7, <3>8, <3>9, <4>2
      <4> HIDE DEF y, b
      <4>4. AreSegmentsFrom(<<x>> \o y, s, i)
        BY <3>1, <3>5, <3>8, <4>3, SegmentBefore
      <4>5. F[i] = <<x>> \o y
        BY <3>6, <4>1 DEF y
      <4> QED BY <4>4, <4>5
    <3> QED BY <3>10, <3>11
  <2> QED BY <2>2, <2>3, <2>4
<1>2. \A i \in 1..N : i \in G
  <2>1. 1 \in Nat
    OBVIOUS
  <2> HIDE DEF G, N
  <2> QED BY <1>0, <1>1, <2>1, AllDown
<1> QED BY <1>2

\* What Pairs returns are the segments of an answer.
LEMMA PairsAreSegments ==
  ASSUME NEW S, NEW s \in Seq(S)
  PROVE  AreSegments(Pairs(s), s)
<1>1. PICK F : Scan(s, F) /\ Pairs(s) = F[1]
  BY PairsScan
<1>2. 1 \in 1..(Len(s) + 2)
  OBVIOUS
<1>3. Before(s, 1) % 2 = 0
  <2>1. {j \in 1..(1 - 1) : s[j] \in Stamps} = {}
    OBVIOUS
  <2>2. Before(s, 1) = 0
    BY <2>1, FS_EmptySet DEF Before
  <2> QED BY <2>2
<1>4. AreSegmentsFrom(F[1], s, 1)
  BY <1>1, <1>2, <1>3, ScanFinds
<1>5. StartsFrom(s, 1) = TextStarts(s)
  BY DEF StartsFrom, TextStarts
<1>6. AreSegments(F[1], s)
  BY Zenon, <1>4, <1>5 DEF AreSegmentsFrom, AreSegments
<1> QED BY <1>1, <1>6

\* Every step keeps the segments those of the answer.
LEMMA SegmentsStep ==
  CacheInv /\ SegmentsAreThePairs /\ [Next]_vars => SegmentsAreThePairs'
<1> SUFFICES ASSUME CacheInv, SegmentsAreThePairs, [Next]_vars
             PROVE  SegmentsAreThePairs'
  OBVIOUS
<1>1. CASE FeedPrompt \/ Accept \/ StopOnRepeat
  <2>1. at' # "done"
    BY <1>1 DEF FeedPrompt, Accept, StopOnRepeat
  <2> QED BY Zenon, <2>1 DEF SegmentsAreThePairs
<1>2. CASE Finish
  <2>1. SUFFICES ASSUME set.stamps, ~invalid'
                 PROVE  AreSegments(segments', ans)
    <3>1. set' = set /\ ans' = ans
      BY <1>2 DEF Finish
    <3>2. AreSegments(segments', ans) <=> AreSegments(segments', ans')
      BY <3>1
    <3> QED BY Zenon, <3>1, <3>2 DEF SegmentsAreThePairs
  <2>2. segments' = Pairs(ans)
    <3> DEFINE spoken == IF set.stamps THEN Pairs(ans) ELSE <<>>
    <3>1. segments' = IF invalid' THEN <<>> ELSE spoken
      BY <1>2 DEF Finish
    <3> QED BY Zenon, <2>1, <3>1
  <2>3. ans \in Seq(Tokens)
    BY DEF CacheInv, Answers
  <2> QED BY <2>2, <2>3, PairsAreSegments
<1>3. CASE UNCHANGED vars
  BY Zenon, <1>3 DEF vars, result, SegmentsAreThePairs
<1> QED BY <1>1, <1>2, <1>3 DEF Next

\* Whatever is predicted: a segment for each pair of timestamps with text
\* between them, in order, and for text behind a last one (decode.py 835-866).
THEOREM SegmentsArePairs == Spec => []SegmentsAreThePairs
<1>1. Init => SegmentsAreThePairs
  BY Zenon DEF Init, SegmentsAreThePairs
<1> QED BY <1>1, SegmentsStep, CacheCorrect, PTL DEF Spec
=============================================================================
