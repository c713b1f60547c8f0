------------------------- MODULE StreamDecodeProofs -------------------------
(***************************************************************************)
(* A streamed answer, for every length, all settings and whatever is said. *)
(*                                                                         *)
(* The windows hear all of the audio.  The inductive invariant says that   *)
(* all windows but the last end before the audio does, and that the window *)
(* the loop is about to add starts a hop after the last one; then it does  *)
(* not matter that the last one is moved back to end with the audio.       *)
(*                                                                         *)
(* Their texts join to what was said.  The words a window hears are those  *)
(* of its parts one after the other (WordsSplit), so that a window repeats *)
(* what the ones before it heard up to its start, then says words that are *)
(* new; a join drops just that repetition (JoinOverlap).  The invariant is *)
(* that the texts up to now join to the words up to where the last of them *)
(* ends.  When words recur, or an overlap is longer than a join looks, the *)
(* text may lack words; the invariant is then that each is an echo, with   *)
(* fewer than MaxMerge words between the two even if the last window were  *)
(* joined whole (Echoes): a later window may bring back words that a join  *)
(* has dropped, but none from before that window (MergeEchoes).            *)
(*                                                                         *)
(* A recursive function is opened once, as a list that satisfies its       *)
(* equation and exists; from then on only the equation is used.            *)
(***************************************************************************)
EXTENDS StreamDecode, SequenceTheorems, FiniteSetTheorems,
        WellFoundedInduction, TLAPS

\* What holds for the first number and goes on to the next one holds for all.
LEMMA AllBetween ==
  ASSUME NEW a \in Nat, NEW c \in Nat, NEW G, a \in G,
         \A u \in (a + 1)..c : u - 1 \in G => u \in G
  PROVE  \A u \in a..c : u \in G
<1> DEFINE T == (a..c) \ G
<1>1. SUFFICES ASSUME T # {} PROVE FALSE
  OBVIOUS
<1>2. PICK x \in T : \A y \in T : ~(y < x)
  <2>1. T \subseteq Nat
    OBVIOUS
  <2> HIDE DEF T
  <2>2. PICK x \in T : \A y \in T : <<y, x>> \notin OpToRel(<, Nat)
    BY <1>1, <2>1, NatLessThanWellFounded, WFMin
  <2>3. \A y \in T : ~(y < x)
    BY <2>1, <2>2 DEF OpToRel
  <2> QED BY <2>3
<1>3. x \in (a + 1)..c /\ x - 1 \in a..c
  OBVIOUS
<1>4. x - 1 \in T
  BY <1>3
<1> QED BY <1>2, <1>3, <1>4

-----------------------------------------------------------------------------
(* The words of a window, of what w says.                                  *)

Till(w, a, c, F) ==
    F = [u \in a..c |-> IF u = a THEN <<>>
                        ELSE IF w[u] = Quiet THEN F[u - 1]
                        ELSE Append(F[u - 1], u)]

WordsOf(w, a, c) ==
    LET F[u \in a..c] == IF u = a THEN <<>>
                         ELSE IF w[u] = Quiet THEN F[u - 1]
                         ELSE Append(F[u - 1], u)
    IN  F[c]

Loud(w, a, c) == {u \in (a + 1)..c : w[u] # Quiet}

\* What Heard is defined by.
LEMMA HeardIsWordsOf == \A a, c : Heard(a, c) = WordsOf(said, a, c)
BY DEF Heard, WordsOf

\* The words till each unit of a window can be listed.
LEMMA TillExists ==
  ASSUME NEW w, NEW a \in Nat, NEW c \in Nat, a <= c
  PROVE  \E F : Till(w, a, c, F)
<1> DEFINE G == {u \in a..c : \E F : Till(w, a, u, F)}
<1>1. a \in G
  <2>1. Till(w, a, a, [u \in a..a |-> <<>>])
    BY DEF Till
  <2> QED BY <2>1
<1>2. ASSUME NEW u \in (a + 1)..c, u - 1 \in G PROVE u \in G
  <2>1. PICK E : Till(w, a, u - 1, E)
    BY <1>2
  <2> DEFINE F == [x \in a..u |-> IF x = a THEN <<>>
                                  ELSE IF w[x] = Quiet THEN E[x - 1]
                                  ELSE Append(E[x - 1], x)]
  <2>2. ASSUME NEW x \in a..u, x # a PROVE F[x - 1] = E[x - 1]
    <3>1. x - 1 \in a..u /\ x - 1 \in a..(u - 1) /\ x - 1 - 1 = x - 2
      BY <2>2
    <3>2. E[x - 1] = IF x - 1 = a THEN <<>>
                     ELSE IF w[x - 1] = Quiet THEN E[x - 1 - 1]
                     ELSE Append(E[x - 1 - 1], x - 1)
      BY <2>1, <3>1 DEF Till
    <3> QED BY <3>1, <3>2
  <2>3. Till(w, a, u, F)
    BY <2>2 DEF Till
  <2>4. u \in a..c
    OBVIOUS
  <2> QED BY <2>3, <2>4
<1>3. \A u \in a..c : u \in G
  <2> HIDE DEF G
  <2> QED BY <1>1, <1>2, AllBetween
<1> QED BY <1>3

\* WordsOf returns the last of these lists.
LEMMA WordsTill ==
  ASSUME NEW w, NEW a \in Nat, NEW c \in Nat, a <= c
  PROVE  \E F : Till(w, a, c, F) /\ WordsOf(w, a, c) = F[c]
<1> DEFINE G == CHOOSE F : Till(w, a, c, F)
<1>1. Till(w, a, c, G)
  BY TillExists
<1>2. WordsOf(w, a, c) = G[c]
  BY DEF WordsOf, Till
<1> QED BY <1>1, <1>2

\* No words at first.
LEMMA TillFirst ==
  ASSUME NEW w, NEW a \in Nat, NEW c \in Nat, a <= c, NEW F, Till(w, a, c, F)
  PROVE  F[a] = <<>>
<1>1. a \in a..c
  OBVIOUS
<1>2. F[a] = IF a = a THEN <<>>
             ELSE IF w[a] = Quiet THEN F[a - 1] ELSE Append(F[a - 1], a)
  BY <1>1 DEF Till
<1> QED BY <1>2

\* Unit by unit.
LEMMA TillNext ==
  ASSUME NEW w, NEW a \in Nat, NEW c \in Nat, NEW F, Till(w, a, c, F),
         NEW u \in a..c, u # a
  PROVE  F[u] = IF w[u] = Quiet THEN F[u - 1] ELSE Append(F[u - 1], u)
BY DEF Till

\* The lists of a window are lists of its words.
LEMMA TillType ==
  ASSUME NEW w, NEW a \in Nat, NEW c \in Nat, NEW F, Till(w, a, c, F)
  PROVE  \A u \in a..c : F[u] \in Seq(Loud(w, a, u))
<1> DEFINE G == {u \in a..c : F[u] \in Seq(Loud(w, a, u))}
<1>1. CASE a <= c
  <2>1. a \in G
    <3>1. a \in a..c
      BY <1>1
    <3>2. F[a] = <<>> /\ <<>> \in Seq(Loud(w, a, a))
      BY <1>1, TillFirst, EmptySeq
    <3>3. F[a] \in Seq(Loud(w, a, a))
      BY Zenon, <3>2
    <3> QED BY <3>1, <3>3
  <2>2. ASSUME NEW u \in (a + 1)..c, u - 1 \in G PROVE u \in G
    <3>1. u \in a..c /\ u # a
      OBVIOUS
    <3>2. F[u - 1] \in Seq(Loud(w, a, u))
      <4>1. Loud(w, a, u - 1) \subseteq Loud(w, a, u)
        BY DEF Loud
      <4>2. F[u - 1] \in Seq(Loud(w, a, u - 1))
        BY <2>2
      <4> HIDE DEF G
      <4> QED BY <4>1, <4>2
    <3>3. w[u] # Quiet => u \in Loud(w, a, u)
      BY DEF Loud
    <3>4. F[u] \in Seq(Loud(w, a, u))
      <4>1. F[u] = IF w[u] = Quiet THEN F[u - 1] ELSE Append(F[u - 1], u)
        BY <3>1, TillNext
      <4> HIDE DEF G
      <4> QED BY <3>2, <3>3, <4>1
    <3> QED BY <3>1, <3>4
  <2>3. \A u \in a..c : u \in G
    <3> HIDE DEF G
    <3> QED BY <2>1, <2>2, AllBetween
  <2> QED BY <2>3
<1>2. CASE ~(a <= c)
  BY <1>2
<1> QED BY <1>1, <1>2

\* Lists that begin at the same unit are the same.
LEMMA TillSame ==
  ASSUME NEW w, NEW a \in Nat, NEW b \in Nat, NEW c \in Nat, a <= b, b <= c,
         NEW E, Till(w, a, b, E), NEW F, Till(w, a, c, F)
  PROVE  E[b] = F[b]
<1> DEFINE G == {u \in a..b : E[u] = F[u]}
<1>1. a \in G
  <2>1. a \in a..b /\ a \in a..c
    OBVIOUS
  <2>2. E[a] = <<>> /\ F[a] = <<>>
    BY TillFirst
  <2> QED BY <2>1, <2>2
<1>2. ASSUME NEW u \in (a + 1)..b, u - 1 \in G PROVE u \in G
  <2>1. u \in a..b /\ u \in a..c /\ u # a
    OBVIOUS
  <2>2. E[u - 1] = F[u - 1]
    BY <1>2
  <2>3. E[u] = IF w[u] = Quiet THEN E[u - 1] ELSE Append(E[u - 1], u)
    BY <2>1, TillNext
  <2>4. F[u] = IF w[u] = Quiet THEN F[u - 1] ELSE Append(F[u - 1], u)
    BY <2>1, TillNext
  <2> QED BY <2>1, <2>2, <2>3, <2>4
<1>3. \A u \in a..b : u \in G
  <2> HIDE DEF G
  <2> QED BY <1>1, <1>2, AllBetween
<1> QED BY <1>3

\* The words of a window are in it.
LEMMA WordsType ==
  ASSUME NEW w, NEW a \in Nat, NEW c \in Nat, a <= c
  PROVE  WordsOf(w, a, c) \in Seq(Loud(w, a, c))
<1>1. PICK F : Till(w, a, c, F) /\ WordsOf(w, a, c) = F[c]
  BY WordsTill
<1> QED BY <1>1, TillType

\* No audio, no words.
LEMMA NoWords ==
  ASSUME NEW w, NEW a \in Nat
  PROVE  WordsOf(w, a, a) = <<>>
<1>1. PICK F : Till(w, a, a, F) /\ WordsOf(w, a, a) = F[a]
  BY WordsTill
<1>2. F[a] = <<>>
  BY <1>1, TillFirst
<1> QED BY <1>1, <1>2

\* The words of a window are those of its two parts.
LEMMA WordsSplit ==
  ASSUME NEW w, NEW a \in Nat, NEW b \in Nat, NEW c \in Nat, a <= b, b <= c
  PROVE  WordsOf(w, a, c) = WordsOf(w, a, b) \o WordsOf(w, b, c)
<1>1. PICK F : Till(w, a, c, F) /\ WordsOf(w, a, c) = F[c]
  BY WordsTill
<1>2. PICK E : Till(w, a, b, E) /\ WordsOf(w, a, b) = E[b]
  BY WordsTill
<1>3. PICK H : Till(w, b, c, H) /\ WordsOf(w, b, c) = H[c]
  BY WordsTill
<1>4. E[b] = F[b]
  BY <1>1, <1>2, TillSame
<1> DEFINE G == {u \in b..c : F[u] = F[b] \o H[u]}
<1>5. F[b] \in Seq(Nat)
  <2>0. b \in a..c
    OBVIOUS
  <2>1. F[b] \in Seq(Loud(w, a, b))
    BY <1>1, <2>0, TillType
  <2>2. Loud(w, a, b) \subseteq Nat
    BY DEF Loud
  <2> QED BY <2>1, <2>2
<1>6. b \in G
  <2>1. b \in b..c
    OBVIOUS
  <2>2. H[b] = <<>>
    BY <1>3, TillFirst
  <2>3. F[b] \o <<>> = F[b]
    BY <1>5, ConcatEmptySeq
  <2> QED BY <2>1, <2>2, <2>3
<1>7. ASSUME NEW u \in (b + 1)..c, u - 1 \in G PROVE u \in G
  <2>1. u \in b..c /\ u \in a..c /\ u # a /\ u # b
    OBVIOUS
  <2>2. F[u - 1] = F[b] \o H[u - 1]
    BY <1>7
  <2>3. F[u] = IF w[u] = Quiet THEN F[u - 1] ELSE Append(F[u - 1], u)
    BY <1>1, <2>1, TillNext
  <2>4. H[u] = IF w[u] = Quiet THEN H[u - 1] ELSE Append(H[u - 1], u)
    BY <1>3, <2>1, TillNext
  <2>5. H[u - 1] \in Seq(Nat) /\ u \in Nat
    <3>1. u - 1 \in b..c
      BY <2>1
    <3>2. H[u - 1] \in Seq(Loud(w, b, u - 1))
      BY <1>3, <3>1, TillType
    <3>3. Loud(w, b, u - 1) \subseteq Nat
      BY DEF Loud
    <3> QED BY <3>2, <3>3
  <2>6. Append(F[b] \o H[u - 1], u) = F[b] \o Append(H[u - 1], u)
    <3> DEFINE f == F[b]
               h == H[u - 1]
    <3>1. f \in Seq(Nat) /\ h \in Seq(Nat) /\ u \in Nat
      BY <1>5, <2>5
    <3> HIDE DEF f, h
    <3>2. f \o h \in Seq(Nat) /\ <<u>> \in Seq(Nat)
      BY <3>1, ConcatProperties
    <3>3. /\ Append(f \o h, u) = (f \o h) \o <<u>>
          /\ Append(h, u) = h \o <<u>>
      BY <3>1, <3>2, AppendIsConcat
    <3>4. (f \o h) \o <<u>> = f \o (h \o <<u>>)
      BY <3>1, <3>2, ConcatAssociative
    <3> QED BY <3>3, <3>4 DEF f, h
  <2>7. F[u] = F[b] \o H[u]
    <3> HIDE DEF G
    <3> QED BY <2>2, <2>3, <2>4, <2>6
  <2> QED BY <2>1, <2>7
<1>8. \A u \in b..c : u \in G
  <2> HIDE DEF G
  <2> QED BY <1>6, <1>7, AllBetween
<1>9. c \in b..c
  OBVIOUS
<1>10. c \in G
  BY <1>8, <1>9
<1> QED BY <1>1, <1>2, <1>3, <1>4, <1>10

-----------------------------------------------------------------------------
(* Joining two texts, and all of them.                                     *)

BoundaryOf(w, left, right, k) ==
    \A m \in 1..k : w[left[Len(left) - k + m]] = w[right[m]]

MergeOf(w, left, right) ==
    LET top == Minimum(Minimum(Len(left), Len(right)), MaxMerge)
        best == CHOOSE k \in 0..top :
                    /\ BoundaryOf(w, left, right, k)
                    /\ \A m \in (k + 1)..top : ~BoundaryOf(w, left, right, m)
    IN  left \o SubSeq(right, best + 1, Len(right))

\* What MergeOverlapText is defined by.
LEMMA MergeIsMergeOf ==
  \A left, right : MergeOverlapText(left, right) = MergeOf(said, left, right)
BY DEF MergeOverlapText, MergeOf, Boundary, BoundaryOf

\* B is the overlap, A what is before it and C after it: no word of C's is
\* among those of A and B.
Overlap(w, Old, New, A, B, C) ==
    /\ Old \subseteq Nat /\ New \subseteq Nat
    /\ A \in Seq(Old) /\ B \in Seq(Old) /\ C \in Seq(New)
    /\ \A u \in Old, v \in New : w[u] # w[v]
    /\ Len(B) <= MaxMerge

\* A join drops such an overlap, no less and no more.
LEMMA JoinOverlap ==
  ASSUME NEW w, NEW Old, NEW New, NEW A, NEW B, NEW C,
         Overlap(w, Old, New, A, B, C)
  PROVE  MergeOf(w, A \o B, B \o C) = (A \o B) \o C
<1>0. /\ Old \subseteq Nat /\ New \subseteq Nat
      /\ A \in Seq(Old) /\ B \in Seq(Old) /\ C \in Seq(New)
      /\ \A u \in Old, v \in New : w[u] # w[v]
      /\ Len(B) <= MaxMerge
  BY DEF Overlap
<1> DEFINE left == A \o B
           right == B \o C
           k == Len(B)
           top == Minimum(Minimum(Len(left), Len(right)), MaxMerge)
           Is(x) == /\ BoundaryOf(w, left, right, x)
                    /\ \A m \in (x + 1)..top : ~BoundaryOf(w, left, right, m)
<1>1. /\ Len(A) \in Nat /\ k \in Nat /\ Len(C) \in Nat /\ MaxMerge \in Nat
      /\ Len(left) = Len(A) + k /\ Len(right) = k + Len(C)
      /\ k <= MaxMerge
  BY <1>0, StreamAssumption DEF StreamAssumption
<1>2. /\ \A x \in 1..Len(left) :
             left[x] = IF x <= Len(A) THEN A[x] ELSE B[x - Len(A)]
      /\ \A x \in 1..Len(right) :
             right[x] = IF x <= k THEN B[x] ELSE C[x - k]
  BY <1>0
<1>3. left \in Seq(Old)
  BY <1>0
<1>4. top \in Nat /\ k <= top /\ top <= Len(left) /\ top <= Len(right)
  <2> HIDE DEF left, right, k
  <2> QED BY <1>1 DEF Minimum
<1>5. BoundaryOf(w, left, right, k)
  <2>1. ASSUME NEW m \in 1..k PROVE left[Len(left) - k + m] = right[m]
    <3>1. /\ Len(left) - k + m = Len(A) + m
          /\ Len(A) + m \in 1..Len(left) /\ m \in 1..Len(right)
          /\ ~(Len(A) + m <= Len(A)) /\ Len(A) + m - Len(A) = m
          /\ m <= k
      <4> HIDE DEF left, right, k
      <4> QED BY <1>1
    <3> HIDE DEF left, right, k
    <3> QED BY <1>2, <3>1
  <2> HIDE DEF left, right, k
  <2> QED BY <2>1 DEF BoundaryOf
<1>6. ASSUME NEW m \in (k + 1)..top PROVE ~BoundaryOf(w, left, right, m)
  <2> DEFINE x == Len(left) - m + (k + 1)
  <2>1. /\ x \in 1..Len(left) /\ k + 1 \in 1..m /\ k + 1 \in 1..Len(right)
        /\ ~(k + 1 <= k) /\ k + 1 - k = 1 /\ 1 \in 1..Len(C)
    <3> HIDE DEF left, right, k, top
    <3> QED BY <1>1, <1>4
  <2>2. left[x] \in Old
    <3> HIDE DEF left, right, k, top, x
    <3> QED BY <2>1, <1>3
  <2>3. right[k + 1] = C[1] /\ C[1] \in New
    <3>1. C[1] \in New
      BY <1>0, <2>1
    <3>2. right[k + 1] = C[k + 1 - k]
      <4> HIDE DEF left, right, k, top, x
      <4> QED BY <1>1, <2>1, <1>2
    <3>3. k + 1 - k = 1
      BY <2>1
    <3>4. right[k + 1] = C[1]
      <4> HIDE DEF left, right, k, top, x
      <4> QED BY <3>2, <3>3
    <3> HIDE DEF left, right, k, top, x
    <3> QED BY <3>1, <3>4
  <2>4. w[left[x]] # w[right[k + 1]]
    <3> HIDE DEF left, right, k, top, x
    <3> QED BY <1>0, <2>2, <2>3
  <2>5. k + 1 \in 1..m
    BY <2>1
  <2> HIDE DEF left, right, k, top
  <2> QED BY <2>4, <2>5 DEF BoundaryOf
<1>7. k \in 0..top /\ Is(k)
  <2> HIDE DEF left, right, k, top
  <2> QED BY <1>1, <1>4, <1>5, <1>6
<1>8. ASSUME NEW x \in 0..top, Is(x) PROVE x = k
  <2>1. ~(x < k)
    <3>1. SUFFICES ASSUME x < k PROVE FALSE
      OBVIOUS
    <3>2. k \in (x + 1)..top
      BY <1>1, <1>4, <3>1
    <3> HIDE DEF left, right, k, top
    <3> QED BY <1>5, <1>8, <3>2
  <2>2. ~(k < x)
    <3>1. SUFFICES ASSUME k < x PROVE FALSE
      OBVIOUS
    <3>2. x \in (k + 1)..top
      BY <1>1, <1>4, <3>1
    <3> HIDE DEF left, right, k, top
    <3> QED BY <1>6, <1>8, <3>2
  <2> QED BY <2>1, <2>2, <1>1, <1>4
<1>9. (CHOOSE x \in 0..top : Is(x)) = k
  <2> HIDE DEF Is, k, top
  <2> QED BY <1>7, <1>8
<1>10. MergeOf(w, left, right) = left \o SubSeq(right, k + 1, Len(right))
  BY <1>9 DEF MergeOf
<1>11. SubSeq(right, k + 1, Len(right)) = C
  BY <1>0
<1> QED BY <1>10, <1>11

\* The next window's words are joined to those heard up to now: what both
\* heard is kept once.
LEMMA JoinHeard ==
  ASSUME NEW w, NEW a \in Nat, NEW b \in Nat, NEW c \in Nat, a <= b, b <= c,
         \A u, v \in Loud(w, 0, c) : w[u] = w[v] => u = v,
         Len(WordsOf(w, a, b)) <= MaxMerge
  PROVE  MergeOf(w, WordsOf(w, 0, b), WordsOf(w, a, c)) = WordsOf(w, 0, c)
<1> DEFINE A == WordsOf(w, 0, a)
           B == WordsOf(w, a, b)
           C == WordsOf(w, b, c)
           Old == Loud(w, 0, b)
           New == Loud(w, b, c)
<1>1. /\ WordsOf(w, 0, b) = A \o B
      /\ WordsOf(w, a, c) = B \o C
      /\ WordsOf(w, 0, c) = WordsOf(w, 0, b) \o C
  <2>1. 0 <= a /\ 0 <= b /\ 0 \in Nat
    OBVIOUS
  <2>2. WordsOf(w, 0, b) = A \o B
    BY <2>1, WordsSplit
  <2>3. WordsOf(w, a, c) = B \o C
    BY <2>1, WordsSplit
  <2>4. WordsOf(w, 0, c) = WordsOf(w, 0, b) \o C
    BY <2>1, WordsSplit
  <2> QED BY <2>2, <2>3, <2>4
<1>2. A \in Seq(Old) /\ B \in Seq(Old) /\ C \in Seq(New)
  <2>1. A \in Seq(Loud(w, 0, a)) /\ B \in Seq(Loud(w, a, b)) /\ C \in Seq(New)
    BY WordsType
  <2>2. Loud(w, 0, a) \subseteq Old /\ Loud(w, a, b) \subseteq Old
    BY DEF Loud
  <2> HIDE DEF A, B, C, Old, New
  <2> QED BY <2>1, <2>2
<1>3. Old \subseteq Nat /\ New \subseteq Nat
  BY DEF Loud
<1>4. \A u \in Old, v \in New : w[u] # w[v]
  <2>1. ASSUME NEW u \in Old, NEW v \in New PROVE w[u] # w[v]
    <3>1. u \in Loud(w, 0, c) /\ v \in Loud(w, 0, c) /\ u # v
      BY DEF Loud
    <3> QED BY <3>1
  <2> QED BY <2>1
<1>5. Len(B) <= MaxMerge
  OBVIOUS
<1> HIDE DEF A, B, C, Old, New
<1>6. Overlap(w, Old, New, A, B, C)
  BY <1>2, <1>3, <1>4, <1>5 DEF Overlap
<1>7. MergeOf(w, A \o B, B \o C) = (A \o B) \o C
  BY <1>6, JoinOverlap
<1> QED BY <1>1, <1>7

Joined(w, p, F) ==
    F = [k \in 0..Len(p) |-> IF k = 0 THEN <<>>
                             ELSE MergeOf(w, F[k - 1], p[k])]

StitchOf(w, p) ==
    LET F[k \in 0..Len(p)] == IF k = 0 THEN <<>>
                              ELSE MergeOf(w, F[k - 1], p[k])
    IN  F[Len(p)]

\* What StitchTranscripts is defined by.
LEMMA StitchIsStitchOf == \A p : StitchTranscripts(p) = StitchOf(said, p)
BY MergeIsMergeOf DEF StitchTranscripts, StitchOf

\* Nothing joins to nothing.
LEMMA StitchNothing == ASSUME NEW w PROVE StitchOf(w, <<>>) = <<>>
<1> DEFINE G == CHOOSE F : Joined(w, <<>>, F)
<1>1. Joined(w, <<>>, [k \in 0..0 |-> <<>>])
  BY DEF Joined
<1>2. Joined(w, <<>>, G)
  BY <1>1
<1>3. StitchOf(w, <<>>) = G[0]
  BY DEF StitchOf, Joined
<1>4. G[0] = <<>>
  <2>1. Len(<<>>) = 0 /\ 0 \in 0..0
    OBVIOUS
  <2> HIDE DEF G
  <2> QED BY <1>2, <2>1 DEF Joined
<1> QED BY <1>3, <1>4

\* The texts can be joined one by one.
LEMMA JoinedExists ==
  ASSUME NEW w, NEW T, NEW p \in Seq(T)
  PROVE  \E F : Joined(w, p, F)
<1> DEFINE Up(k, F) == F = [x \in 0..k |-> IF x = 0 THEN <<>>
                                          ELSE MergeOf(w, F[x - 1], p[x])]
           G == {k \in 0..Len(p) : \E F : Up(k, F)}
<1>0. Len(p) \in Nat /\ 0 \in 0..Len(p)
  OBVIOUS
<1>1. 0 \in G
  <2>1. Up(0, [x \in 0..0 |-> <<>>])
    OBVIOUS
  <2> QED BY <2>1, <1>0
<1>2. ASSUME NEW k \in (0 + 1)..Len(p), k - 1 \in G PROVE k \in G
  <2>1. PICK E : Up(k - 1, E)
    BY <1>2
  <2> DEFINE F == [x \in 0..k |-> IF x = 0 THEN <<>>
                                  ELSE MergeOf(w, E[x - 1], p[x])]
  <2>2. ASSUME NEW x \in 0..k, x # 0 PROVE F[x - 1] = E[x - 1]
    <3>1. x - 1 \in 0..k /\ x - 1 \in 0..(k - 1)
      BY <1>0, <2>2
    <3>2. E[x - 1] = IF x - 1 = 0 THEN <<>>
                     ELSE MergeOf(w, E[x - 1 - 1], p[x - 1])
      BY <2>1, <3>1
    <3>3. F[x - 1] = IF x - 1 = 0 THEN <<>>
                     ELSE MergeOf(w, E[x - 1 - 1], p[x - 1])
      BY <3>1
    <3> QED BY <3>2, <3>3
  <2>3. Up(k, F)
    BY <2>2
  <2>4. k \in 0..Len(p)
    BY <1>0
  <2> QED BY <2>3, <2>4
<1>3. \A k \in 0..Len(p) : k \in G
  <2> HIDE DEF G
  <2> QED BY <1>0, <1>1, <1>2, AllBetween
<1>4. Len(p) \in 0..Len(p)
  BY <1>0
<1> QED BY <1>3, <1>4 DEF Joined

\* A text more is joined to what the others joined to.
LEMMA StitchOneMore ==
  ASSUME NEW w, NEW T, NEW p \in Seq(T), NEW x \in T
  PROVE  StitchOf(w, Append(p, x)) = MergeOf(w, StitchOf(w, p), x)
<1> DEFINE q == Append(p, x)
           E == CHOOSE F : Joined(w, p, F)
           H == CHOOSE F : Joined(w, q, F)
<1>1. /\ Len(p) \in Nat /\ Len(q) = Len(p) + 1 /\ q \in Seq(T)
      /\ \A k \in 1..Len(p) : q[k] = p[k]
      /\ q[Len(p) + 1] = x
  OBVIOUS
<1>2. Joined(w, p, E) /\ Joined(w, q, H)
  BY <1>1, JoinedExists
<1>3. StitchOf(w, p) = E[Len(p)] /\ StitchOf(w, q) = H[Len(q)]
  BY DEF StitchOf, Joined
<1> HIDE DEF q, E, H
<1> DEFINE G == {k \in 0..Len(p) : E[k] = H[k]}
<1>4. /\ \A k \in 0..Len(p) :
             E[k] = IF k = 0 THEN <<>> ELSE MergeOf(w, E[k - 1], p[k])
      /\ \A k \in 0..Len(q) :
             H[k] = IF k = 0 THEN <<>> ELSE MergeOf(w, H[k - 1], q[k])
  BY <1>2 DEF Joined
<1>5. 0 \in G
  <2>1. 0 \in 0..Len(p) /\ 0 \in 0..Len(q)
    BY <1>1
  <2> QED BY <1>4, <2>1
<1>6. ASSUME NEW k \in (0 + 1)..Len(p), k - 1 \in G PROVE k \in G
  <2>1. k \in 0..Len(p) /\ k \in 0..Len(q) /\ k \in 1..Len(p) /\ k # 0
    BY <1>1
  <2>2. E[k - 1] = H[k - 1] /\ q[k] = p[k]
    BY <1>1, <1>6, <2>1
  <2> QED BY <1>4, <2>1, <2>2
<1>7. \A k \in 0..Len(p) : k \in G
  <2> HIDE DEF G
  <2> QED BY <1>1, <1>5, <1>6, AllBetween
<1>8. /\ Len(p) \in 0..Len(p) /\ Len(p) + 1 \in 0..Len(q)
      /\ Len(p) + 1 # 0 /\ (Len(p) + 1) - 1 = Len(p)
  BY <1>1
<1>9. E[Len(p)] = H[Len(p)]
  BY <1>7, <1>8
<1>10. H[Len(p) + 1] = MergeOf(w, H[Len(p)], x)
  <2>1. H[Len(p) + 1] = MergeOf(w, H[(Len(p) + 1) - 1], q[Len(p) + 1])
    BY <1>4, <1>8
  <2> QED BY <2>1, <1>1, <1>8
<1> QED BY <1>1, <1>3, <1>9, <1>10 DEF q

USE StreamAssumption DEF StreamAssumption

-----------------------------------------------------------------------------
(* What a join drops when words recur, or overlaps are too long.           *)

Rising(s) == \A p, q \in 1..Len(s) : p < q => s[p] < s[q]

Lists(s, S) == \A u \in S : \E p \in 1..Len(s) : s[p] = u

\* The words of a window are all its words, in order.
LEMMA WordsInOrder ==
  ASSUME NEW w, NEW a \in Nat, NEW c \in Nat, a <= c
  PROVE  /\ Rising(WordsOf(w, a, c))
         /\ Lists(WordsOf(w, a, c), Loud(w, a, c))
<1>1. PICK F : Till(w, a, c, F) /\ WordsOf(w, a, c) = F[c]
  BY WordsTill
<1> DEFINE G == {u \in a..c : Rising(F[u]) /\ Lists(F[u], Loud(w, a, u))}
<1>2. a \in G
  <2>1. a \in a..c /\ F[a] = <<>>
    BY <1>1, TillFirst
  <2>2. Loud(w, a, a) = {}
    BY DEF Loud
  <2>3. Rising(<<>>) /\ Lists(<<>>, {})
    BY DEF Rising, Lists
  <2> QED BY <2>1, <2>2, <2>3
<1>3. ASSUME NEW u \in (a + 1)..c, u - 1 \in G PROVE u \in G
  <2> DEFINE s == F[u - 1]
             t == F[u]
  <2>1. u \in a..c /\ u # a /\ u - 1 \in a..c /\ u \in Nat
    OBVIOUS
  <2>2. t = IF w[u] = Quiet THEN s ELSE Append(s, u)
    BY <1>1, <2>1, TillNext
  <2>3. Rising(s) /\ Lists(s, Loud(w, a, u - 1))
    BY <1>3
  <2>4. s \in Seq(Loud(w, a, u - 1))
    BY <1>1, <2>1, TillType
  <2> HIDE DEF s, t, G
  <2>5. CASE w[u] = Quiet
    <3>1. Loud(w, a, u) = Loud(w, a, u - 1)
      BY <2>5, <2>1 DEF Loud
    <3> QED BY <2>1, <2>2, <2>3, <2>5, <3>1 DEF G, s, t
  <2>6. CASE w[u] # Quiet
    <3>1. t = Append(s, u)
      BY <2>2, <2>6
    <3>2. /\ Len(s) \in Nat /\ Len(t) = Len(s) + 1
          /\ \A p \in 1..Len(s) : t[p] = s[p] /\ s[p] \in Loud(w, a, u - 1)
          /\ t[Len(s) + 1] = u
      BY <2>4, <3>1
    <3>3. \A x \in Loud(w, a, u - 1) : x \in Nat /\ x < u
      BY <2>1 DEF Loud
    <3>4. Rising(t)
      <4>1. SUFFICES ASSUME NEW p \in 1..Len(t), NEW q \in 1..Len(t), p < q
                     PROVE  t[p] < t[q]
        BY DEF Rising
      <4>2. p \in 1..Len(s)
        BY <3>2, <4>1
      <4>3. CASE q = Len(s) + 1
        BY <3>2, <3>3, <4>2, <4>3
      <4>4. CASE q # Len(s) + 1
        <5>1. q \in 1..Len(s)
          BY <3>2, <4>4
        <5> QED BY <2>3, <3>2, <4>1, <4>2, <5>1 DEF Rising
      <4> QED BY <4>3, <4>4
    <3>5. Lists(t, Loud(w, a, u))
      <4>1. SUFFICES ASSUME NEW x \in Loud(w, a, u)
                     PROVE  \E p \in 1..Len(t) : t[p] = x
        BY DEF Lists
      <4>2. CASE x = u
        <5>1. Len(s) + 1 \in 1..Len(t)
          BY <3>2
        <5> QED BY <3>2, <4>2, <5>1
      <4>3. CASE x # u
        <5>1. x \in Loud(w, a, u - 1)
          BY <2>1, <4>3 DEF Loud
        <5>2. PICK p \in 1..Len(s) : s[p] = x
          BY <2>3, <5>1 DEF Lists
        <5>3. p \in 1..Len(t)
          BY <3>2
        <5> QED BY <3>2, <5>2, <5>3
      <4> QED BY <4>2, <4>3
    <3> QED BY <2>1, <3>4, <3>5 DEF G, t
  <2> QED BY <2>5, <2>6
<1>4. \A u \in a..c : u \in G
  <2> HIDE DEF G
  <2> QED BY <1>2, <1>3, AllBetween
<1>5. c \in G
  <2>1. c \in a..c
    OBVIOUS
  <2> QED BY <1>4, <2>1
<1> QED BY <1>1, <1>5

\* A join drops words that end the left text, and not too many.
LEMMA MergeDrops ==
  ASSUME NEW w, NEW left \in Seq(Nat), NEW right \in Seq(Nat)
  PROVE  \E k \in Nat :
             /\ k <= Len(left) /\ k <= Len(right) /\ k <= MaxMerge
             /\ BoundaryOf(w, left, right, k)
             /\ MergeOf(w, left, right)
                    = left \o SubSeq(right, k + 1, Len(right))
<1> DEFINE top == Minimum(Minimum(Len(left), Len(right)), MaxMerge)
           Is(x) == /\ BoundaryOf(w, left, right, x)
                    /\ \A m \in (x + 1)..top : ~BoundaryOf(w, left, right, m)
           best == CHOOSE x \in 0..top : Is(x)
<1>1. Len(left) \in Nat /\ Len(right) \in Nat /\ MaxMerge \in Nat
  OBVIOUS
<1>2. /\ top \in Nat /\ top <= Len(left) /\ top <= Len(right)
      /\ top <= MaxMerge
  BY <1>1 DEF Minimum
<1>3. MergeOf(w, left, right) = left \o SubSeq(right, best + 1, Len(right))
  BY DEF MergeOf
<1> HIDE DEF top
<1>4. \E x \in 0..top : Is(x)
  <2> DEFINE G == {u \in 0..top :
                      \E m \in u..top : BoundaryOf(w, left, right, m)}
  <2>1. SUFFICES ASSUME \A x \in 0..top : ~Is(x) PROVE FALSE
    OBVIOUS
  <2>2. 0 \in G
    <3>1. BoundaryOf(w, left, right, 0)
      BY DEF BoundaryOf
    <3>2. 0 \in 0..top
      BY <1>2
    <3> QED BY <3>1, <3>2
  <2>3. ASSUME NEW u \in (0 + 1)..top, u - 1 \in G PROVE u \in G
    <3>1. PICK m \in (u - 1)..top : BoundaryOf(w, left, right, m)
      BY <2>3
    <3>2. u \in 0..top /\ m \in 0..top
      BY <1>2
    <3>3. CASE m = u - 1
      <4>1. PICK o \in (m + 1)..top : BoundaryOf(w, left, right, o)
        BY <2>1, <3>1, <3>2
      <4>2. o \in u..top
        BY <3>2, <3>3
      <4> QED BY <3>2, <4>1, <4>2
    <3>4. CASE m # u - 1
      <4>1. m \in u..top
        BY <3>2, <3>4
      <4> QED BY <3>1, <3>2, <4>1
    <3> QED BY <3>3, <3>4
  <2>4. \A u \in 0..top : u \in G
    <3> HIDE DEF G
    <3> QED BY <1>2, <2>2, <2>3, AllBetween
  <2>5. top \in 0..top
    BY <1>2
  <2>6. PICK m \in top..top : BoundaryOf(w, left, right, m)
    BY <2>4, <2>5
  <2>7. m = top
    BY <1>2
  <2>8. Is(top)
    BY <1>2, <2>6, <2>7
  <2> QED BY <2>1, <2>5, <2>8
<1>5. best \in 0..top /\ Is(best)
  <2> HIDE DEF Is
  <2> QED BY <1>4
<1>6. /\ best \in Nat /\ best <= Len(left) /\ best <= Len(right)
      /\ best <= MaxMerge /\ BoundaryOf(w, left, right, best)
  <2> HIDE DEF best
  <2> QED BY <1>1, <1>2, <1>5
<1> HIDE DEF best
<1> QED BY <1>3, <1>6

\* A window in which nothing is said changes nothing.
LEMMA MergeNothing ==
  ASSUME NEW w, NEW left \in Seq(Nat)
  PROVE  MergeOf(w, left, <<>>) = left
<1> DEFINE e == <<>>
<1>1. e \in Seq(Nat) /\ Len(e) = 0
  OBVIOUS
<1>2. left \o SubSeq(e, 1, 0) = left
  OBVIOUS
<1> HIDE DEF e
<1>3. PICK k \in Nat :
          /\ k <= Len(e)
          /\ MergeOf(w, left, e) = left \o SubSeq(e, k + 1, Len(e))
  BY <1>1, MergeDrops
<1>4. k = 0 /\ k + 1 = 1
  BY <1>1, <1>3
<1>5. MergeOf(w, left, e) = left
  BY <1>1, <1>2, <1>3, <1>4
<1> QED BY <1>5 DEF e

\* What has k names has at most k elements.
LEMMA FewNamed ==
  ASSUME NEW k \in Nat, NEW f, NEW S, \A x \in S : \E y \in 1..k : x = f[y]
  PROVE  Cardinality(S) <= k
<1> DEFINE g == [y \in 1..k |-> f[y]]
           T == {f[y] : y \in 1..k}
<1>1. g \in Surjection(1..k, T)
  BY DEF Surjection
<1>2. IsFiniteSet(1..k) /\ Cardinality(1..k) <= k
  BY FS_Interval
<1>3. IsFiniteSet(T) /\ Cardinality(T) <= Cardinality(1..k)
  <2> HIDE DEF g, T
  <2> QED BY <1>1, <1>2, FS_Surjection
<1>4. S \subseteq T
  OBVIOUS
<1> HIDE DEF T
<1>5. Cardinality(S) <= Cardinality(T) /\ IsFiniteSet(S)
  BY <1>3, <1>4, FS_Subset
<1>6. Cardinality(S) \in Nat /\ Cardinality(T) \in Nat
      /\ Cardinality(1..k) \in Nat
  BY <1>2, <1>3, <1>5, FS_CardinalityType
<1> QED BY <1>2, <1>3, <1>5, <1>6

\* What the last join did not keep of what was said up to b: the same word is
\* kept from before it, and so few between the two that a join looks at them
\* all, those included that the last window, which starts at a, hears again.
Echoes(w, a, b, text) ==
    \A u \in Loud(w, 0, b) \ Range(text) :
        \E v \in Range(text) :
            /\ v < u
            /\ w[v] = w[u]
            /\ Cardinality({x \in Range(text) \cup Loud(w, a, b) :
                                v < x /\ x < u}) < MaxMerge

\* What comes later in the audio than a word of the text comes after it in the
\* text, too (it may come before it as well).
Ahead(s) ==
    \A p, r \in 1..Len(s) :
        s[p] < s[r] => \E q \in (p + 1)..Len(s) : s[q] = s[r]

\* What a window's text is joined to keeps the order, and what a join drops is
\* an echo.
LEMMA MergeEchoes ==
  ASSUME NEW w, NEW a0 \in Nat, NEW a \in Nat, NEW b \in Nat, NEW c \in Nat,
         a0 <= a, a <= b, b <= c,
         NEW left \in Seq(Loud(w, 0, b)), Ahead(left), Echoes(w, a0, b, left),
         NEW text, text = MergeOf(w, left, WordsOf(w, a, c))
  PROVE  text \in Seq(Loud(w, 0, c)) /\ Ahead(text) /\ Echoes(w, a, c, text)
<1> DEFINE right == WordsOf(w, a, c)
           L == Len(left)
           R == Len(right)
<1>1. /\ right \in Seq(Loud(w, a, c)) /\ Rising(right)
      /\ Lists(right, Loud(w, a, c))
  <2>1. a <= c
    OBVIOUS
  <2> QED BY <2>1, WordsType, WordsInOrder
<1> HIDE DEF right
<1>2. /\ Loud(w, 0, b) \subseteq Loud(w, 0, c) /\ Loud(w, 0, c) \subseteq Nat
      /\ Loud(w, a, c) \subseteq Loud(w, 0, c)
      /\ Loud(w, 0, b) \subseteq Nat /\ Loud(w, a, c) \subseteq Nat
  BY DEF Loud
<1>3. left \in Seq(Nat) /\ right \in Seq(Nat) /\ L \in Nat /\ R \in Nat
  BY <1>1, <1>2
<1>4. PICK k \in Nat :
          /\ k <= L /\ k <= R /\ k <= MaxMerge
          /\ BoundaryOf(w, left, right, k)
          /\ MergeOf(w, left, right) = left \o SubSeq(right, k + 1, R)
  BY <1>3, MergeDrops
<1> DEFINE rest == SubSeq(right, k + 1, R)
<1>5. rest \in Seq(Loud(w, a, c)) /\ Len(rest) = R - k
      /\ \A x \in 1..(R - k) : rest[x] = right[x + k]
  BY <1>1, <1>3, <1>4
<1>6. text = left \o rest
  BY <1>4 DEF right
<1> HIDE DEF rest
<1>7. /\ text \in Seq(Loud(w, 0, c))
      /\ Len(text) = L + (R - k)
      /\ \A x \in 1..L : text[x] = left[x]
      /\ \A x \in (L + 1)..Len(text) : text[x] = rest[x - L]
  <2>1. left \in Seq(Loud(w, 0, c)) /\ rest \in Seq(Loud(w, 0, c))
    BY <1>2, <1>5
  <2>2. text \in Seq(Loud(w, 0, c)) /\ Len(text) = L + Len(rest)
    BY <2>1, <1>6
  <2>3. /\ \A x \in 1..L : text[x] = left[x]
        /\ \A x \in (L + 1)..Len(text) : text[x] = rest[x - L]
    BY <2>1, <1>6
  <2> QED BY <2>2, <2>3, <1>5
<1>8. \A x \in (L + 1)..Len(text) :
          x - L + k \in (k + 1)..R /\ text[x] = right[x - L + k]
  <2>1. SUFFICES ASSUME NEW x \in (L + 1)..Len(text)
                 PROVE  /\ x - L + k \in (k + 1)..R
                        /\ text[x] = right[x - L + k]
    OBVIOUS
  <2>2. x - L \in 1..(R - k) /\ x - L + k \in (k + 1)..R
    BY <1>3, <1>4, <1>7
  <2> QED BY <2>2, <1>5, <1>7
<1>9. \A y \in (k + 1)..R :
          y - k + L \in (L + 1)..Len(text) /\ text[y - k + L] = right[y]
  <2>1. SUFFICES ASSUME NEW y \in (k + 1)..R
                 PROVE  /\ y - k + L \in (L + 1)..Len(text)
                        /\ text[y - k + L] = right[y]
    OBVIOUS
  <2>2. /\ y - k + L \in (L + 1)..Len(text)
        /\ (y - k + L) - L + k = y
    BY <1>3, <1>4, <1>7
  <2> QED BY <2>2, <1>8
<1>10. /\ DOMAIN text = 1..Len(text) /\ DOMAIN left = 1..L
       /\ DOMAIN right = 1..R
  BY <1>3, <1>7
<1>11. Range(left) \subseteq Range(text)
       /\ Range(text) \subseteq Range(left) \cup Loud(w, a, c)
  <2>1. Range(left) \subseteq Range(text)
    <3>1. \A x \in 1..L : x \in 1..Len(text) /\ text[x] = left[x]
      BY <1>3, <1>4, <1>7
    <3> QED BY <3>1, <1>10 DEF Range
  <2>2. ASSUME NEW x \in 1..Len(text)
        PROVE  text[x] \in Range(left) \cup Loud(w, a, c)
    <3>1. CASE x <= L
      <4>1. x \in 1..L
        BY <3>1, <1>3
      <4> QED BY <4>1, <1>7, <1>10 DEF Range
    <3>2. CASE ~(x <= L)
      <4>1. x \in (L + 1)..Len(text)
        BY <3>2, <1>3, <1>7
      <4>2. x - L + k \in 1..R /\ text[x] = right[x - L + k]
        BY <4>1, <1>3, <1>4, <1>8
      <4> QED BY <4>2, <1>1
    <3> QED BY <3>1, <3>2
  <2> QED BY <2>1, <2>2, <1>10 DEF Range
<1>12. Ahead(text)
  <2>1. SUFFICES ASSUME NEW p \in 1..Len(text), NEW r \in 1..Len(text),
                        text[p] < text[r]
                 PROVE  \E q \in (p + 1)..Len(text) : text[q] = text[r]
    BY DEF Ahead
  <2>2. p \in Nat /\ r \in Nat /\ Len(text) \in Nat
    BY <1>7
  <2>3. text[p] \in Nat /\ text[r] \in Nat
    BY <1>2, <1>7
  <2>4. CASE p < r
    <3>1. r \in (p + 1)..Len(text)
      BY <2>2, <2>4
    <3> QED BY <3>1
  <2>5. CASE r <= p /\ p <= L
    <3>1. p \in 1..L /\ r \in 1..L
      BY <2>2, <2>5, <1>3
    <3>2. left[p] < left[r]
      BY <2>1, <3>1, <1>7
    <3>3. PICK q \in (p + 1)..L : left[q] = left[r]
      BY <3>1, <3>2 DEF Ahead
    <3>4. q \in 1..L /\ q \in (p + 1)..Len(text)
      <4>1. L <= Len(text)
        BY <1>3, <1>4, <1>7
      <4> QED BY <2>2, <3>3, <4>1, <1>3
    <3> QED BY <3>1, <3>3, <3>4, <1>7
  <2>6. CASE r <= p /\ L < p
    <3> DEFINE y == p - L + k
    <3>1. y \in (k + 1)..R /\ text[p] = right[y]
      <4>1. p \in (L + 1)..Len(text)
        BY <2>2, <2>6, <1>3
      <4> QED BY <4>1, <1>8
    <3> HIDE DEF y
    <3>2. y \in 1..R /\ right[y] \in Loud(w, a, c)
      <4>1. y \in 1..R
        BY <3>1, <1>3, <1>4
      <4> QED BY <4>1, <1>1
    <3>3. text[r] \in Loud(w, a, c)
      <4>0. a < right[y]
        BY <3>2 DEF Loud
      <4>1. text[r] \in Loud(w, 0, c) /\ a < right[y]
        BY <4>0, <1>7
      <4>2. a < text[r]
        BY <2>1, <2>3, <3>1, <4>1
      <4> QED BY <4>1, <4>2 DEF Loud
    <3>4. PICK o \in 1..R : right[o] = text[r]
      BY <3>3, <1>1 DEF Lists
    <3>5. y < o
      <4>1. SUFFICES ASSUME o <= y PROVE FALSE
        BY <3>2
      <4>2. right[o] <= right[y]
        <5>1. CASE o = y
          BY <5>1, <3>1, <2>3
        <5>2. CASE o # y
          <6>1. o < y
            BY <4>1, <5>2, <3>2
          <6>2. right[o] < right[y]
            BY <6>1, <3>2, <1>1 DEF Rising
          <6> QED BY <6>2, <3>1, <3>4, <2>3
        <5> QED BY <5>1, <5>2
      <4> QED BY <4>2, <2>1, <2>3, <3>1, <3>4
    <3>6. o \in (k + 1)..R
      BY <3>1, <3>5, <1>3
    <3>7. o - k + L \in (p + 1)..Len(text)
      <4>1. p + 1 <= o - k + L
        BY <3>5, <2>2, <1>3 DEF y
      <4>2. o - k + L \in (L + 1)..Len(text)
        BY <3>6, <1>9
      <4> QED BY <4>1, <4>2, <2>2
    <3> QED BY <3>4, <3>6, <3>7, <1>9
  <2> QED BY <2>2, <2>4, <2>5, <2>6, <1>3
<1>13. Echoes(w, a, c, text)
  <2>1. SUFFICES ASSUME NEW u \in Loud(w, 0, c) \ Range(text)
                 PROVE  \E v \in Range(text) :
                            /\ v < u
                            /\ w[v] = w[u]
                            /\ Cardinality(
                                   {x \in Range(text) \cup Loud(w, a, c) :
                                       v < x /\ x < u}) < MaxMerge
    BY DEF Echoes
  <2>2. u \in Nat
    BY <1>2
  <2>3. CASE u <= b
    <3>1. u \in Loud(w, 0, b) \ Range(left)
      BY <2>3, <1>11 DEF Loud
    <3>2. PICK v \in Range(left) :
              /\ v < u
              /\ w[v] = w[u]
              /\ Cardinality({x \in Range(left) \cup Loud(w, a0, b) :
                                  v < x /\ x < u}) < MaxMerge
      BY <3>1 DEF Echoes
    <3> DEFINE Old == {x \in Range(left) \cup Loud(w, a0, b) : v < x /\ x < u}
               New == {x \in Range(text) \cup Loud(w, a, c) : v < x /\ x < u}
    <3>3. New \subseteq Old
      <4>1. ASSUME NEW x \in Loud(w, a, c), x < u PROVE x \in Loud(w, a0, b)
        BY <4>1, <2>2, <2>3 DEF Loud
      <4> QED BY <4>1, <1>11
    <3>4. IsFiniteSet(Old)
      <4>1. Range(left) \subseteq Nat
        BY <1>3, <1>10 DEF Range
      <4>2. Loud(w, a0, b) \subseteq Nat
        BY DEF Loud
      <4>3. Old \subseteq Nat /\ \A x \in Old : x <= u
        BY <2>2, <4>1, <4>2
      <4> HIDE DEF Old
      <4> QED BY <2>2, <4>3, FS_BoundedSetOfNaturals
    <3>5. Cardinality(New) < MaxMerge
      <4>0. Cardinality(Old) < MaxMerge
        BY <3>2
      <4> HIDE DEF Old, New
      <4>1. Cardinality(New) <= Cardinality(Old) /\ IsFiniteSet(New)
        BY <3>3, <3>4, FS_Subset
      <4>2. Cardinality(New) \in Nat /\ Cardinality(Old) \in Nat
        BY <3>4, <4>1, FS_CardinalityType
      <4> QED BY <4>0, <4>1, <4>2
    <3> QED BY <3>2, <3>5, <1>11
  <2>4. CASE b < u
    <3>1. u \in Loud(w, a, c)
      BY <2>2, <2>4 DEF Loud
    <3>2. PICK m \in 1..R : right[m] = u
      BY <3>1, <1>1 DEF Lists
    <3>3. m <= k
      <4>1. SUFFICES ASSUME k < m PROVE FALSE
        BY <1>4
      <4>2. m \in (k + 1)..R
        BY <4>1, <3>2, <1>3
      <4>3. /\ m - k + L \in (L + 1)..Len(text)
            /\ text[m - k + L] = u
        BY <4>2, <3>2, <1>9
      <4>4. m - k + L \in 1..Len(text)
        BY <4>3, <1>3
      <4>5. u \in Range(text)
        BY <4>3, <4>4, <1>10 DEF Range
      <4> QED BY <4>5
    <3> DEFINE z == L - k + m
               v == left[z]
               New == {x \in Range(text) \cup Loud(w, a, c) : v < x /\ x < u}
               name == [y \in 1..(k - 1) |->
                           IF y <= k - m THEN left[z + y]
                           ELSE right[y - (k - m)]]
    <3>4. z \in 1..L /\ m \in 1..k /\ k - 1 \in Nat
      BY <3>2, <3>3, <1>3, <1>4
    <3>5. w[v] = w[u]
      BY <3>2, <3>4, <1>4 DEF BoundaryOf
    <3>6. v \in Range(left) /\ v \in Range(text) /\ v \in Nat /\ v < u
      <4>1. v \in Range(left) /\ v \in Loud(w, 0, b)
        BY <3>4, <1>10 DEF Range
      <4>2. v \in Nat /\ v <= b
        BY <4>1 DEF Loud
      <4> QED BY <4>1, <4>2, <2>2, <2>4, <1>11
    <3>7. ASSUME NEW x \in New PROVE \E y \in 1..(k - 1) : x = name[y]
      <4>1. v < x /\ x < u
        OBVIOUS
      <4> HIDE DEF v
      <4>2. CASE x \in Range(left)
        <5>1. PICK r \in 1..L : left[r] = x
          BY <4>2, <1>10 DEF Range
        <5>2. PICK q \in (z + 1)..L : left[q] = x
          BY <4>1, <5>1, <3>4 DEF Ahead, v
        <5>3. /\ q - z \in 1..(k - 1) /\ q - z <= k - m
              /\ z + (q - z) = q
          BY <5>2, <3>4, <1>3, <1>4
        <5> QED BY <5>2, <5>3
      <4>3. CASE x \notin Range(left)
        <5>1. x \in Loud(w, a, c)
          BY <4>3, <1>11
        <5>2. PICK q \in 1..R : right[q] = x
          BY <5>1, <1>1 DEF Lists
        <5>3. q < m
          <6>1. SUFFICES ASSUME m <= q PROVE FALSE
            BY <3>2
          <6>2. x \in Nat
            BY <5>1, <1>2
          <6>3. CASE m = q
            BY <6>2, <6>3, <3>2, <4>1, <5>2, <2>2
          <6>4. CASE m # q
            <7>1. m < q
              BY <6>1, <6>4, <3>2
            <7>2. right[m] < right[q]
              BY <7>1, <3>2, <1>1 DEF Rising
            <7> QED BY <7>2, <6>2, <3>2, <4>1, <5>2, <2>2
          <6> QED BY <6>3, <6>4
        <5>4. /\ k - m + q \in 1..(k - 1) /\ ~(k - m + q <= k - m)
              /\ (k - m + q) - (k - m) = q
          BY <5>2, <5>3, <3>4
        <5> QED BY <5>2, <5>4
      <4> QED BY <4>2, <4>3
    <3>8. Cardinality(New) < MaxMerge
      <4> HIDE DEF New, name
      <4>1. Cardinality(New) <= k - 1
        BY <3>4, <3>7, FewNamed
      <4>2. Cardinality(New) \in Nat
        <5>1. New \subseteq Nat /\ \A x \in New : x <= u
          <6>1. Range(text) \subseteq Nat
            BY <1>2, <1>7, <1>10 DEF Range
          <6> QED BY <6>1, <1>2, <2>2 DEF New
        <5>2. IsFiniteSet(New)
          BY <2>2, <5>1, FS_BoundedSetOfNaturals
        <5> QED BY <5>2, FS_CardinalityType
      <4> QED BY <4>1, <4>2, <3>4, <1>4
    <3> QED BY <3>5, <3>6, <3>8
  <2>5. u <= b \/ b < u
    BY <2>2
  <2> QED BY Zenon, <2>3, <2>4, <2>5
<1> QED BY <1>7, <1>12, <1>13

-----------------------------------------------------------------------------
(* The windows.                                                            *)

SpanTypes ==
    /\ set \in Settings
    /\ n \in Nat
    /\ start \in Nat
    /\ spans \in Seq(Nat)

\* Window j + 1 starts after window j, which does not reach the end, but not
\* after its end.
Follows(j) ==
    /\ spans[j] < spans[j + 1]
    /\ spans[j + 1] <= spans[j] + set.chunk
    /\ spans[j] + set.chunk < n

InOrder ==
    /\ spans # <<>> => spans[1] = 0
    /\ \A j \in 1..(Len(spans) - 1) : Follows(j)

Sliding ==
    at = "slide" =>
        /\ spans = <<>> => start = 0
        /\ spans # <<>> =>
               /\ start = spans[Len(spans)] + Hop
               /\ spans[Len(spans)] + set.chunk < n

Complete ==
    at # "slide" => spans # <<>> /\ n <= spans[Len(spans)] + set.chunk

IInv == SpanTypes /\ InOrder /\ Sliding /\ Complete

\* A setting has a positive hop within its chunk.
LEMMA SettingTypes ==
  ASSUME set \in Settings
  PROVE  /\ set.chunk \in Nat \ {0}
         /\ set.minTail \in Nat
         /\ Hop \in 1..set.chunk
<1>1. /\ set.chunk \in Nat \ {0}
      /\ set.minTail \in Nat
      /\ set.overlap \in 0..(set.chunk - 1)
  OBVIOUS
<1> QED BY <1>1 DEF Hop

\* No window has been chosen at first.
LEMMA InitHolds == Init => IInv
<1> SUFFICES ASSUME Init PROVE IInv
  OBVIOUS
<1>1. SpanTypes
  BY DEF Init, SpanTypes
<1>2. InOrder
  BY DEF Init, InOrder
<1>3. Sliding
  BY Zenon DEF Init, Sliding
<1>4. Complete
  BY Zenon DEF Init, Complete
<1> QED BY <1>1, <1>2, <1>3, <1>4 DEF IInv

\* The loop adds a window a hop after the last one.
LEMMA AddSpanKeeps == IInv /\ AddSpan => IInv'
<1> SUFFICES ASSUME IInv, AddSpan PROVE IInv'
  OBVIOUS
<1> DEFINE L == Len(spans)
<1>1. /\ set \in Settings /\ n \in Nat /\ start \in Nat
      /\ spans \in Seq(Nat) /\ L \in Nat
  BY DEF IInv, SpanTypes
<1>2. /\ at = "slide" /\ n > set.chunk
      /\ set' = set /\ n' = n /\ spans' = Append(spans, start)
  BY DEF AddSpan
<1>3. /\ set.chunk \in Nat \ {0} /\ set.minTail \in Nat /\ Hop \in 1..set.chunk
      /\ Hop' = Hop
  BY <1>1, <1>2, SettingTypes DEF Hop
<1>4. /\ spans' \in Seq(Nat) /\ Len(spans') = L + 1
      /\ \A j \in 1..L : spans'[j] = spans[j]
      /\ spans'[L + 1] = start
  BY <1>1, <1>2
<1>5. /\ L = 0 => start = 0
      /\ L > 0 => start = spans[L] + Hop /\ spans[L] + set.chunk < n
  <2>1. L = 0 <=> spans = <<>>
    BY <1>1
  <2> QED BY <1>2, <2>1 DEF IInv, Sliding
<1>6. \/ /\ n <= start + set.chunk /\ at' = "tail" /\ start' = start
      \/ /\ start + set.chunk < n /\ at' = "slide" /\ start' = start + Hop
  <2>1. EndOf(start) >= n <=> n <= start + set.chunk
    BY <1>1, <1>3 DEF EndOf, Minimum
  <2>2. CASE EndOf(start) >= n
    BY <2>1, <2>2 DEF AddSpan
  <2>3. CASE ~(EndOf(start) >= n)
    <3>1. at' = "slide" /\ start' = start + Hop
      BY <2>3, <1>2 DEF AddSpan
    <3> QED BY <2>1, <2>3, <3>1, <1>1, <1>3
  <2> QED BY <2>2, <2>3
<1>7. SpanTypes'
  BY <1>1, <1>2, <1>3, <1>4, <1>6 DEF SpanTypes
<1>8. InOrder'
  <2>1. spans'[1] = 0
    <3>1. CASE L = 0
      BY <3>1, <1>4, <1>5
    <3>2. CASE L > 0
      BY <3>2, <1>1, <1>4 DEF IInv, InOrder
    <3> QED BY <3>1, <3>2, <1>1
  <2>2. ASSUME NEW j \in 1..L PROVE Follows(j)'
    <3>1. CASE j < L
      <4>1. Follows(j)
        BY <3>1, <1>1 DEF IInv, InOrder
      <4>2. j + 1 \in 1..L
        BY <3>1, <1>1
      <4>3. spans'[j] = spans[j] /\ spans'[j + 1] = spans[j + 1]
        BY <4>2, <1>4
      <4> QED BY <4>1, <4>3, <1>2 DEF Follows
    <3>2. CASE j = L
      <4>1. /\ spans[L] \in Nat /\ start = spans[L] + Hop
            /\ spans[L] + set.chunk < n
        BY <3>2, <1>1, <1>5
      <4>2. spans'[j] = spans[L] /\ spans'[j + 1] = start
        BY <3>2, <1>4
      <4> QED BY <4>1, <4>2, <1>1, <1>2, <1>3 DEF Follows
    <3> QED BY <3>1, <3>2, <1>1
  <2> QED BY <2>1, <2>2, <1>1, <1>4 DEF InOrder
<1>9. Len(spans') = L + 1 /\ spans' # <<>> /\ spans'[Len(spans')] = start
  BY <1>1, <1>4
<1>10. Sliding'
  BY <1>2, <1>3, <1>6, <1>9 DEF Sliding
<1>11. Complete'
  BY <1>2, <1>6, <1>9 DEF Complete
<1> QED BY <1>7, <1>8, <1>10, <1>11 DEF IInv

\* Moving a short last window back leaves no gap and no window behind it.
LEMMA MergeShortTailKeeps == IInv /\ MergeShortTail => IInv'
<1> SUFFICES ASSUME IInv, MergeShortTail PROVE IInv'
  OBVIOUS
<1> DEFINE L == Len(spans)
<1>1. /\ set \in Settings /\ n \in Nat /\ start \in Nat
      /\ spans \in Seq(Nat) /\ L \in Nat
  BY DEF IInv, SpanTypes
<1>2. /\ at = "tail" /\ at' = "decode"
      /\ set' = set /\ n' = n /\ start' = start
  BY DEF MergeShortTail
<1>3. /\ set.chunk \in Nat \ {0} /\ Hop \in 1..set.chunk
  BY <1>1, SettingTypes
<1>4. /\ spans # <<>> /\ L > 0 /\ n <= spans[L] + set.chunk
  <2>1. spans # <<>> /\ n <= spans[L] + set.chunk
    BY <1>2 DEF IInv, Complete
  <2> QED BY <2>1, <1>1
<1>5. CASE ~ShortTail
  <2>1. spans' = spans
    BY <1>5 DEF MergeShortTail
  <2> QED
    BY <1>1, <1>2, <1>4, <2>1
    DEF IInv, SpanTypes, InOrder, Follows, Sliding, Complete
<1>6. CASE ShortTail
  <2>1. L > 1 /\ spans' = Append(Front(spans), n - set.chunk)
    BY <1>6 DEF MergeShortTail, ShortTail
  <2>2. Follows(L - 1) /\ spans[L - 1] \in Nat /\ spans[L] \in Nat
    BY <2>1, <1>1 DEF IInv, InOrder
  <2>3. n - set.chunk \in Nat /\ spans[L - 1] < n - set.chunk
        /\ n - set.chunk <= spans[L]
    BY <2>2, <1>1, <1>3, <1>4 DEF Follows
  <2>4. /\ Front(spans) \in Seq(Nat) /\ Len(Front(spans)) = L - 1
        /\ \A j \in 1..(L - 1) : Front(spans)[j] = spans[j]
    BY <1>1, <2>1 DEF Front
  <2>5. /\ spans' \in Seq(Nat) /\ Len(spans') = L
        /\ \A j \in 1..(L - 1) : spans'[j] = spans[j]
        /\ spans'[L] = n - set.chunk
    BY <2>1, <2>3, <2>4, <1>1
  <2>6. SpanTypes'
    BY <1>1, <1>2, <2>5 DEF SpanTypes
  <2>7. InOrder'
    <3>1. spans'[1] = 0
      <4>1. 1 \in 1..(L - 1) /\ spans[1] = 0
        BY <2>1, <1>1, <1>4 DEF IInv, InOrder
      <4> QED BY <4>1, <2>5
    <3>2. ASSUME NEW j \in 1..(L - 1) PROVE Follows(j)'
      <4>1. Follows(j)
        BY <1>1 DEF IInv, InOrder
      <4>2. CASE j < L - 1
        <5>1. j + 1 \in 1..(L - 1)
          BY <4>2, <1>1
        <5>2. spans'[j] = spans[j] /\ spans'[j + 1] = spans[j + 1]
          BY <5>1, <2>5
        <5> QED BY <4>1, <5>2, <1>2 DEF Follows
      <4>3. CASE j = L - 1
        <5>0. j + 1 = L
          BY <4>3, <1>1
        <5>1. spans'[j] = spans[j] /\ spans'[j + 1] = n - set.chunk
          BY <5>0, <2>5
        <5>2. spans[j] \in Nat /\ spans[j] < n - set.chunk
          BY <4>3, <2>2, <2>3
        <5>3. n - set.chunk <= spans[j] + set.chunk
          BY <4>1, <4>3, <2>2, <2>3, <1>1, <1>3 DEF Follows
        <5> QED BY <4>1, <5>1, <5>2, <5>3, <1>2 DEF Follows
      <4> QED BY <4>2, <4>3, <1>1
    <3> QED BY <3>1, <3>2, <2>5 DEF InOrder
  <2>8. Sliding'
    BY <1>2 DEF Sliding
  <2>9. Complete'
    <3>1. spans' # <<>>
      BY <2>5, <2>1
    <3>2. n <= (n - set.chunk) + set.chunk
      BY <1>1, <1>3
    <3> QED BY <3>1, <3>2, <2>5, <1>2 DEF Complete
  <2> QED BY <2>6, <2>7, <2>8, <2>9 DEF IInv
<1> QED BY <1>5, <1>6

\* Sliding, merging the tail, decoding and joining keep the windows in order.
LEMMA StepHolds == IInv /\ [Next]_vars => IInv'
<1> SUFFICES ASSUME IInv, [Next]_vars PROVE IInv'
  OBVIOUS
<1>1. CASE FitsOneWindow
  <2>1. /\ set' = set /\ n' = n /\ start' = start
        /\ spans' = <<0>> /\ at' = "tail" /\ n <= set.chunk
    BY <1>1 DEF FitsOneWindow
  <2>2. set \in Settings /\ n \in Nat /\ start \in Nat /\ set.chunk \in Nat
    BY SettingTypes DEF IInv, SpanTypes
  <2>3. SpanTypes'
    BY <2>1, <2>2 DEF SpanTypes
  <2>4. Len(spans') = 1 /\ spans'[1] = 0 /\ spans' # <<>>
    BY <2>1
  <2>5. InOrder'
    BY <2>4 DEF InOrder
  <2>6. Sliding' /\ Complete'
    BY <2>1, <2>2, <2>4 DEF Sliding, Complete
  <2> QED BY <2>3, <2>5, <2>6 DEF IInv
<1>2. CASE AddSpan
  BY <1>2, AddSpanKeeps
<1>3. CASE MergeShortTail
  BY <1>3, MergeShortTailKeeps
<1>4. ASSUME /\ UNCHANGED <<set, n, start, spans>>
             /\ at = "slide" <=> at' = "slide"
      PROVE  IInv'
  <2>1. SpanTypes' /\ InOrder'
    BY <1>4 DEF IInv, SpanTypes, InOrder, Follows
  <2>2. Sliding' /\ Complete'
    BY <1>4 DEF IInv, Sliding, Complete, Hop
  <2> QED BY <2>1, <2>2 DEF IInv
<1>5. CASE DecodeSpan
  BY <1>4, <1>5 DEF DecodeSpan
<1>6. CASE DecodeRaises
  BY <1>4, <1>6 DEF DecodeRaises
<1>7. CASE Stitch
  BY <1>4, <1>7 DEF Stitch
<1>8. CASE UNCHANGED vars
  BY <1>4, <1>8 DEF vars
<1> QED BY <1>1, <1>2, <1>3, <1>5, <1>6, <1>7, <1>8 DEF Next

\* Windows in order a hop apart up to the end cover the audio.
LEMMA InvImpliesCover == IInv => SpansCover
<1> SUFFICES ASSUME IInv, at # "slide"
             PROVE  /\ spans # <<>>
                    /\ spans[1] = 0
                    /\ Chained
                    /\ EndOf(spans[Len(spans)]) = n
  BY DEF SpansCover
<1>1. /\ n \in Nat /\ spans \in Seq(Nat) /\ set.chunk \in Nat
  BY SettingTypes DEF IInv, SpanTypes
<1>2. spans # <<>> /\ spans[1] = 0
  BY DEF IInv, Complete, InOrder
<1>3. EndOf(spans[Len(spans)]) = n
  <2>1. spans[Len(spans)] \in Nat /\ n <= spans[Len(spans)] + set.chunk
    BY <1>1, <1>2 DEF IInv, Complete
  <2> QED BY <2>1, <1>1 DEF EndOf, Minimum
<1>4. ASSUME NEW j \in 1..(Len(spans) - 1)
      PROVE  /\ spans[j] < spans[j + 1]
             /\ spans[j + 1] <= EndOf(spans[j])
             /\ EndOf(spans[j]) < EndOf(spans[j + 1])
  <2>1. Follows(j) /\ spans[j] \in Nat /\ spans[j + 1] \in Nat
    BY <1>1 DEF IInv, InOrder
  <2> QED BY <2>1, <1>1 DEF Follows, EndOf, Minimum
<1> QED BY <1>2, <1>3, <1>4 DEF Chained

\* Whatever the settings and the length, the windows to decode hear all of
\* the audio, and each hears some that the ones before it did not
\* (iter_audio_chunk_spans, _merge_short_tail_spans).
THEOREM WindowsCover == Spec => []SpansCover
<1>1. Spec => []IInv
  BY InitHolds, StepHolds, PTL DEF Spec
<1> QED BY <1>1, InvImpliesCover, PTL

-----------------------------------------------------------------------------
(* The text that is joined window by window.                               *)

\* Where the window decoded last ends.
Reached == IF i = 0 THEN 0 ELSE EndOf(spans[i])

TextTypes ==
    /\ i \in 0..Len(spans)
    /\ texts \in Seq(Seq(Nat))

\* Where the window decoded last starts.
From == IF i = 0 THEN 0 ELSE spans[i]

\* The next window starts where the ones before it still heard, and after the
\* last of them did; it ends later.
LEMMA NextWindow ==
  ASSUME IInv, TextTypes, at = "decode", i < Len(spans)
  PROVE  /\ From \in Nat /\ spans[i + 1] \in Nat /\ Reached \in Nat
         /\ EndOf(spans[i + 1]) \in Nat
         /\ From <= spans[i + 1]
         /\ spans[i + 1] <= Reached
         /\ Reached <= EndOf(spans[i + 1])
         /\ EndOf(spans[i + 1]) <= n
<1> DEFINE L == Len(spans)
           a == spans[i + 1]
           b == Reached
           c == EndOf(spans[i + 1])
<1>1. /\ n \in Nat /\ spans \in Seq(Nat) /\ L \in Nat
      /\ set.chunk \in Nat \ {0}
  BY SettingTypes DEF IInv, SpanTypes
<1>2. i \in 0..L /\ i + 1 \in 1..L
  BY <1>1 DEF TextTypes
<1>3. /\ spans[1] = 0 /\ Chained
  BY InvImpliesCover DEF SpansCover
<1>4. a \in Nat
  BY <1>1, <1>2
<1>5. CASE i = 0
  <2>1. a = 0 /\ b = 0 /\ From = 0
    BY <1>3, <1>5 DEF Reached, From
  <2>2. c \in Nat /\ c <= n
    BY <2>1, <1>1 DEF EndOf, Minimum
  <2> QED BY <2>1, <2>2
<1>6. CASE i # 0
  <2>1. /\ i \in 1..(L - 1) /\ b = EndOf(spans[i]) /\ spans[i] \in Nat
        /\ From = spans[i]
    BY <1>6, <1>1, <1>2 DEF Reached, From
  <2>2. spans[i] < a /\ a <= b /\ b < c
    BY <2>1, <1>3 DEF Chained
  <2>3. b \in Nat /\ b <= n
    BY <2>1, <1>1 DEF EndOf, Minimum
  <2>4. c \in Nat /\ c <= n
    BY <1>1, <1>4 DEF EndOf, Minimum
  <2> QED BY <2>1, <2>2, <2>3, <2>4, <1>4
<1> QED BY <1>5, <1>6

\* OverlapsFit, by WordsOf.
Fitting ==
    \A j \in 1..(Len(spans) - 1) :
        Len(WordsOf(said, spans[j + 1], EndOf(spans[j]))) <= MaxMerge

NotYet == at \in {"slide", "tail"} => i = 0 /\ texts = <<>>

\* The texts up to now join to the words said up to where they were heard.
JoinedUpToNow ==
    at \in {"decode", "done"} /\ Fitting /\ AllDifferent =>
        StitchOf(said, texts) = WordsOf(said, 0, Reached)

JoinedAtLast ==
    at = "done" => i = Len(spans) /\ full = StitchOf(said, texts)

JoinInv == TextTypes /\ NotYet /\ JoinedUpToNow /\ JoinedAtLast

\* No text has been heard at first.
LEMMA JoinInit == Init => JoinInv
<1> SUFFICES ASSUME Init PROVE JoinInv
  OBVIOUS
<1>1. /\ i = 0 /\ texts = <<>> /\ spans = <<>> /\ at = "slide"
  BY DEF Init
<1>2. TextTypes
  <2>1. i \in 0..Len(spans)
    BY <1>1
  <2>2. texts \in Seq(Seq(Nat))
    BY <1>1
  <2> QED BY <2>1, <2>2 DEF TextTypes
<1>3. NotYet
  BY <1>1 DEF NotYet
<1>4. JoinedUpToNow /\ JoinedAtLast
  BY <1>1 DEF JoinedUpToNow, JoinedAtLast
<1> QED BY <1>2, <1>3, <1>4 DEF JoinInv

\* The windows chosen are the windows decoded.
LEMMA WindowsStay ==
  ASSUME UNCHANGED <<set, n, said, spans>>
  PROVE  /\ Fitting' <=> Fitting
         /\ AllDifferent' <=> AllDifferent
<1>1. Fitting' <=> Fitting
  BY DEF Fitting, EndOf, Minimum
<1>2. AllDifferent' <=> AllDifferent
  BY DEF AllDifferent, Words
<1> QED BY <1>1, <1>2

\* The text of the next window is joined to what the ones before it heard.
LEMMA DecodeSpanJoins == IInv /\ JoinInv /\ DecodeSpan => JoinInv'
<1> SUFFICES ASSUME IInv, JoinInv, DecodeSpan PROVE JoinInv'
  OBVIOUS
<1> DEFINE L == Len(spans)
           a == spans[i + 1]
           b == Reached
           c == EndOf(spans[i + 1])
           text == WordsOf(said, a, c)
<1>1. /\ at = "decode" /\ at' = "decode" /\ i < L /\ i' = i + 1
      /\ UNCHANGED <<set, n, said, spans>>
  BY DEF DecodeSpan
<1>2. texts' = IF text = <<>> THEN texts ELSE Append(texts, text)
  BY HeardIsWordsOf DEF DecodeSpan
<1>3. /\ n \in Nat /\ spans \in Seq(Nat) /\ L \in Nat
      /\ set.chunk \in Nat \ {0}
  BY SettingTypes DEF IInv, SpanTypes
<1>4. i \in 0..L /\ i + 1 \in 1..L /\ texts \in Seq(Seq(Nat))
  BY <1>1, <1>3 DEF JoinInv, TextTypes
<1>5. /\ spans[1] = 0 /\ Chained
  BY <1>1, InvImpliesCover DEF SpansCover
<1>6. a \in Nat /\ b \in Nat /\ c \in Nat /\ a <= b /\ b <= c /\ c <= n
  BY <1>1, NextWindow DEF JoinInv
<1>7. Reached' = c
  BY <1>1, <1>4 DEF Reached, EndOf, Minimum
<1>8. text \in Seq(Nat)
  <2>1. text \in Seq(Loud(said, a, c))
    <3> HIDE DEF a, b, c
    <3> QED BY <1>6, WordsType
  <2>2. Loud(said, a, c) \subseteq Nat
    <3> HIDE DEF a, b, c
    <3> QED BY <1>6 DEF Loud
  <2> HIDE DEF text
  <2> QED BY <2>1, <2>2
<1>9. TextTypes'
  <2>1. i' \in 0..Len(spans')
    BY <1>1, <1>3, <1>4
  <2>2. texts' \in Seq(Seq(Nat))
    <3> HIDE DEF text
    <3> QED BY <1>2, <1>4, <1>8
  <2> QED BY <2>1, <2>2 DEF TextTypes
<1>10. JoinedUpToNow'
  <2>1. SUFFICES ASSUME Fitting, AllDifferent
                 PROVE  StitchOf(said, texts') = WordsOf(said, 0, c)
    BY <1>1, <1>7, WindowsStay DEF JoinedUpToNow
  <2>2. StitchOf(said, texts) = WordsOf(said, 0, b)
    BY <2>1, <1>1 DEF JoinInv, JoinedUpToNow
  <2>3. CASE text = <<>>
    <3>1. <<>> = WordsOf(said, a, b) \o WordsOf(said, b, c)
      <4> HIDE DEF a, b, c
      <4> QED BY <2>3, <1>6, WordsSplit
    <3>2. /\ WordsOf(said, a, b) \in Seq(Loud(said, a, b))
          /\ WordsOf(said, b, c) \in Seq(Loud(said, b, c))
          /\ WordsOf(said, 0, b) \in Seq(Loud(said, 0, b))
      <4> HIDE DEF a, b, c
      <4> QED BY <1>6, WordsType
    <3>3. WordsOf(said, b, c) = <<>>
      <4> DEFINE x == WordsOf(said, a, b)
                 y == WordsOf(said, b, c)
      <4>1. x \in Seq(Loud(said, a, b)) /\ y \in Seq(Loud(said, b, c))
            /\ x \o y = <<>>
        BY <3>1, <3>2
      <4> HIDE DEF x, y, a, b, c
      <4>2. Len(x \o y) = Len(x) + Len(y) /\ Len(x) \in Nat /\ Len(y) \in Nat
        BY <4>1
      <4>3. Len(y) = 0
        BY <4>1, <4>2
      <4> QED BY <4>1, <4>3 DEF y
    <3>4. WordsOf(said, 0, c) = WordsOf(said, 0, b) \o WordsOf(said, b, c)
      <4>1. 0 \in Nat /\ 0 <= b
        BY <1>6
      <4> HIDE DEF a, b, c
      <4> QED BY <4>1, <1>6, WordsSplit
    <3>5. WordsOf(said, 0, b) \o <<>> = WordsOf(said, 0, b)
      <4> HIDE DEF a, b, c
      <4> QED BY <3>2, ConcatEmptySeq
    <3> QED BY <2>2, <2>3, <1>2, <3>3, <3>4, <3>5
  <2>4. CASE text # <<>>
    <3>1. StitchOf(said, Append(texts, text))
              = MergeOf(said, StitchOf(said, texts), text)
      <4> HIDE DEF text
      <4> QED BY <1>4, <1>8, StitchOneMore
    <3>2. \A u, v \in Loud(said, 0, c) : said[u] = said[v] => u = v
      <4>1. Loud(said, 0, c) \subseteq Words
        <5> HIDE DEF a, b, c
        <5> QED BY <1>6, <1>3 DEF Loud, Words
      <4> QED BY <4>1, <2>1 DEF AllDifferent
    <3>3. Len(WordsOf(said, a, b)) <= MaxMerge
      <4>1. CASE i = 0
        <5>1. a = 0 /\ b = 0
          BY <4>1, <1>5 DEF Reached
        <5>2. WordsOf(said, a, b) = <<>>
          BY <5>1, NoWords
        <5> QED BY <5>2
      <4>2. CASE i # 0
        <5>1. i \in 1..(L - 1) /\ b = EndOf(spans[i])
          BY <4>2, <1>1, <1>3, <1>4 DEF Reached
        <5> QED BY <5>1, <2>1 DEF Fitting
      <4> QED BY <4>1, <4>2
    <3>4. MergeOf(said, WordsOf(said, 0, b), text) = WordsOf(said, 0, c)
      <4> HIDE DEF a, b, c
      <4> QED BY <1>6, <3>2, <3>3, JoinHeard
    <3> QED BY <2>2, <2>4, <1>2, <3>1, <3>4
  <2> QED BY <2>3, <2>4
<1>11. NotYet' /\ JoinedAtLast'
  BY <1>1 DEF NotYet, JoinedAtLast
<1> QED BY <1>9, <1>10, <1>11 DEF JoinInv

\* Every step joins no other texts than those of the windows decoded.
LEMMA JoinStep == IInv /\ JoinInv /\ [Next]_vars => JoinInv'
<1> SUFFICES ASSUME IInv, JoinInv, [Next]_vars PROVE JoinInv'
  OBVIOUS
<1>1. TextTypes /\ NotYet /\ JoinedUpToNow /\ JoinedAtLast
  BY DEF JoinInv
<1>2. ASSUME at \in {"slide", "tail"}, at' \in {"slide", "tail"},
             UNCHANGED <<i, texts>>, Len(spans') \in Nat
      PROVE  JoinInv'
  <2>1. i = 0 /\ texts = <<>>
    BY <1>1, <1>2 DEF NotYet
  <2>2. i' \in 0..Len(spans') /\ texts' \in Seq(Seq(Nat))
    BY <1>1, <1>2, <2>1 DEF TextTypes
  <2>3. NotYet'
    BY <1>2, <2>1 DEF NotYet
  <2>4. JoinedUpToNow' /\ JoinedAtLast'
    BY <1>2 DEF JoinedUpToNow, JoinedAtLast
  <2> QED BY <2>2, <2>3, <2>4 DEF JoinInv, TextTypes
<1>3. CASE FitsOneWindow
  BY <1>2, <1>3 DEF FitsOneWindow
<1>4. CASE AddSpan
  <2>1. Len(spans') \in Nat
    BY <1>4, AddSpanKeeps DEF IInv, SpanTypes
  <2> QED BY <1>2, <1>4, <2>1 DEF AddSpan
<1>5. CASE MergeShortTail
  <2>1. i = 0 /\ texts = <<>> /\ i' = 0 /\ texts' = <<>> /\ at' = "decode"
    BY <1>1, <1>5 DEF MergeShortTail, NotYet
  <2>2. spans' \in Seq(Nat)
    BY <1>5, MergeShortTailKeeps DEF IInv, SpanTypes
  <2>3. TextTypes'
    <3>1. i' \in 0..Len(spans')
      BY <2>1, <2>2
    <3>2. texts' \in Seq(Seq(Nat))
      BY <2>1
    <3> QED BY <3>1, <3>2 DEF TextTypes
  <2>4. JoinedUpToNow'
    <3>1. Reached' = 0
      BY <2>1 DEF Reached
    <3>2. WordsOf(said', 0, 0) = <<>>
      BY NoWords
    <3>3. StitchOf(said', <<>>) = <<>>
      BY StitchNothing
    <3> QED BY <2>1, <3>1, <3>2, <3>3 DEF JoinedUpToNow
  <2>5. NotYet' /\ JoinedAtLast'
    BY <2>1 DEF NotYet, JoinedAtLast
  <2> QED BY <2>3, <2>4, <2>5 DEF JoinInv
<1>6. CASE DecodeSpan
  BY <1>6, DecodeSpanJoins
<1>7. CASE DecodeRaises
  BY <1>1, <1>7
  DEF DecodeRaises, JoinInv, TextTypes, NotYet, JoinedUpToNow, JoinedAtLast
<1>8. CASE Stitch
  <2>1. /\ at = "decode" /\ i = Len(spans) /\ at' = "done"
        /\ UNCHANGED <<set, n, said, spans, i, texts>>
    BY <1>8 DEF Stitch
  <2>2. full' = StitchOf(said, texts)
    BY <1>8, StitchIsStitchOf DEF Stitch
  <2>3. TextTypes' /\ NotYet'
    BY <1>1, <2>1 DEF TextTypes, NotYet
  <2>4. Reached' = Reached
    BY <2>1 DEF Reached, EndOf, Minimum
  <2>5. JoinedUpToNow'
    BY <1>1, <2>1, <2>4, WindowsStay DEF JoinedUpToNow
  <2>6. JoinedAtLast'
    BY <2>1, <2>2 DEF JoinedAtLast
  <2> QED BY <2>3, <2>5, <2>6 DEF JoinInv
<1>9. CASE UNCHANGED vars
  <2>1. UNCHANGED <<set, n, said, at, spans, i, texts, full>>
    BY <1>9 DEF vars
  <2>2. Reached' = Reached
    BY <2>1 DEF Reached, EndOf, Minimum
  <2>3. TextTypes' /\ NotYet' /\ JoinedAtLast'
    BY <1>1, <2>1 DEF TextTypes, NotYet, JoinedAtLast
  <2>4. JoinedUpToNow'
    BY <1>1, <2>1, <2>2, WindowsStay DEF JoinedUpToNow
  <2> QED BY <2>3, <2>4 DEF JoinInv
<1> QED BY <1>3, <1>4, <1>5, <1>6, <1>7, <1>8, <1>9 DEF Next

\* At last the windows reach the end of the audio.
LEMMA JoinImpliesSaidOnce == IInv /\ JoinInv => SaidOnce
<1> SUFFICES ASSUME IInv, JoinInv, at = "done", OverlapsFit, AllDifferent
             PROVE  full = Heard(0, n)
  BY DEF SaidOnce
<1>1. Fitting
  BY HeardIsWordsOf DEF OverlapsFit, Fitting
<1>2. /\ i = Len(spans) /\ full = StitchOf(said, texts)
      /\ StitchOf(said, texts) = WordsOf(said, 0, Reached)
  BY <1>1 DEF JoinInv, JoinedAtLast, JoinedUpToNow
<1>3. spans # <<>> /\ spans \in Seq(Nat) /\ EndOf(spans[Len(spans)]) = n
  BY InvImpliesCover DEF SpansCover, IInv, SpanTypes
<1>4. Reached = n
  BY <1>2, <1>3 DEF Reached
<1> QED BY <1>2, <1>4, HeardIsWordsOf

\* Whatever is said and whatever the settings, the joined text has every word
\* once and in order, if no two windows share more words than a join looks at
\* and all words are different (_merge_overlap_text, stitch_transcripts).
THEOREM WordsAreSaidOnce == Spec => []SaidOnce
<1>1. Spec => []IInv
  BY InitHolds, StepHolds, PTL DEF Spec
<1>2. Spec => []JoinInv
  BY <1>1, JoinInit, JoinStep, PTL DEF Spec
<1> QED BY <1>1, <1>2, JoinImpliesSaidOnce, PTL

-----------------------------------------------------------------------------
(* What the joined text lacks.                                             *)

\* The text joined up to now keeps the order of the audio, and what it lacks
\* are echoes.
Echoing(text) ==
    /\ text \in Seq(Loud(said, 0, Reached))
    /\ Ahead(text)
    /\ Echoes(said, From, Reached, text)

EchoInv == at \in {"decode", "done"} => Echoing(StitchOf(said, texts))

\* Nothing is lost before anything is heard.
LEMMA EchoFirst ==
  ASSUME NEW w
  PROVE  /\ StitchOf(w, <<>>) \in Seq(Loud(w, 0, 0))
         /\ Ahead(StitchOf(w, <<>>))
         /\ Echoes(w, 0, 0, StitchOf(w, <<>>))
<1>1. StitchOf(w, <<>>) = <<>>
  BY StitchNothing
<1>2. Loud(w, 0, 0) = {}
  BY DEF Loud
<1>3. <<>> \in Seq(Loud(w, 0, 0))
  OBVIOUS
<1>4. Ahead(<<>>)
  BY DEF Ahead
<1>5. Echoes(w, 0, 0, <<>>)
  BY Zenon, <1>2 DEF Echoes
<1> QED BY Zenon, <1>1, <1>3, <1>4, <1>5

\* What the next window's join drops is an echo.
LEMMA DecodeSpanEchoes ==
  IInv /\ TextTypes /\ EchoInv /\ DecodeSpan => EchoInv'
<1> SUFFICES ASSUME IInv, TextTypes, EchoInv, DecodeSpan PROVE EchoInv'
  OBVIOUS
<1> DEFINE a == spans[i + 1]
           c == EndOf(spans[i + 1])
           heard == WordsOf(said, a, c)
           left == StitchOf(said, texts)
           text == StitchOf(said, texts')
<1>1. /\ at = "decode" /\ at' = "decode" /\ i < Len(spans) /\ i' = i + 1
      /\ UNCHANGED <<set, n, said, spans>>
      /\ i \in Nat /\ texts \in Seq(Seq(Nat))
  BY DEF DecodeSpan, TextTypes
<1>2. texts' = IF heard = <<>> THEN texts ELSE Append(texts, heard)
  BY HeardIsWordsOf DEF DecodeSpan
<1>3. /\ From \in Nat /\ a \in Nat /\ Reached \in Nat /\ c \in Nat
      /\ From <= a /\ a <= Reached /\ Reached <= c
  BY <1>1, NextWindow
<1>4. /\ left \in Seq(Loud(said, 0, Reached)) /\ Ahead(left)
      /\ Echoes(said, From, Reached, left)
  BY <1>1 DEF EchoInv, Echoing
<1>5. heard \in Seq(Nat)
  <2>1. a <= c
    BY <1>3
  <2>2. heard \in Seq(Loud(said, a, c))
    <3> HIDE DEF a, c
    <3> QED BY <2>1, <1>3, WordsType
  <2>3. Loud(said, a, c) \subseteq Nat
    <3> HIDE DEF a, c
    <3> QED BY <1>3 DEF Loud
  <2> HIDE DEF heard
  <2> QED BY <2>2, <2>3
<1>6. text = MergeOf(said, left, heard)
  <2>1. CASE heard = <<>>
    <3>1. left \in Seq(Nat)
      <4>1. Loud(said, 0, Reached) \subseteq Nat
        BY <1>3 DEF Loud
      <4> HIDE DEF left
      <4> QED BY <1>4, <4>1
    <3>2. MergeOf(said, left, <<>>) = left
      <4> HIDE DEF left
      <4> QED BY <3>1, MergeNothing
    <3> QED BY <2>1, <3>2, <1>2
  <2>2. CASE heard # <<>>
    <3> HIDE DEF heard
    <3> QED BY <2>2, <1>1, <1>2, <1>5, StitchOneMore
  <2> QED BY <2>1, <2>2
<1>7. /\ text \in Seq(Loud(said, 0, c)) /\ Ahead(text)
      /\ Echoes(said, a, c, text)
  <2> HIDE DEF a, c, left, text
  <2> QED BY <1>3, <1>4, <1>6, MergeEchoes DEF heard
<1>8. From' = a /\ Reached' = c
  BY <1>1 DEF From, Reached, EndOf, Minimum
<1>9. StitchOf(said', texts') = text
  BY <1>1
<1> QED BY <1>1, <1>7, <1>8, <1>9 DEF EchoInv, Echoing

\* No other step changes the texts of the windows decoded.
LEMMA EchoStep == IInv /\ JoinInv /\ EchoInv /\ [Next]_vars => EchoInv'
<1> SUFFICES ASSUME IInv, JoinInv, EchoInv, [Next]_vars PROVE EchoInv'
  OBVIOUS
<1>1. CASE FitsOneWindow
  BY <1>1 DEF FitsOneWindow, EchoInv
<1>2. CASE AddSpan
  <2>1. at' \in {"slide", "tail"}
    BY <1>2 DEF AddSpan
  <2> QED BY <2>1 DEF EchoInv
<1>3. CASE MergeShortTail
  <2>1. texts' = <<>> /\ From' = 0 /\ Reached' = 0
    BY <1>3 DEF MergeShortTail, JoinInv, NotYet, From, Reached
  <2>2. Echoing(StitchOf(said, texts))'
    BY <2>1, EchoFirst DEF Echoing
  <2> QED BY <2>2 DEF EchoInv
<1>4. CASE DecodeSpan
  BY <1>4, DecodeSpanEchoes DEF JoinInv
<1>5. CASE DecodeRaises
  BY <1>5 DEF DecodeRaises, EchoInv
<1>6. ASSUME UNCHANGED <<set, n, said, spans, i, texts>>,
             at' \in {"decode", "done"} => at \in {"decode", "done"}
      PROVE  EchoInv'
  <2>1. From' = From /\ Reached' = Reached
    BY <1>6 DEF From, Reached, EndOf, Minimum
  <2> QED BY <1>6, <2>1 DEF EchoInv, Echoing
<1>7. CASE Stitch
  BY <1>6, <1>7 DEF Stitch
<1>8. CASE UNCHANGED vars
  BY <1>6, <1>8 DEF vars
<1> QED BY <1>1, <1>2, <1>3, <1>4, <1>5, <1>7, <1>8 DEF Next

\* At last all of the audio has been heard.
LEMMA EchoImpliesDropped == IInv /\ JoinInv /\ EchoInv => OnlyEchoesDropped
<1> SUFFICES ASSUME IInv, JoinInv, EchoInv, at = "done",
                    NEW u \in Words \ Range(full)
             PROVE  \E v \in Words \cap Range(full) :
                        /\ v < u
                        /\ said[v] = said[u]
                        /\ Cardinality({w \in Range(full) : v < w /\ w < u})
                               < MaxMerge
  BY DEF OnlyEchoesDropped
<1>1. i = Len(spans) /\ full = StitchOf(said, texts) /\ n \in Nat
  BY DEF JoinInv, JoinedAtLast, IInv, SpanTypes
<1>2. spans # <<>> /\ spans \in Seq(Nat) /\ EndOf(spans[Len(spans)]) = n
  BY InvImpliesCover DEF SpansCover, IInv, SpanTypes
<1>3. Reached = n
  BY <1>1, <1>2 DEF Reached
<1>4. full \in Seq(Loud(said, 0, n)) /\ Echoes(said, From, n, full)
  BY <1>1, <1>3 DEF EchoInv, Echoing
<1>5. Words = Loud(said, 0, n) /\ Words \subseteq Nat
  BY <1>1 DEF Words, Loud
<1>6. PICK v \in Range(full) :
          /\ v < u
          /\ said[v] = said[u]
          /\ Cardinality({x \in Range(full) \cup Loud(said, From, n) :
                              v < x /\ x < u}) < MaxMerge
  BY <1>4, <1>5 DEF Echoes
<1>7. Range(full) \subseteq Words
  BY <1>4, <1>5 DEF Range
<1> DEFINE S == {w \in Range(full) : v < w /\ w < u}
           T == {x \in Range(full) \cup Loud(said, From, n) : v < x /\ x < u}
<1>8. From \in Nat
  BY <1>1, <1>2 DEF From
<1>9. S \subseteq T /\ T \subseteq Nat /\ \A x \in T : x <= u
  <2>1. Loud(said, From, n) \subseteq Nat
    BY <1>8 DEF Loud
  <2>2. u \in Nat
    BY <1>5
  <2> QED BY <2>1, <2>2, <1>5, <1>7
<1>10. Cardinality(T) < MaxMerge
  BY <1>6
<1> HIDE DEF S, T
<1>11. IsFiniteSet(T) /\ IsFiniteSet(S) /\ Cardinality(S) <= Cardinality(T)
  BY <1>5, <1>9, FS_BoundedSetOfNaturals, FS_Subset
<1>12. Cardinality(S) < MaxMerge
  BY <1>10, <1>11, FS_CardinalityType
<1> QED BY <1>6, <1>7, <1>12 DEF S

\* Whatever is said and whatever the settings, a word that the joined text
\* lacks is an echo of one it has, so few words before that a join looks at
\* them all (_merge_overlap_text).
THEOREM LostWordsAreEchoes == Spec => []OnlyEchoesDropped
<1>1. Spec => []IInv
  BY InitHolds, StepHolds, PTL DEF Spec
<1>2. Spec => []JoinInv
  BY <1>1, JoinInit, JoinStep, PTL DEF Spec
<1>3. Init => EchoInv
  BY DEF Init, EchoInv
<1>4. Spec => []EchoInv
  BY <1>1, <1>2, <1>3, EchoStep, PTL DEF Spec
<1> QED BY <1>1, <1>2, <1>4, EchoImpliesDropped, PTL
=============================================================================
