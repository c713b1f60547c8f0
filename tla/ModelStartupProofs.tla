------------------------- MODULE ModelStartupProofs -------------------------
(***************************************************************************)
(* For every board, environment and amount of memory, and whatever fails   *)
(* or is killed: the number of workers can be loaded and does not change   *)
(* between its resolutions, what a probe loaded finds room, what is loaded *)
(* was checked for, a server that serves is complete, and the VAD's file   *)
(* is what it is taken for.                                                *)
(*                                                                         *)
(* The invariant says for each place of the startup what is loaded there,  *)
(* and what room is left, for which the contexts of killed probes are      *)
(* added up.  That the startup ends stays with TLC.                        *)
(***************************************************************************)
EXTENDS ModelStartup, FiniteSetTheorems, WellFoundedInduction, TLAPS

USE StartupAssumption DEF StartupAssumption

-----------------------------------------------------------------------------
(* A set of natural numbers has a least element.  What is shown along the  *)
(* numbers is shown by taking the least one for which it is wrong.         *)

\* Every set of natural numbers but the empty one has a least element.
LEMMA LeastElement ==
  ASSUME NEW T, T \subseteq Nat, T # {}
  PROVE  \E x \in T : \A y \in T : x <= y
<1>1. PICK x \in T : \A y \in T : <<y, x>> \notin OpToRel(<, Nat)
  BY NatLessThanWellFounded, WFMin
<1>2. ASSUME NEW y \in T PROVE ~(y < x)
  BY <1>1 DEF OpToRel
<1> QED BY <1>2

-----------------------------------------------------------------------------
(* The sum of a function's values.  FoldFunction is defined by recursion   *)
(* over the subsets of its domain; that such a function exists and what it *)
(* computes are shown along their cardinality.                             *)

Pick(s) == CHOOSE x \in s : TRUE

\* F sums f on the sets of D.
Sums(f, D, F) ==
    F = [s \in D |-> IF s = {} THEN 0 ELSE f[Pick(s)] + F[s \ {Pick(s)}]]

\* The subsets of S with at most m elements.
UpTo(S, m) == {s \in SUBSET S : Cardinality(s) <= m}

\* Taking an element away.
LEMMA WithoutPick ==
  ASSUME NEW S, IsFiniteSet(S), NEW m \in Nat, NEW s \in UpTo(S, m), s # {}
  PROVE  /\ Pick(s) \in s /\ m # 0
         /\ s \ {Pick(s)} \in UpTo(S, m - 1)
         /\ Cardinality(s \ {Pick(s)}) = Cardinality(s) - 1
<1>1. s \subseteq S /\ Cardinality(s) <= m
  BY DEF UpTo
<1>2. Pick(s) \in s
  BY DEF Pick
<1>3. IsFiniteSet(s)
  BY <1>1, FS_Subset
<1>4. /\ Cardinality(s) \in Nat
      /\ Cardinality(s \ {Pick(s)}) = Cardinality(s) - 1
      /\ Cardinality(s \ {Pick(s)}) \in Nat
  BY <1>2, <1>3, FS_CardinalityType, FS_RemoveElement
<1>5. m # 0 /\ Cardinality(s \ {Pick(s)}) <= m - 1
  BY <1>1, <1>4
<1> QED BY <1>1, <1>2, <1>4, <1>5 DEF UpTo

\* The sums of the smaller subsets give those of the larger.
LEMMA SumsExist ==
  ASSUME NEW S, IsFiniteSet(S), NEW f, NEW m \in Nat
  PROVE  \E F : Sums(f, UpTo(S, m), F)
<1> DEFINE Bad == {k \in Nat : ~ \E F : Sums(f, UpTo(S, k), F)}
<1>1. SUFFICES ASSUME Bad # {} PROVE FALSE
  OBVIOUS
<1>2. PICK k \in Bad : \A j \in Bad : k <= j
  <2>1. Bad \subseteq Nat
    OBVIOUS
  <2> HIDE DEF Bad
  <2> QED BY <1>1, <2>1, LeastElement
<1>3. k \in Nat /\ ~ \E F : Sums(f, UpTo(S, k), F)
  OBVIOUS
<1>4. PICK G : k # 0 => Sums(f, UpTo(S, k - 1), G)
  <2>1. k # 0 => k - 1 \in Nat /\ ~(k <= k - 1)
    BY <1>3
  <2> QED BY <1>2, <2>1
<1> DEFINE D == UpTo(S, k)
           F == [s \in D |-> IF s = {} THEN 0
                             ELSE f[Pick(s)] + G[s \ {Pick(s)}]]
<1>5. ASSUME NEW s \in D, s # {}
      PROVE  F[s \ {Pick(s)}] = G[s \ {Pick(s)}]
  <2> DEFINE t == s \ {Pick(s)}
  <2>1. k # 0 /\ t \in UpTo(S, k - 1)
    BY <1>3, <1>5, WithoutPick
  <2>2. t \in D
    <3>1. Cardinality(t) \in Nat
      BY <2>1, FS_Subset, FS_CardinalityType DEF UpTo
    <3> QED BY <1>3, <2>1, <3>1 DEF UpTo
  <2>3. G[t] = IF t = {} THEN 0 ELSE f[Pick(t)] + G[t \ {Pick(t)}]
    BY <1>4, <2>1 DEF Sums
  <2> QED BY <2>2, <2>3
<1>6. Sums(f, D, F)
  <2>1. F = [s \in D |-> IF s = {} THEN 0
                         ELSE f[Pick(s)] + F[s \ {Pick(s)}]]
    BY <1>5
  <2> QED BY <2>1 DEF Sums
<1> QED BY <1>3, <1>6

\* FoldFunction returns the last of them.
LEMMA FoldSums ==
  ASSUME NEW S, IsFiniteSet(S), NEW f, DOMAIN f = S
  PROVE  \E F : Sums(f, SUBSET S, F) /\ FoldFunction(+, 0, f) = F[S]
<1>1. \E F : Sums(f, SUBSET S, F)
  <2>1. Cardinality(S) \in Nat
    BY FS_CardinalityType
  <2>2. UpTo(S, Cardinality(S)) = SUBSET S
    BY FS_Subset DEF UpTo
  <2>3. \E F : Sums(f, UpTo(S, Cardinality(S)), F)
    BY <2>1, SumsExist
  <2> QED BY <2>2, <2>3
<1> DEFINE G == CHOOSE F : Sums(f, SUBSET S, F)
<1>2. Sums(f, SUBSET S, G)
  BY <1>1
<1>3. FoldFunction(+, 0, f) = G[S]
  BY DEF FoldFunction, FoldFunctionOnSet, MapThenFoldSet, Sums, Pick
<1> QED BY <1>2, <1>3

\* A smaller function has no larger sum, and that of numbers is one.
LEMMA SumsOrdered ==
  ASSUME NEW S, IsFiniteSet(S), NEW f \in [S -> Nat], NEW g \in [S -> Nat],
         \A x \in S : f[x] <= g[x]
  PROVE  /\ FoldFunction(+, 0, f) \in Nat /\ FoldFunction(+, 0, g) \in Nat
         /\ FoldFunction(+, 0, f) <= FoldFunction(+, 0, g)
<1>1. PICK F : Sums(f, SUBSET S, F) /\ FoldFunction(+, 0, f) = F[S]
  BY FoldSums
<1>2. PICK G : Sums(g, SUBSET S, G) /\ FoldFunction(+, 0, g) = G[S]
  BY FoldSums
<1> DEFINE Good(s) == F[s] \in Nat /\ G[s] \in Nat /\ F[s] <= G[s]
           Bad == {k \in Nat :
                       \E s \in SUBSET S : Cardinality(s) = k /\ ~Good(s)}
<1>3. Bad = {}
  <2>1. SUFFICES ASSUME Bad # {} PROVE FALSE
    OBVIOUS
  <2>2. PICK k \in Bad : \A j \in Bad : k <= j
    <3>1. Bad \subseteq Nat
      OBVIOUS
    <3> HIDE DEF Bad
    <3> QED BY <2>1, <3>1, LeastElement
  <2>3. PICK s \in SUBSET S : Cardinality(s) = k /\ ~Good(s)
    OBVIOUS
  <2>4. /\ F[s] = IF s = {} THEN 0 ELSE f[Pick(s)] + F[s \ {Pick(s)}]
        /\ G[s] = IF s = {} THEN 0 ELSE g[Pick(s)] + G[s \ {Pick(s)}]
    BY <1>1, <1>2 DEF Sums
  <2>5. CASE s = {}
    BY <2>3, <2>4, <2>5
  <2>6. CASE s # {}
    <3> DEFINE t == s \ {Pick(s)}
    <3>1. k \in Nat /\ s \in UpTo(S, k)
      BY <2>3 DEF UpTo
    <3>2. Pick(s) \in S /\ t \in SUBSET S /\ Cardinality(t) = k - 1 /\ k # 0
      BY <2>3, <2>6, <3>1, WithoutPick DEF UpTo
    <3>3. Good(t)
      <4>1. k - 1 \in Nat /\ ~(k <= k - 1)
        BY <3>1, <3>2
      <4> QED BY <2>2, <3>2, <4>1
    <3>4. f[Pick(s)] \in Nat /\ g[Pick(s)] \in Nat /\ f[Pick(s)] <= g[Pick(s)]
      BY <3>2
    <3> QED BY <2>3, <2>4, <2>6, <3>3, <3>4
  <2> QED BY <2>5, <2>6
<1>4. Cardinality(S) \in Nat
  BY FS_CardinalityType
<1>5. Good(S)
  BY <1>3, <1>4
<1> QED BY <1>1, <1>2, <1>5

-----------------------------------------------------------------------------
(* The largest number that fits.                                           *)

\* A set of numbers up to m has a greatest one.
LEMMA GreatestElement ==
  ASSUME NEW m \in Nat, NEW G, G \subseteq 0..m, G # {}
  PROVE  \E x \in G : \A y \in G : y <= x
<1> DEFINE T == {m - k : k \in G}
<1>1. T \subseteq Nat /\ T # {}
  <2>1. ASSUME NEW k \in G PROVE m - k \in Nat
    OBVIOUS
  <2>2. T # {}
    OBVIOUS
  <2> QED BY <2>1, <2>2
<1>2. PICK t \in T : \A y \in T : t <= y
  BY <1>1, LeastElement
<1>3. PICK x \in G : t = m - x
  BY <1>2
<1>4. ASSUME NEW y \in G PROVE y <= x
  <2>1. m - x <= m - y
    BY <1>2, <1>3
  <2> QED BY <2>1
<1> QED BY <1>4

\* The limit on workers is a positive number within the cores.
LEMMA WorkerLimits ==
  ASSUME set \in Settings
  PROVE  /\ MaxWorkers \in Nat /\ MaxWorkers >= 1
         /\ MaxWorkers = Least(set.max, Cores)
         /\ MaxWorkers <= Cores
         /\ set.requested \in Int
BY DEF MaxWorkers, Most, Least

\* pick_encoder_worker_count returns a number RAM suffices for, or none.
LEMMA PickFacts ==
  ASSUME set \in Settings
  PROVE  /\ PickEncoderWorkerCount \in 0..MaxWorkers
         /\ PickEncoderWorkerCount > 0 =>
                HasEnoughRam(Need(PickEncoderWorkerCount))
<1> DEFINE M == MaxWorkers
           Good == {k \in 0..M : k > 0 => HasEnoughRam(Need(k))}
           Largest(k) == /\ k > 0 => HasEnoughRam(Need(k))
                         /\ \A i \in (k + 1)..M : ~HasEnoughRam(Need(i))
<1>1. M \in Nat
  BY WorkerLimits
<1>2. CASE avail = Unknown
  BY <1>1, <1>2 DEF PickEncoderWorkerCount, HasEnoughRam
<1>3. CASE avail # Unknown
  <2> HIDE DEF M
  <2>1. 0 \in Good /\ Good \subseteq 0..M
    BY <1>1
  <2>2. PICK k \in Good : \A y \in Good : y <= k
    BY <1>1, <2>1, GreatestElement
  <2>3. k \in 0..M /\ Largest(k)
    <3>1. ASSUME NEW i \in (k + 1)..M PROVE ~HasEnoughRam(Need(i))
      <4>1. i \in 0..M /\ i > k /\ i > 0
        BY <1>1, <2>1
      <4>2. i \notin Good
        BY <2>1, <2>2, <4>1
      <4> QED BY <4>1, <4>2
    <3> QED BY <3>1
  <2>4. PickEncoderWorkerCount = CHOOSE j \in 0..M : Largest(j)
    BY <1>3 DEF PickEncoderWorkerCount, M
  <2> HIDE DEF Largest
  <2>5. PickEncoderWorkerCount \in 0..M /\ Largest(PickEncoderWorkerCount)
    BY <2>3, <2>4
  <2> QED BY <2>5 DEF Largest, M
<1> QED BY <1>2, <1>3

\* A request for a number of workers that is allowed is granted.
LEMMA ResolveAgain ==
  ASSUME set \in Settings, NEW k \in 1..MaxWorkers
  PROVE  Resolve(k) = k
<1>1. MaxWorkers \in Nat
  BY WorkerLimits
<1>2. Requested(k) = k /\ k # 0
  BY <1>1 DEF Requested, Least
<1> QED BY <1>2 DEF Resolve

\* What the first resolution returns.
LEMMA ResolveFacts ==
  ASSUME set \in Settings, Resolve(set.requested) >= 1
  PROVE  /\ Resolve(set.requested) \in 1..MaxWorkers
         /\ \/ Requested(set.requested) > 0
            \/ HasEnoughRam(Need(Resolve(set.requested)))
<1> DEFINE r == Requested(set.requested)
<1>1. r \in 0..MaxWorkers
  BY WorkerLimits DEF Requested, Least
<1>2. CASE r = 0
  <2>1. Resolve(set.requested) = PickEncoderWorkerCount
    BY <1>2 DEF Resolve
  <2> QED BY <2>1, PickFacts, WorkerLimits
<1>3. CASE r # 0
  <2>1. Resolve(set.requested) = r
    BY <1>3 DEF Resolve
  <2> QED BY <1>1, <1>3, <2>1, WorkerLimits
<1> QED BY <1>2, <1>3

-----------------------------------------------------------------------------
(* The VAD's file.                                                         *)

FileInv ==
    /\ file \in {"none", "stub", "cut", "whole"}
    /\ file = "cut" => broken \/ at = "downloading"
    /\ at = "downloading" => file \in {"stub", "cut"}
    /\ at = "session" => file = "whole" \/ (file = "cut" /\ broken)

\* No broken file before the first start.
LEMMA FileInit == Init => FileInv
BY DEF Init, FileInv

\* Downloads, kills and restarts keep what the VAD's file may be.
LEMMA FileStep == FileInv /\ [Next]_vars => FileInv'
<1> SUFFICES ASSUME FileInv, [Next]_vars PROVE FileInv'
  OBVIOUS
<1>1. CASE EnsureVadModel
  <2>1. CASE FileTaken
    <3>1. /\ file' = file /\ at = "vad" /\ at' = "session"
          /\ file \in {"cut", "whole"} /\ broken' = broken
      BY <1>1, <2>1 DEF EnsureVadModel, FileTaken, Goto
    <3> QED BY <3>1 DEF FileInv
  <2>2. CASE ~FileTaken
    <3>1. /\ at' \in {"downloading", "failed"}
          /\ at' = "downloading" => file' = "stub"
          /\ at' = "failed" => file' = file
          /\ file \notin {"cut", "whole"}
      BY <1>1, <2>2 DEF EnsureVadModel, FileTaken, Goto, Fail
    <3> QED BY <3>1 DEF FileInv
  <2> QED BY <2>1, <2>2
<1>2. CASE Download
  <2>1. CASE file' = "cut" /\ at' = at
    BY <1>2, <2>1 DEF Download, FileInv
  <2>2. CASE file' = "whole" /\ at' = "session"
    BY <2>2 DEF FileInv
  <2>3. CASE /\ at' = "failed" /\ file' = file
             /\ broken' = (broken \/ file = "cut")
    BY <2>3 DEF FileInv
  <2> QED BY <1>2, <2>1, <2>2, <2>3 DEF Download, Goto, Fail
<1>3. CASE Killed
  <2>1. /\ at' = "exited" /\ file' = file
        /\ broken' = (broken \/ (at = "downloading" /\ file = "cut"))
    BY <1>3 DEF Killed, Goto
  <2> QED BY <2>1 DEF FileInv
<1>4. ASSUME UNCHANGED disk, at' \notin {"downloading", "session"},
             at # "downloading"
      PROVE  FileInv'
  BY <1>4 DEF disk, FileInv
<1>5. CASE MemoryChanges
  BY <1>4, <1>5 DEF MemoryChanges
<1>6. CASE CheckFiles
  BY <1>4, <1>6 DEF CheckFiles, Goto, Fail
<1>7. CASE PickWorkers
  BY <1>4, <1>7 DEF PickWorkers, Goto, Fail
<1>8. CASE CheckRam
  BY <1>4, <1>8 DEF CheckRam, Goto, Fail
<1>9. CASE BuildPool \/ BuildSerial
  BY <1>4, <1>9 DEF BuildPool, BuildSerial, Goto, Fail
<1>10. CASE StartProbe \/ ProbePasses
  BY <1>4, <1>10 DEF StartProbe, ProbePasses, Goto
<1>11. CASE ProbeFails \/ ProbeIsKilled
  BY <1>4, <1>11 DEF ProbeFails, ProbeIsKilled, NextProbe, Goto, Fail
<1>12. CASE LoadSession \/ StartThreads
  BY <1>4, <1>12
     DEF LoadSession, SessionLoads, SessionFails, StartThreads, Goto, Fail
<1>13. CASE LoadDecoder
  BY <1>4, <1>13 DEF LoadDecoder, Goto, Fail
<1>14. CASE PreloadVad
  BY <1>4, <1>14 DEF PreloadVad, Goto, Fail
<1>15. CASE StopServing \/ ReleaseModel \/ ReleaseVad
  BY <1>4, <1>15 DEF StopServing, ReleaseModel, ReleaseVad, Goto
<1>16. CASE ProcessExits \/ Restart
  BY <1>4, <1>16 DEF ProcessExits, Restart, Goto
<1>17. ASSUME NEW t \in Sizes, KilledProbeDies(t)
       PROVE  FileInv'
  BY <1>17 DEF KilledProbeDies, disk, FileInv
<1>18. CASE UNCHANGED vars
  BY <1>18 DEF vars, disk, FileInv
<1> QED
  BY <1>1, <1>2, <1>3, <1>5, <1>6, <1>7, <1>8, <1>9, <1>10, <1>11, <1>12,
     <1>13, <1>14, <1>15, <1>16, <1>17, <1>18 DEF Next, Step, OwnStep, NativeCall, NetworkCall

\* Whatever kill or broken download left it, part of a model is only taken for
\* the model when more than 100 kB of it had come (speech_cut.py 64-70).
THEOREM FileIsTheModel == Spec => []TakenFileIsWhole
<1>1. FileInv => TakenFileIsWhole
  BY DEF FileInv, TakenFileIsWhole
<1> QED BY <1>1, FileInit, FileStep, PTL DEF Spec

-----------------------------------------------------------------------------
(* What is loaded at each place of startup and release.                    *)

Before == {"files", "pick", "check", "build", "probe", "probing", "hanging"}

HeldInv ==
    /\ at \in Before => sessions = 0
    /\ at \in Before \cup {"loading", "threads", "decoder"} => ~decoder /\ ~vad
    /\ at \in {"vad", "downloading", "session", "serving"} => decoder
    /\ at = "serving" /\ set.parallel => vad
    /\ at \in {"forget", "stopped", "exited"} => sessions = 0 /\ ~decoder
    /\ at \in {"stopped", "exited"} => ~vad

\* Nothing is held before the startup.
LEMMA HeldInit == Init => HeldInv
<1> SUFFICES ASSUME Init PROVE HeldInv
  OBVIOUS
<1>1. at = "files" /\ sessions = 0
  BY DEF Init
<1>2. ~decoder /\ ~vad
  BY Zenon DEF Init
<1> QED BY <1>1, <1>2 DEF HeldInv

\* Every step keeps what is held at each place of the startup.
LEMMA HeldStep == HeldInv /\ [Next]_vars => HeldInv'
<1> SUFFICES ASSUME HeldInv, [Next]_vars PROVE HeldInv'
  OBVIOUS
<1> USE DEF Before
<1>1. ASSUME UNCHANGED loaded, at \in Before,
             at' \in Before \cup {"failed", "loading"}
      PROVE  HeldInv'
  BY <1>1 DEF loaded, HeldInv
<1>2. CASE MemoryChanges
  BY <1>1, <1>2 DEF MemoryChanges
<1>3. CASE CheckFiles
  BY <1>1, <1>3 DEF CheckFiles, Goto, Fail
<1>4. CASE PickWorkers
  BY <1>1, <1>4 DEF PickWorkers, Goto, Fail
<1>5. CASE CheckRam
  BY <1>1, <1>5 DEF CheckRam, Goto, Fail
<1>6. CASE BuildPool
  BY <1>1, <1>6 DEF BuildPool, Goto
<1>7. CASE StartProbe \/ ProbePasses
  BY <1>1, <1>7 DEF StartProbe, ProbePasses, Goto
<1>8. CASE ProbeFails \/ ProbeIsKilled
  BY <1>1, <1>8 DEF ProbeFails, ProbeIsKilled, NextProbe, Goto, Fail
<1>9. CASE BuildSerial
  BY <1>9 DEF BuildSerial, Goto, Fail, HeldInv
<1>10. CASE LoadSession
  <2>1. /\ at = "loading" /\ decoder' = decoder /\ vad' = vad
        /\ at' \in {"loading", "threads", "failed"}
    BY <1>10 DEF LoadSession, SessionLoads, SessionFails, Goto, Fail
  <2> QED BY <2>1 DEF HeldInv
<1>10a. CASE StartThreads
  <2>1. UNCHANGED loaded /\ at = "threads" /\ at' \in {"decoder", "failed"}
    BY <1>10a DEF StartThreads, Goto, Fail
  <2> QED BY <2>1 DEF loaded, HeldInv
<1>11. CASE LoadDecoder
  <2>1. /\ at = "decoder" /\ sessions' = sessions /\ vad' = vad /\ set' = set
        /\ \/ decoder' /\ at' = IF set.parallel THEN "vad" ELSE "serving"
           \/ at' = "failed"
    BY <1>11 DEF LoadDecoder, Goto, Fail
  <2> QED BY <2>1 DEF HeldInv
<1>12. ASSUME at \in {"vad", "downloading", "session"}, UNCHANGED loaded,
              at' \in {"downloading", "session", "failed"}
       PROVE  HeldInv'
  BY <1>12 DEF loaded, HeldInv
<1>13. CASE EnsureVadModel
  BY <1>12, <1>13 DEF EnsureVadModel, Goto, Fail
<1>14. CASE Download
  BY <1>12, <1>14 DEF Download, Goto, Fail
<1>15. CASE PreloadVad
  <2>1. /\ at = "session" /\ decoder' = decoder /\ sessions' = sessions
        /\ \/ at' = "serving" /\ vad'
           \/ at' = "failed"
    BY <1>15 DEF PreloadVad, Goto, Fail
  <2> QED BY <2>1 DEF HeldInv
<1>16. CASE StopServing
  BY <1>16 DEF StopServing, Goto, HeldInv
<1>17. CASE ReleaseModel
  <2>1. sessions' = 0 /\ ~decoder' /\ at' = "forget"
    BY <1>17 DEF ReleaseModel, Goto
  <2> QED BY <2>1 DEF HeldInv
<1>18. CASE ReleaseVad
  <2>1. /\ ~vad' /\ at = "forget" /\ at' = "stopped"
        /\ sessions' = sessions /\ decoder' = decoder
    BY <1>18 DEF ReleaseVad, Goto
  <2> QED BY <2>1 DEF HeldInv
<1>19. CASE ProcessExits \/ Killed
  <2>1. sessions' = 0 /\ ~decoder' /\ ~vad' /\ at' = "exited"
    BY <1>19 DEF ProcessExits, Killed, Goto
  <2> QED BY <2>1 DEF HeldInv
<1>20. CASE Restart
  <2>1. UNCHANGED loaded /\ at = "exited" /\ at' = "files"
    BY <1>20 DEF Restart
  <2> QED BY <2>1 DEF loaded, HeldInv
<1>21. ASSUME UNCHANGED <<at, loaded, set>> PROVE HeldInv'
  BY <1>21 DEF loaded, HeldInv
<1>22. ASSUME NEW t \in Sizes, KilledProbeDies(t) PROVE HeldInv'
  BY <1>21, <1>22 DEF KilledProbeDies
<1>23. CASE UNCHANGED vars
  BY <1>21, <1>23 DEF vars
<1> QED
  BY <1>2, <1>3, <1>4, <1>5, <1>6, <1>7, <1>8, <1>9, <1>10, <1>10a, <1>11,
     <1>13, <1>14, <1>15, <1>16, <1>17, <1>18, <1>19, <1>20, <1>22, <1>23
     DEF Next, Step, OwnStep, NativeCall, NetworkCall

-----------------------------------------------------------------------------
(* The number of workers.                                                  *)

Probing == {"probe", "probing", "hanging", "loading"}

CountInv ==
    /\ set \in Settings /\ n \in Int /\ try \in Int /\ sessions \in Int
    /\ at \in {"files", "pick", "check", "build"} => try = 0
    /\ at \in {"check", "build"} => n \in 1..MaxWorkers
    /\ at \in Probing => set.parallel /\ n \in 1..MaxWorkers /\ try \in 1..n
    /\ at \in Before \cup {"exited"} => sessions = 0
    /\ at = "loading" => sessions \in 0..(try - 1)
    /\ at \in {"vad", "downloading", "session"} => set.parallel
    /\ at \in {"threads", "decoder", "vad", "downloading", "session", "serving"} =>
           /\ set.parallel => sessions = try /\ try \in 1..MaxWorkers
           /\ ~set.parallel => sessions = 1

\* The limit and the request are read from the environment alone.
LEMMA LimitSame ==
  ASSUME set' = set
  PROVE  /\ MaxWorkers' = MaxWorkers
         /\ Requested(set.requested)' = Requested(set.requested)
BY DEF MaxWorkers, Requested

\* The number of workers is not resolved before the startup.
LEMMA CountInit == Init => CountInv
<1> SUFFICES ASSUME Init PROVE CountInv
  OBVIOUS
<1>1. at = "files" /\ n = 1 /\ try = 0 /\ sessions = 0 /\ set \in Settings
  BY DEF Init
<1> QED BY <1>1 DEF CountInv, Probing

\* Every step keeps the bounds of the number of workers.
LEMMA CountStep == CountInv /\ [Next]_vars => CountInv'
<1> SUFFICES ASSUME CountInv, [Next]_vars PROVE CountInv'
  OBVIOUS
<1> USE DEF Before, Probing
<1>0. set' = set
  BY DEF Next, Step, OwnStep, NativeCall, NetworkCall, vars, MemoryChanges,
         CheckFiles, PickWorkers, CheckRam, BuildPool, BuildSerial, StartProbe,
         ProbePasses, ProbeFails, ProbeIsKilled, LoadSession, StartThreads,
         LoadDecoder, EnsureVadModel, Download, PreloadVad, StopServing,
         ReleaseModel, ReleaseVad, ProcessExits, Killed, Restart,
         KilledProbeDies
<1>a. /\ MaxWorkers' = MaxWorkers /\ MaxWorkers \in Nat /\ MaxWorkers >= 1
      /\ set \in Settings /\ MaxWorkers <= Cores
  BY <1>0, LimitSame, WorkerLimits DEF CountInv
<1>1. ASSUME UNCHANGED <<n, try, sessions>>,
             \/ at' = at
             \/ at' \in {"failed", "closing", "forget", "stopped"}
             \/ at = "files" /\ at' = "pick"
             \/ at = "check" /\ at' = "build"
             \/ /\ at \in {"probe", "probing"}
                /\ at' \in {"probing", "hanging", "loading"}
             \/ at = "threads" /\ at' = "decoder"
             \/ at = "decoder" /\ at' = "vad" /\ set.parallel
             \/ at = "decoder" /\ at' = "serving"
             \/ /\ at \in {"vad", "downloading", "session"}
                /\ at' \in {"downloading", "session", "serving"}
      PROVE  CountInv'
  BY <1>0, <1>a, <1>1 DEF CountInv
<1>2. CASE MemoryChanges
  BY <1>1, <1>2 DEF MemoryChanges, loaded
<1>3. CASE CheckFiles
  BY <1>1, <1>3 DEF CheckFiles, Goto, Fail, loaded
<1>4. CASE PickWorkers
  <2>1. /\ at = "pick" /\ try' = try /\ sessions' = sessions
        /\ n' = IF set.parallel THEN Resolve(set.requested) ELSE 1
        /\ IF n' < 1 THEN at' = "failed" ELSE at' = "check"
    BY <1>4 DEF PickWorkers, Goto, Fail, loaded
  <2>2. n' \in Int /\ (n' >= 1 => n' \in 1..MaxWorkers)
    <3>1. Resolve(set.requested) \in Int
      <4>1. Requested(set.requested) \in Int
        BY <1>a, WorkerLimits DEF Requested, Least
      <4>2. PickEncoderWorkerCount \in Int
        BY <1>a, PickFacts
      <4> QED BY <4>1, <4>2 DEF Resolve
    <3>2. CASE set.parallel
      BY <1>a, <2>1, <3>1, <3>2, ResolveFacts
    <3>3. CASE ~set.parallel
      BY <1>a, <2>1, <3>3
    <3> QED BY <3>2, <3>3
  <2>3. CASE n' < 1
    BY <1>0, <2>1, <2>2, <2>3 DEF CountInv
  <2>4. CASE ~(n' < 1)
    <3>1. n' \in 1..MaxWorkers /\ at' = "check"
      BY <2>1, <2>2, <2>4
    <3> QED BY <1>0, <1>a, <2>1, <2>2, <3>1 DEF CountInv
  <2> QED BY <2>3, <2>4
<1>5. CASE CheckRam
  BY <1>1, <1>5 DEF CheckRam, Goto, Fail, loaded
<1>6. CASE BuildPool
  <2>1. /\ at = "build" /\ at' = "probe" /\ set.parallel
        /\ n' = Resolve(n) /\ try' = Least(n', Cores) /\ sessions' = sessions
    BY <1>6 DEF BuildPool, Goto, loaded
  <2>2. n' = n /\ n \in 1..MaxWorkers
    BY <1>a, <2>1, ResolveAgain DEF CountInv
  <2>3. try' \in 1..n'
    BY <1>a, <2>1, <2>2 DEF Least
  <2> QED BY <1>0, <1>a, <2>1, <2>2, <2>3 DEF CountInv
<1>7. CASE StartProbe \/ ProbePasses
  BY <1>1, <1>7 DEF StartProbe, ProbePasses, Goto, loaded
<1>8. CASE ProbeFails \/ ProbeIsKilled
  <2>1. /\ at \in {"probing", "hanging"} /\ n' = n /\ sessions' = sessions
        /\ try' = try - 1
        /\ IF try' < 1 THEN at' = "failed" ELSE at' = "probe"
    BY <1>8 DEF ProbeFails, ProbeIsKilled, NextProbe, Goto, Fail, loaded
  <2>2. try' \in Int /\ (~(try' < 1) => try' \in 1..n)
    BY <1>a, <2>1 DEF CountInv
  <2>3. CASE try' < 1
    BY <1>0, <2>1, <2>2, <2>3 DEF CountInv
  <2>4. CASE ~(try' < 1)
    BY <1>0, <1>a, <2>1, <2>2, <2>4 DEF CountInv
  <2> QED BY <2>3, <2>4
<1>9. CASE BuildSerial
  <2>1. /\ at = "build" /\ ~set.parallel /\ n' = n /\ try' = try
        /\ \/ at' = "decoder" /\ sessions' = 1
           \/ at' = "failed" /\ sessions' = sessions
    BY <1>9 DEF BuildSerial, Goto, Fail
  <2> QED BY <1>0, <1>a, <2>1 DEF CountInv
<1>10. CASE LoadSession
  <2>1. /\ at = "loading" /\ n' = n /\ try' = try
        /\ \/ /\ sessions' = sessions + 1
              /\ at' = IF sessions' = try THEN "threads" ELSE "loading"
           \/ at' = "failed" /\ sessions' = 0
    BY <1>10 DEF LoadSession, SessionLoads, SessionFails, Goto, Fail
  <2>2. /\ sessions \in 0..(try - 1) /\ try \in 1..n /\ n \in 1..MaxWorkers
        /\ set.parallel
    BY <2>1 DEF CountInv
  <2>3. CASE at' = "failed"
    BY <1>0, <1>a, <2>1, <2>2, <2>3 DEF CountInv
  <2>4. CASE at' = "threads"
    <3>1. sessions' = try' /\ try' \in 1..MaxWorkers
      BY <1>a, <2>1, <2>2, <2>4
    <3> QED BY <1>0, <1>a, <2>1, <2>2, <2>4, <3>1 DEF CountInv
  <2>5. CASE at' = "loading"
    <3>1. sessions' \in 0..(try' - 1)
      BY <1>a, <2>1, <2>2, <2>5
    <3> QED BY <1>0, <1>a, <2>1, <2>2, <2>5, <3>1 DEF CountInv
  <2> QED BY <2>1, <2>3, <2>4, <2>5
<1>11. CASE StartThreads \/ LoadDecoder
  BY <1>1, <1>11 DEF StartThreads, LoadDecoder, Goto, Fail, loaded
<1>12. CASE EnsureVadModel
  BY <1>1, <1>12 DEF EnsureVadModel, Goto, Fail, loaded
<1>13. CASE Download
  BY <1>1, <1>13 DEF Download, Goto, Fail, loaded
<1>14. CASE PreloadVad
  BY <1>1, <1>14 DEF PreloadVad, Goto, Fail
<1>15. CASE StopServing \/ ReleaseVad
  BY <1>1, <1>15 DEF StopServing, ReleaseVad, Goto, loaded
<1>16. CASE ReleaseModel \/ ProcessExits \/ Killed
  <2>1. at' \in {"forget", "exited"} /\ n' = n /\ try' = try /\ sessions' = 0
    BY <1>16 DEF ReleaseModel, ProcessExits, Killed, Goto
  <2> QED BY <1>0, <2>1 DEF CountInv
<1>17. CASE Restart
  <2>1. /\ at = "exited" /\ at' = "files" /\ n' = 1 /\ try' = 0
        /\ UNCHANGED sessions
    BY <1>17 DEF Restart, loaded
  <2> QED BY <1>0, <2>1 DEF CountInv
<1>18. ASSUME NEW t \in Sizes, KilledProbeDies(t) PROVE CountInv'
  BY <1>1, <1>18 DEF KilledProbeDies, loaded
<1>19. CASE UNCHANGED vars
  BY <1>1, <1>19 DEF vars, loaded
<1> QED
  BY <1>2, <1>3, <1>4, <1>5, <1>6, <1>7, <1>8, <1>9, <1>10, <1>11, <1>12,
     <1>13, <1>14, <1>15, <1>16, <1>17, <1>18, <1>19 DEF Next, Step, OwnStep, NativeCall, NetworkCall

\* A server accepts requests only with its decoder, its VAD and as many
\* encoder contexts as the last probe tried (api_server.py 244-259).
THEOREM ServesWhenComplete == Spec => []ServingIsComplete
<1>1. HeldInv /\ CountInv => ServingIsComplete
  BY DEF HeldInv, CountInv, ServingIsComplete
<1> QED BY <1>1, HeldInit, HeldStep, CountInit, CountStep, PTL DEF Spec

\* The number RKNNModel resolves again is the one RAM was checked for
\* (decode.py 563, api_server.py 182).
THEOREM ResolvedOnce == Spec => SecondResolutionAgrees
<1>1. CountInv /\ [Next]_vars => [at = "build" /\ at' = "probe" => n' = n]_vars
  <2> SUFFICES ASSUME CountInv, [Next]_vars, at = "build", at' = "probe"
               PROVE  n' = n
    OBVIOUS
  <2>1. CASE BuildPool
    BY <2>1, ResolveAgain DEF BuildPool, CountInv
  <2>2. CASE ~BuildPool
    BY <2>2 DEF Next, Step, OwnStep, NativeCall, NetworkCall, vars,
       MemoryChanges, CheckFiles, PickWorkers, CheckRam, BuildSerial,
       StartProbe, ProbePasses, ProbeFails, ProbeIsKilled, LoadSession,
       StartThreads, LoadDecoder, EnsureVadModel, Download, PreloadVad,
       StopServing, ReleaseModel, ReleaseVad, ProcessExits, Killed, Restart,
       KilledProbeDies, Goto, Fail
  <2> QED BY <2>1, <2>2
<1> QED BY <1>1, CountInit, CountStep, PTL DEF Spec, SecondResolutionAgrees

-----------------------------------------------------------------------------
(* The RAM check and what is loaded after it.                              *)

\* What the check read suffices for k encoders.
Enough(k) == checked = Unknown \/ checked >= Need(k)

CheckedInv ==
    /\ avail \in Nat \cup {Unknown} /\ checked \in Nat \cup {Unknown}
    /\ at \in {"build"} \cup Probing => Enough(n)
    /\ sessions > 0 => Enough(sessions)

\* Fewer encoders need no more.
LEMMA NeedGrows ==
  ASSUME NEW i \in Nat, NEW k \in Nat, i <= k
  PROVE  Need(i) \in Nat /\ Need(k) \in Nat /\ Need(i) <= Need(k)
<1>1. PICK d \in Nat : k = i + d
  <2>1. k - i \in Nat /\ k = i + (k - i)
    OBVIOUS
  <2> QED BY <2>1
<1>2. /\ EncoderNeed * k = EncoderNeed * i + EncoderNeed * d
      /\ EncoderNeed * i \in Nat /\ EncoderNeed * d \in Nat
  BY <1>1
<1> QED BY <1>2 DEF Need

\* So what suffices for more suffices for fewer.
LEMMA EnoughForFewer ==
  ASSUME checked \in Nat \cup {Unknown}, NEW i \in Nat, NEW k \in Nat, i <= k,
         Enough(k)
  PROVE  Enough(i)
<1>1. Need(i) \in Nat /\ Need(k) \in Nat /\ Need(i) <= Need(k)
  BY NeedGrows
<1>2. CASE checked = Unknown
  BY <1>2 DEF Enough
<1>3. CASE checked # Unknown
  <2>1. checked \in Nat /\ checked >= Need(k)
    BY <1>3 DEF Enough
  <2> QED BY <1>1, <2>1 DEF Enough
<1> QED BY <1>2, <1>3

\* Nothing has been checked or loaded.
LEMMA CheckedInit == Init => CheckedInv
<1> SUFFICES ASSUME Init PROVE CheckedInv
  OBVIOUS
<1>1. /\ avail \in Memory \cup {Unknown} /\ checked = Unknown
      /\ at = "files" /\ sessions = 0
  BY DEF Init
<1> QED BY <1>1 DEF CheckedInv, Probing

\* Whatever memory does after the check, what is loaded was checked for.
LEMMA CheckedStep == CountInv /\ CheckedInv /\ [Next]_vars => CheckedInv'
<1> SUFFICES ASSUME CountInv, CheckedInv, [Next]_vars PROVE CheckedInv'
  OBVIOUS
<1>a. avail \in Nat \cup {Unknown} /\ checked \in Nat \cup {Unknown}
  BY DEF CheckedInv
<1>1. ASSUME avail' = avail, checked' = checked, n' = n, sessions' = sessions,
             \/ at' \notin {"build"} \cup Probing
             \/ at \in {"build"} \cup Probing
      PROVE  CheckedInv'
  BY <1>1 DEF CheckedInv, Enough, Need
<1>2. ASSUME avail' = avail, checked' = checked, sessions' = 0,
             at' \notin {"build"} \cup Probing
      PROVE  CheckedInv'
  BY <1>2 DEF CheckedInv
<1>3. CASE MemoryChanges
  <2>1. /\ avail' \in Nat \cup {Unknown}
        /\ UNCHANGED <<checked, at, n, sessions>>
    BY <1>3 DEF MemoryChanges, loaded
  <2> QED BY <2>1 DEF CheckedInv, Enough, Need
<1>4. CASE CheckFiles
  BY <1>1, <1>4 DEF CheckFiles, Goto, Fail, memory, loaded, Probing
<1>5. CASE PickWorkers
  <2>1. /\ at = "pick" /\ UNCHANGED <<avail, checked, sessions>>
        /\ at' \in {"failed", "check"}
    BY <1>5 DEF PickWorkers, Goto, Fail, loaded
  <2>2. sessions = 0
    BY <2>1 DEF CountInv, Before
  <2> QED BY <1>a, <2>1, <2>2 DEF CheckedInv, Probing
<1>6. CASE CheckRam
  <2>1. /\ at = "check" /\ avail' = avail /\ checked' = avail
        /\ UNCHANGED <<n, sessions>>
        /\ (at' = "build" /\ HasEnoughRam(Need(n))) \/ at' = "failed"
    BY <1>6 DEF CheckRam, Goto, Fail, loaded
  <2>2. sessions = 0
    BY <2>1 DEF CountInv, Before
  <2>3. at' = "build" => Enough(n)'
    BY <2>1 DEF HasEnoughRam, Enough, Need
  <2> QED BY <1>a, <2>1, <2>2, <2>3 DEF CheckedInv, Probing
<1>7. CASE BuildPool
  <2>1. /\ at = "build" /\ n' = Resolve(n)
        /\ UNCHANGED <<avail, checked, sessions>>
    BY <1>7 DEF BuildPool, memory, loaded
  <2>2. n' = n
    BY <2>1, ResolveAgain DEF CountInv
  <2> QED BY <1>1, <2>1, <2>2
<1>8. CASE BuildSerial
  <2>1. /\ at = "build" /\ UNCHANGED <<avail, checked, n>>
        /\ \/ at' = "decoder" /\ sessions' = 1
           \/ at' = "failed" /\ sessions' = sessions
    BY <1>8 DEF BuildSerial, Goto, Fail, memory
  <2>2. Enough(1)
    <3>1. n \in Nat /\ 1 <= n
      BY <2>1, WorkerLimits DEF CountInv
    <3>2. Enough(n)
      BY <2>1 DEF CheckedInv
    <3> QED BY <1>a, <3>1, <3>2, EnoughForFewer
  <2>3. Enough(1)'
    BY <2>1, <2>2 DEF Enough, Need
  <2>4. CASE sessions' = 1 /\ at' = "decoder"
    BY <1>a, <2>1, <2>3, <2>4 DEF CheckedInv, Probing
  <2>5. CASE sessions' = sessions /\ at' = "failed"
    BY <1>1, <2>1, <2>5 DEF Probing
  <2> QED BY <2>1, <2>4, <2>5
<1>9. CASE StartProbe \/ ProbePasses
  BY <1>1, <1>9 DEF StartProbe, ProbePasses, Goto, memory, loaded, Probing
<1>10. CASE ProbeFails \/ ProbeIsKilled
  BY <1>1, <1>10 DEF ProbeFails, ProbeIsKilled, NextProbe, Goto, Fail, memory,
                     loaded, Probing
<1>11. CASE LoadSession
  <2>1. /\ at = "loading" /\ UNCHANGED <<avail, checked, n, try>>
        /\ \/ sessions' = sessions + 1 /\ at' \in {"loading", "threads"}
           \/ sessions' = 0 /\ at' = "failed"
    BY <1>11 DEF LoadSession, SessionLoads, SessionFails, Goto, Fail, memory
  <2>2. CASE sessions' = 0 /\ at' = "failed"
    BY <1>2, <2>1, <2>2 DEF Probing
  <2>3. CASE sessions' = sessions + 1 /\ at' \in {"loading", "threads"}
    <3>1. sessions + 1 \in Nat /\ n \in Nat /\ sessions + 1 <= n
      BY <2>1, WorkerLimits DEF CountInv, Probing
    <3>2. Enough(n)
      BY <2>1 DEF CheckedInv, Probing
    <3>3. Enough(sessions + 1)
      BY <1>a, <3>1, <3>2, EnoughForFewer
    <3>4. Enough(n)' /\ Enough(sessions)'
      BY <2>1, <2>3, <3>2, <3>3 DEF Enough, Need
    <3> QED BY <1>a, <2>1, <3>4 DEF CheckedInv
  <2> QED BY <2>1, <2>2, <2>3
<1>12. CASE StartThreads \/ LoadDecoder
  BY <1>1, <1>12 DEF StartThreads, LoadDecoder, Goto, Fail, memory, loaded,
                     Probing
<1>13. CASE EnsureVadModel \/ Download \/ PreloadVad
  BY <1>1, <1>13 DEF EnsureVadModel, Download, PreloadVad, Goto, Fail, memory,
                     loaded, Probing
<1>14. CASE StopServing \/ ReleaseVad
  BY <1>1, <1>14 DEF StopServing, ReleaseVad, Goto, memory, loaded, Probing
<1>15. CASE ReleaseModel \/ ProcessExits \/ Killed
  BY <1>2, <1>15 DEF ReleaseModel, ProcessExits, Killed, Goto, memory, Probing
<1>16. CASE Restart
  <2>1. /\ at = "exited" /\ at' = "files" /\ avail' = avail
        /\ checked' = Unknown /\ sessions' = sessions
    BY <1>16 DEF Restart, loaded
  <2> QED BY <1>a, <2>1 DEF CheckedInv, Enough, Probing
<1>17. ASSUME UNCHANGED <<avail, checked, at, n, sessions>>
       PROVE  CheckedInv'
  BY <1>17 DEF CheckedInv, Enough, Need
<1>18. ASSUME NEW t \in Sizes, KilledProbeDies(t) PROVE CheckedInv'
  BY <1>17, <1>18 DEF KilledProbeDies, memory, loaded
<1>19. CASE UNCHANGED vars
  BY <1>17, <1>19 DEF vars, memory, loaded
<1> QED
  BY <1>3, <1>4, <1>5, <1>6, <1>7, <1>8, <1>9, <1>10, <1>11, <1>12, <1>13,
     <1>14, <1>15, <1>16, <1>18, <1>19
     DEF Next, Step, OwnStep, NativeCall, NetworkCall

\* For every environment and whatever other processes do: the RAM check has
\* seen room for what is loaded (api_server.py 197-216, encode_pool.py
\* 231-249).
THEOREM LoadsOnlyWhatWasChecked == Spec => []LoadedWasChecked
<1>1. CheckedInv => LoadedWasChecked
  BY DEF CheckedInv, Enough, LoadedWasChecked
<1> QED
  BY <1>1, CountInit, CountStep, CheckedInit, CheckedStep, PTL DEF Spec

-----------------------------------------------------------------------------
(* What the startup failed of.                                             *)

Forced == moved \/ ~set.parallel \/ Requested(set.requested) > 0

CauseInv ==
    /\ cause # "none" => at \in {"failed", "exited"}
    /\ at = "check" => Forced \/ HasEnoughRam(Need(n))
    /\ cause = "ram" /\ n >= 1 => Forced

\* No startup has failed yet.
LEMMA CauseInit == Init => CauseInv
<1> SUFFICES ASSUME Init PROVE CauseInv
  OBVIOUS
<1>1. at = "files" /\ cause = "none"
  BY DEF Init
<1> QED BY <1>1 DEF CauseInv

\* Every step keeps why RAM sufficed, or why it did not.
LEMMA CauseStep == CountInv /\ CauseInv /\ [Next]_vars => CauseInv'
<1> SUFFICES ASSUME CountInv, CauseInv, [Next]_vars PROVE CauseInv'
  OBVIOUS
<1>1. ASSUME UNCHANGED <<set, moved>> PROVE Forced' <=> Forced
  <2>1. Requested(set.requested)' = Requested(set.requested)
    BY <1>1, LimitSame
  <2> QED BY <1>1, <2>1 DEF Forced
<1>2. ASSUME UNCHANGED <<n, set, moved>>, at' # "check",
             \/ cause' = cause /\ (cause = "none" \/ at' = "exited")
             \/ at' = "failed" /\ cause' \notin {"none", "ram"}
             \/ at' = "failed" /\ cause' = "ram" /\ Forced
      PROVE  CauseInv'
  <2>1. Forced' <=> Forced
    BY <1>1, <1>2
  <2> HIDE DEF Forced
  <2> QED BY <1>2, <2>1 DEF CauseInv
<1>3. CASE MemoryChanges
  <2>1. /\ moved' /\ at' = at /\ cause' = cause
        /\ at \in {"files", "pick", "check", "build"}
    BY <1>3 DEF MemoryChanges
  <2> QED BY <2>1 DEF CauseInv, Forced
<1>4. CASE CheckFiles
  BY <1>2, <1>4 DEF CheckFiles, Goto, Fail, memory, CauseInv
<1>5. CASE PickWorkers
  <2>1. /\ at = "pick" /\ set' = set /\ avail' = avail
        /\ n' = IF set.parallel THEN Resolve(set.requested) ELSE 1
        /\ IF n' < 1 THEN at' = "failed" /\ cause' = "ram"
                     ELSE at' = "check" /\ cause' = cause
    BY <1>5 DEF PickWorkers, Goto, Fail
  <2>2. cause = "none" /\ set \in Settings
    BY <2>1 DEF CauseInv, CountInv
  <2>a. n' \in Int
    <3>1. Requested(set.requested) \in Int
      BY <2>2, WorkerLimits DEF Requested, Least
    <3>2. PickEncoderWorkerCount \in Int
      BY <2>2, PickFacts, WorkerLimits
    <3> QED BY <2>1, <3>1, <3>2 DEF Resolve
  <2>3. CASE n' < 1
    BY <2>1, <2>a, <2>3 DEF CauseInv
  <2>4. CASE ~(n' < 1)
    <3>1. Forced' \/ HasEnoughRam(Need(n))'
      <4>1. CASE ~set.parallel
        BY <2>1, <4>1 DEF Forced
      <4>2. CASE set.parallel
        <5>1. n' = Resolve(set.requested) /\ n' >= 1
          BY <2>1, <2>a, <2>4, <4>2
        <5>2. Requested(set.requested) > 0 \/ HasEnoughRam(Need(n'))
          BY <2>2, <5>1, ResolveFacts
        <5>3. Requested(set.requested)' = Requested(set.requested)
          BY <2>1, LimitSame
        <5>4. HasEnoughRam(Need(n'))  => HasEnoughRam(Need(n))'
          BY <2>1 DEF HasEnoughRam, Need
        <5> QED BY <5>2, <5>3, <5>4 DEF Forced
      <4> QED BY <4>1, <4>2
    <3>2. cause' = "none"
      BY <2>1, <2>2, <2>4
    <3> HIDE DEF Forced
    <3> QED BY <3>1, <3>2 DEF CauseInv
  <2> QED BY <2>3, <2>4
<1>6. CASE CheckRam
  <2>1. /\ at = "check" /\ UNCHANGED <<n, set, moved>>
        /\ IF HasEnoughRam(Need(n)) THEN at' = "build" /\ cause' = cause
                                    ELSE at' = "failed" /\ cause' = "ram"
    BY <1>6 DEF CheckRam, Goto, Fail, memory
  <2>2. cause = "none" /\ (HasEnoughRam(Need(n)) \/ Forced)
    BY <2>1 DEF CauseInv
  <2> QED BY <1>2, <2>1, <2>2
<1>7. CASE BuildPool
  <2>1. /\ at = "build" /\ UNCHANGED <<set, moved>> /\ at' = "probe"
        /\ n' = Resolve(n) /\ cause' = cause
    BY <1>7 DEF BuildPool, Goto, memory
  <2>2. n' = n
    BY <2>1, ResolveAgain DEF CountInv
  <2> QED BY <1>2, <2>1, <2>2 DEF CauseInv
<1>8. CASE BuildSerial \/ LoadSession \/ StartThreads
  BY <1>2, <1>8
     DEF BuildSerial, LoadSession, SessionLoads, SessionFails, StartThreads,
         Goto, Fail, memory, CauseInv
<1>9. CASE StartProbe \/ ProbePasses \/ ProbeFails \/ ProbeIsKilled
  BY <1>2, <1>9
     DEF StartProbe, ProbePasses, ProbeFails, ProbeIsKilled, NextProbe, Goto,
         Fail, memory, CauseInv
<1>10. CASE LoadDecoder \/ EnsureVadModel \/ Download \/ PreloadVad
  BY <1>2, <1>10
     DEF LoadDecoder, EnsureVadModel, Download, PreloadVad, Goto, Fail,
         memory, CauseInv
<1>11. CASE StopServing \/ ReleaseModel \/ ReleaseVad
  BY <1>2, <1>11
     DEF StopServing, ReleaseModel, ReleaseVad, Goto, memory, CauseInv
<1>12. CASE ProcessExits \/ Killed
  BY <1>2, <1>12 DEF ProcessExits, Killed, Goto, memory, CauseInv
<1>13. CASE Restart
  BY <1>13 DEF Restart, CauseInv
<1>14. ASSUME UNCHANGED <<at, n, set, avail, moved, cause>> PROVE CauseInv'
  <2>1. Forced' <=> Forced
    BY <1>1, <1>14
  <2>2. HasEnoughRam(Need(n))' <=> HasEnoughRam(Need(n))
    BY <1>14 DEF HasEnoughRam, Need
  <2> HIDE DEF Forced
  <2> QED BY <1>14, <2>1, <2>2 DEF CauseInv
<1>15. ASSUME NEW t \in Sizes, KilledProbeDies(t) PROVE CauseInv'
  BY <1>14, <1>15 DEF KilledProbeDies, memory
<1>16. CASE UNCHANGED vars
  BY <1>14, <1>16 DEF vars, memory
<1> QED
  BY <1>3, <1>4, <1>5, <1>6, <1>7, <1>8, <1>9, <1>10, <1>11, <1>12, <1>13,
     <1>15, <1>16 DEF Next, Step, OwnStep, NativeCall, NetworkCall

\* The number of workers never exceeds the cores or the maximum, and what RAM
\* allowed is refused only when RAM changed (system_memory.py 95-117,
\* api_server.py 182-206).
THEOREM WorkersCanBeLoaded == Spec => []PickIsUsable
<1>1. CountInv /\ CauseInv => PickIsUsable
  <2> SUFFICES ASSUME CountInv, CauseInv PROVE PickIsUsable
    OBVIOUS
  <2>1. /\ MaxWorkers = Least(set.max, Cores) /\ MaxWorkers \in Nat
    BY WorkerLimits DEF CountInv
  <2>2. ASSUME at \in {"check", "build", "probe", "probing", "hanging",
                       "loading"}
        PROVE  n \in 1..MaxWorkers /\ try <= n
    BY <2>1, <2>2 DEF CountInv, Probing
  <2>3. cause = "ram" /\ n >= 1 => Forced
    BY DEF CauseInv
  <2> QED BY <2>1, <2>2, <2>3 DEF PickIsUsable, Forced
<1> QED BY <1>1, CountInit, CountStep, CauseInit, CauseStep, PTL DEF Spec
-----------------------------------------------------------------------------
(* Room on the NPU.                                                        *)

Total(f) == FoldFunction(+, 0, f)

RoomInv ==
    /\ room \in Nat /\ lingering \in [Sizes -> Nat]
    /\ at = "loading" => Total(lingering) + try <= room
    /\ cause # "room"

\* Killed probes hold a number of contexts, which dies with them.
LEMMA ContextsAdded ==
  ASSUME NEW f \in [Sizes -> Nat], NEW t \in Sizes
  PROVE  /\ Total(f) \in Nat /\ Total([f EXCEPT ![t] = 0]) \in Nat
         /\ Total([f EXCEPT ![t] = 0]) <= Total(f)
<1> DEFINE g == [f EXCEPT ![t] = 0]
<1>1. IsFiniteSet(Sizes)
  BY FS_Interval DEF Sizes
<1>2. g \in [Sizes -> Nat] /\ \A x \in Sizes : g[x] <= f[x]
  OBVIOUS
<1> HIDE DEF g
<1>3. Total(g) \in Nat /\ Total(f) \in Nat /\ Total(g) <= Total(f)
  BY <1>1, <1>2, SumsOrdered DEF Total
<1> QED BY <1>3 DEF g

\* No killed probe, and nothing has failed.
LEMMA RoomInit == Init => RoomInv
<1> SUFFICES ASSUME Init PROVE RoomInv
  OBVIOUS
<1>1. /\ room \in Rooms /\ lingering = [t \in Sizes |-> 0]
      /\ at = "files" /\ cause = "none"
  BY DEF Init
<1> QED BY <1>1 DEF RoomInv

\* The contexts of killed probes become fewer while the sessions load.
LEMMA RoomStep == CountInv /\ RoomInv /\ [Next]_vars => RoomInv'
<1> SUFFICES ASSUME CountInv, RoomInv, [Next]_vars PROVE RoomInv'
  OBVIOUS
<1>1. Total(lingering) \in Nat
  <2>1. 1 \in Sizes
    BY DEF Sizes
  <2> QED BY <2>1, ContextsAdded DEF RoomInv
<1>a. InUse = sessions + Total(lingering)
  BY DEF InUse, Total
<1>2. ASSUME UNCHANGED <<room, lingering>>, at' # "loading", cause' # "room"
      PROVE  RoomInv'
  BY <1>2 DEF RoomInv
<1>3. CASE MemoryChanges \/ CheckFiles \/ PickWorkers \/ CheckRam
  BY <1>2, <1>3
     DEF MemoryChanges, CheckFiles, PickWorkers, CheckRam, Goto, Fail, RoomInv
<1>4. CASE BuildPool \/ BuildSerial \/ StartProbe \/ ProbeFails
  BY <1>2, <1>4
     DEF BuildPool, BuildSerial, StartProbe, ProbeFails, NextProbe, Goto,
         Fail, RoomInv
<1>5. CASE ProbePasses
  <2>1. /\ at = "probing" /\ InUse + try <= room /\ cause' = cause
        /\ UNCHANGED <<room, lingering, try>>
    BY <1>5 DEF ProbePasses, Goto
  <2>2. sessions = 0 /\ try \in Int
    BY <2>1 DEF CountInv, Before
  <2>3. Total(lingering) + try <= room
    BY <1>1, <1>a, <2>1, <2>2
  <2> QED BY <2>1, <2>3 DEF RoomInv
<1>6. CASE ProbeIsKilled
  <2>1. PICK k \in 0..Least(try, Most(0, room - InUse)) :
            lingering' = [lingering EXCEPT ![try] = k]
    BY <1>6 DEF ProbeIsKilled
  <2>2. /\ at \in {"probing", "hanging"} /\ room' = room
        /\ \/ at' = "failed" /\ cause' = "probe"
           \/ at' = "probe" /\ cause' = cause
    BY <1>6 DEF ProbeIsKilled, NextProbe, Goto, Fail
  <2>3. k \in Nat
    <3>1. try \in Int /\ sessions \in Int
      BY DEF CountInv
    <3>2. room - InUse \in Int
      BY <1>1, <1>a, <3>1 DEF RoomInv
    <3>3. Least(try, Most(0, room - InUse)) \in Int
      BY <3>1, <3>2 DEF Least, Most
    <3> QED BY <2>1, <3>3
  <2>4. lingering' \in [Sizes -> Nat]
    BY <2>1, <2>3 DEF RoomInv
  <2> QED BY <2>2, <2>4 DEF RoomInv
<1>7. ASSUME NEW t \in Sizes, KilledProbeDies(t) PROVE RoomInv'
  <2>1. /\ lingering' = [lingering EXCEPT ![t] = 0]
        /\ UNCHANGED <<room, at, try, cause>>
    BY <1>7 DEF KilledProbeDies
  <2>2. /\ Total(lingering') \in Nat
        /\ Total(lingering') <= Total(lingering)
    BY <2>1, ContextsAdded DEF RoomInv
  <2>3. lingering' \in [Sizes -> Nat]
    BY <2>1 DEF RoomInv
  <2>4. at = "loading" => Total(lingering') + try <= room
    <3>1. try \in Int /\ room \in Nat
      BY DEF CountInv, RoomInv
    <3> QED BY <1>1, <2>2, <3>1 DEF RoomInv
  <2> QED BY <2>1, <2>3, <2>4 DEF RoomInv
<1>8. CASE LoadSession
  <2>1. /\ at = "loading" /\ UNCHANGED <<room, lingering, try>>
        /\ \/ SessionLoads
           \/ SessionFails
    BY <1>8 DEF LoadSession
  <2>2. InUse < room
    <3>1. sessions \in 0..(try - 1) /\ try \in Int
      BY <2>1 DEF CountInv
    <3>2. Total(lingering) + try <= room /\ room \in Nat
      BY <2>1 DEF RoomInv
    <3> QED BY <1>1, <1>a, <3>1, <3>2
  <2>3. cause' \in {cause, "session"}
    BY <2>1, <2>2 DEF SessionLoads, SessionFails, Goto, Fail
  <2> QED BY <2>1, <2>3 DEF RoomInv
<1>9. CASE StartThreads \/ LoadDecoder \/ EnsureVadModel \/ Download
           \/ PreloadVad
  BY <1>2, <1>9
     DEF StartThreads, LoadDecoder, EnsureVadModel, Download, PreloadVad, Goto,
         Fail, RoomInv
<1>10. CASE StopServing \/ ReleaseModel \/ ReleaseVad \/ ProcessExits \/ Killed
  BY <1>2, <1>10
     DEF StopServing, ReleaseModel, ReleaseVad, ProcessExits, Killed, Goto,
         RoomInv
<1>11. CASE Restart
  <2>1. /\ room' = room /\ lingering' = [t \in Sizes |-> 0]
        /\ at' = "files" /\ cause' = "none"
    BY <1>11 DEF Restart
  <2> QED BY <2>1 DEF RoomInv
<1>12. CASE UNCHANGED vars
  BY <1>12 DEF vars, RoomInv
<1> QED
  BY <1>3, <1>4, <1>5, <1>6, <1>7, <1>8, <1>9, <1>10, <1>11, <1>12
     DEF Next, Step, OwnStep, NativeCall, NetworkCall

\* The sessions of the size that a probe loaded find room, although killed
\* probes may still hold contexts (encode_pool.py 108-185).
THEOREM ProbedSizeFits == Spec => []ProbedSessionsFit
<1>1. RoomInv => ProbedSessionsFit
  BY DEF RoomInv, ProbedSessionsFit
<1> QED BY <1>1, CountInit, CountStep, RoomInit, RoomStep, PTL DEF Spec
=============================================================================
