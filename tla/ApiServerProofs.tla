-------------------------- MODULE ApiServerProofs --------------------------
(***************************************************************************)
(* For any number of requests, of all sizes, and every environment: no     *)
(* temporary file is forgotten; an upload is decoded if anything can       *)
(* decode it, unless a failed attempt had read from it; and, if estimates  *)
(* and other processes keep to what they were, memory suffices for the     *)
(* request that is decoded with one more upload behind it.                 *)
(* The first two are about what a load does, whoever waits for it: the     *)
(* other steps of the server leave it alone.  The third is about the queue *)
(* and the last check: whoever was admitted last found room for itself and *)
(* every body before it, though not for what the holder of the lock took   *)
(* afterwards, and bodies only go until another is admitted.               *)
(***************************************************************************)
EXTENDS ApiServer, FiniteSetTheorems, WellFoundedInduction, TLAPS

USE EnvironmentsAssumption DEF EnvironmentsAssumption

Decoding == {"file", "soundfile", "ffmpeg"}

\* Exactly the attempts on the file hold it.
Holds == held <=> load \in Decoding

Accounts == files \in Int /\ stray \in Int /\ TempFilesAccounted

Environment == env \in Environments

\* Which decoders have failed by now on all of the upload.
Failed ==
    /\ load \in {"store", "file"} => "stream" \notin env.can
    /\ load = "file" => env.av
    /\ temp = "start" =>
           /\ load \in {"soundfile", "ffmpeg", "refused"} =>
                  env.can \cap {"stream", "file"} = {}
           /\ load \in {"ffmpeg", "refused"} => "soundfile" \notin env.can
           /\ load = "refused" => "ffmpeg" \notin env.can

\* Where the samples begin.
Hears ==
    /\ load = "loaded" => heard = temp
    /\ load \in {"stream", "store"} => temp = "start"
    /\ load # "loaded" => heard = "start"

LoadInv == Holds /\ Accounts /\ Environment /\ Failed /\ Hears

LoadAction ==
    Load!Begin \/ Load!Step \/ Load!Take \/ Load!Kill \/ UNCHANGED loadVars

-----------------------------------------------------------------------------
\* A step of the server is one of a load, or none.
LEMMA LoadSteps == [Next]_vars => LoadAction
<1> SUFFICES ASSUME [Next]_vars PROVE LoadAction
  OBVIOUS
<1>1. ASSUME NEW r \in Requests,
             Refuse(r) \/ Upload(r) \/ Thread(r) \/ KeepSpan(r)
      PROVE  LoadAction
  <2>1. CASE Refuse(r)
    BY <2>1 DEF Refuse, LoadAction
  <2>2. CASE Upload(r)
    BY <2>2 DEF Upload, LoadAction
  <2>3. CASE Acquire(r)
    BY <2>3 DEF Acquire, LoadAction
  <2>4. CASE LoadStep(r)
    BY <2>4 DEF LoadStep, LoadAction
  <2>5. CASE Loaded(r)
    BY <2>5 DEF Loaded, LoadAction
  <2>6. CASE LoadRaises(r)
    BY <2>6 DEF LoadRaises, LoadAction
  <2>7. CASE DecodeEnds(r)
    BY <2>7 DEF DecodeEnds, LoadAction
  <2>8. CASE KeepSpan(r)
    BY <2>8 DEF KeepSpan, LoadAction
  <2> QED BY <1>1, <2>1, <2>2, <2>3, <2>4, <2>5, <2>6, <2>7, <2>8 DEF Thread
<1>2. CASE OthersChange
  BY <1>2 DEF OthersChange, LoadAction
<1>3. CASE Killed
  BY <1>3 DEF Killed, LoadAction
<1>4. CASE UNCHANGED vars
  BY <1>4 DEF vars, LoadAction
<1> QED BY <1>1, <1>2, <1>3, <1>4 DEF Next

\* No load runs before the first request.
LEMMA LoadInit == Init => LoadInv
<1> SUFFICES ASSUME Init PROVE LoadInv
  OBVIOUS
<1>1. /\ env \in Environments /\ load = "idle" /\ temp = "start"
      /\ heard = "start" /\ ~held /\ files = 0 /\ stray = 0
  BY DEF Init, Load!Init
<1>2. Holds
  BY <1>1 DEF Holds, Decoding
<1>3. Accounts
  BY <1>1 DEF Accounts, TempFilesAccounted
<1>4. Environment /\ Failed /\ Hears
  BY <1>1 DEF Environment, Failed, Hears
<1> QED BY <1>2, <1>3, <1>4 DEF LoadInv

\* Every step of a load keeps its file and the lock accounted for.
LEMMA LoadPreserved == LoadInv /\ LoadAction => LoadInv'
<1> SUFFICES ASSUME LoadInv, LoadAction PROVE LoadInv'
  OBVIOUS
<1> USE DEF LoadInv
<1>1. CASE Load!Begin
  <2>1. /\ load = "idle" /\ load' \in {"stream", "store"} /\ held' = held
        /\ files' = files /\ stray' = stray
        /\ temp' = "start" /\ heard' = "start" /\ env' \in Environments
        /\ load' = "store" => ~env'.av
    BY <1>1 DEF Load!Begin
  <2>2. Holds'
    BY <2>1 DEF Holds, Decoding
  <2>3. Accounts'
    BY <2>1 DEF Accounts, TempFilesAccounted
  <2>4. Environment' /\ Failed' /\ Hears'
    BY <2>1 DEF Environment, Failed, Hears
  <2> QED BY <2>2, <2>3, <2>4
<1>2. CASE Load!TryStream
  <2>1. /\ load = "stream" /\ load' \in {"loaded", "store"} /\ held' = held
        /\ files' = files /\ stray' = stray /\ env' = env
        /\ temp' = temp /\ heard' = heard
        /\ load' = "store" => "stream" \notin env.can
    BY <1>2 DEF Load!TryStream
  <2>2. Holds'
    BY <2>1 DEF Holds, Decoding
  <2>3. Accounts'
    BY <2>1 DEF Accounts, TempFilesAccounted
  <2>4. Environment' /\ Failed' /\ Hears'
    BY <2>1 DEF Environment, Failed, Hears
  <2> QED BY <2>2, <2>3, <2>4
<1>3. CASE Load!Store
  <2>1. load = "store" /\ env' = env /\ heard' = heard /\ ~held
    BY <1>3 DEF Load!Store, Holds, Decoding
  <2>2. CASE load' = "error"
    <3>1. /\ temp' = temp /\ held' = held
          /\ \/ files' = files /\ stray' = stray
             \/ files' = files + 1 /\ stray' = stray + 1
      BY <1>3, <2>2 DEF Load!Store
    <3>2. Holds'
      BY <2>1, <2>2, <3>1 DEF Holds, Decoding
    <3>3. Accounts'
      BY <2>1, <3>1 DEF Accounts, TempFilesAccounted
    <3>4. Environment' /\ Failed' /\ Hears'
      BY <2>1, <2>2, <3>1 DEF Environment, Failed, Hears
    <3> QED BY <3>2, <3>3, <3>4
  <2>3. CASE load' # "error"
    <3>1. /\ load' = IF env.av THEN "file" ELSE "soundfile"
          /\ held' /\ files' = files + 1 /\ stray' = stray
      BY <1>3, <2>3 DEF Load!Store
    <3>2. Holds'
      BY <3>1 DEF Holds, Decoding
    <3>3. Accounts'
      BY <2>1, <3>1 DEF Accounts, TempFilesAccounted
    <3>4. Environment' /\ Failed' /\ Hears'
      BY <2>1, <3>1 DEF Environment, Failed, Hears, Load!Decoders
    <3> QED BY <3>2, <3>3, <3>4
  <2> QED BY <2>2, <2>3
<1>4. ASSUME NEW d \in Decoding, NEW next, Load!Try(d, next),
             <<d, next>> \in {<<"file", "soundfile">>, <<"soundfile", "ffmpeg">>,
                              <<"ffmpeg", "refused">>}
      PROVE  LoadInv'
  <2>1. load = d /\ held /\ heard = "start" /\ env' = env /\ temp' = temp
    BY <1>4 DEF Load!Try, Holds, Hears, Decoding
  <2>2. CASE load' = "loaded"
    <3>1. heard' = temp /\ ~held' /\ files' = files - 1 /\ stray' = stray
      BY <1>4, <2>2 DEF Load!Try, Load!Finally
    <3>2. Holds'
      BY <2>2, <3>1 DEF Holds, Decoding
    <3>3. Accounts'
      BY <2>1, <3>1 DEF Accounts, TempFilesAccounted
    <3>4. Environment' /\ Failed' /\ Hears'
      BY <2>1, <2>2, <3>1 DEF Environment, Failed, Hears
    <3> QED BY <3>2, <3>3, <3>4
  <2>3. CASE load' = "error"
    <3>1. ~held' /\ heard' = heard /\ files' = files /\ stray' = stray + 1
      BY <1>4, <2>3 DEF Load!Try, Load!Finally
    <3>2. Holds'
      BY <2>3, <3>1 DEF Holds, Decoding
    <3>3. Accounts'
      BY <2>1, <3>1 DEF Accounts, TempFilesAccounted
    <3>4. Environment' /\ Failed' /\ Hears'
      BY <2>1, <2>3, <3>1 DEF Environment, Failed, Hears
    <3> QED BY <3>2, <3>3, <3>4
  <2>4. CASE load' \notin {"loaded", "error"}
    <3>1. /\ load' = next /\ heard' = heard /\ stray' = stray
          /\ temp = "start" => d \notin env.can
          /\ IF next = "refused" THEN ~held' /\ files' = files - 1
             ELSE held' = held /\ files' = files
      BY <1>4, <2>4 DEF Load!Try, Load!Finally, Load!MayFail
    <3>2. Holds'
      BY <1>4, <2>1, <3>1 DEF Holds, Decoding
    <3>3. Accounts'
      <4>1. CASE next = "refused"
        <5>1. ~held' /\ files' = files - 1
          BY <3>1, <4>1
        <5> QED BY <2>1, <3>1, <5>1 DEF Accounts, TempFilesAccounted
      <4>2. CASE next # "refused"
        <5>1. held' /\ files' = files
          BY <2>1, <3>1, <4>2
        <5> QED BY <2>1, <3>1, <5>1 DEF Accounts, TempFilesAccounted
      <4> QED BY <4>1, <4>2
    <3>4. Environment' /\ Failed' /\ Hears'
      BY <1>4, <2>1, <3>1 DEF Environment, Failed, Hears, Decoding
    <3> QED BY <3>2, <3>3, <3>4
  <2> QED BY <2>2, <2>3, <2>4
<1>5. CASE Load!TryDecoders
  BY <1>4, <1>5 DEF Load!TryDecoders, Decoding
<1>6. CASE Load!Take
  <2>1. /\ load \in {"loaded", "refused", "error"} /\ load' = "idle"
        /\ held' = held /\ files' = files /\ stray' = stray /\ env' = env
        /\ heard' = "start"
    BY <1>6 DEF Load!Take
  <2>2. Holds'
    BY <2>1 DEF Holds, Decoding
  <2>3. Accounts'
    BY <2>1 DEF Accounts, TempFilesAccounted
  <2>4. Environment' /\ Failed' /\ Hears'
    BY <2>1 DEF Environment, Failed, Hears
  <2> QED BY <2>2, <2>3, <2>4
<1>7. CASE Load!Kill
  <2>1. /\ load' = "idle" /\ ~held' /\ files' = files /\ env' = env
        /\ heard' = "start"
        /\ stray' = IF held THEN stray + 1 ELSE stray
    BY <1>7 DEF Load!Kill
  <2>2. Holds'
    BY <2>1 DEF Holds, Decoding
  <2>3. Accounts'
    BY <2>1 DEF Accounts, TempFilesAccounted
  <2>4. Environment' /\ Failed' /\ Hears'
    BY <2>1 DEF Environment, Failed, Hears
  <2> QED BY <2>2, <2>3, <2>4
<1>8. CASE UNCHANGED loadVars
  BY <1>8 DEF loadVars, Holds, Accounts, TempFilesAccounted, Environment,
              Failed, Hears
<1> QED BY <1>1, <1>2, <1>3, <1>5, <1>6, <1>7, <1>8 DEF LoadAction, Load!Step

\* File and lock are accounted for at all times.
LEMMA LoadCorrect == Spec => []LoadInv
BY LoadInit, LoadSteps, LoadPreserved, PTL DEF Spec

\* Every temporary file is the running load's, or was left by a write or a
\* removal that failed or by a kill (decode.py 290, 391-393).
THEOREM TempFilesAreAccounted == Spec => []TempFilesAccounted
<1>1. LoadInv => TempFilesAccounted
  BY DEF LoadInv, Accounts
<1> QED BY <1>1, LoadCorrect, PTL

\* The chain of decoders finds one that can, if the file has all of the upload
\* (decode.py 355-390).
THEOREM LoadsWhatCanBeLoaded == Spec => []LoadsIfAnyCanUnlessRead
<1>1. LoadInv => LoadsIfAnyCanUnlessRead
  <2> SUFFICES ASSUME LoadInv, temp = "start"
               PROVE  /\ load = "loaded" => heard = "start"
                      /\ load = "refused" => env.can = {}
    BY DEF LoadsIfAnyCanUnlessRead, Load!LoadsIfAnyCan
  <2>1. load = "loaded" => heard = "start"
    BY DEF LoadInv, Hears
  <2>2. load = "refused" => env.can = {}
    <3>1. env.can \subseteq {"stream", "file", "soundfile", "ffmpeg"}
      BY DEF LoadInv, Environment, Load!Decoders
    <3> QED BY <3>1 DEF LoadInv, Failed
  <2> QED BY <2>1, <2>2
<1> QED BY <1>1, LoadCorrect, PTL

HIDE EnvironmentsAssumption DEF EnvironmentsAssumption

-----------------------------------------------------------------------------
(* A set of natural numbers has a least element.  What is shown along the  *)
(* numbers is shown by taking the least one for which it is wrong.         *)

\* Every set of natural numbers but the empty one has a least element.
LEMMA LeastElement ==
  ASSUME NEW T, T \subseteq Nat, T # {}
  PROVE  \E x \in T : \A y \in T : x <= y
<1>1. PICK x \in T : \A y \in T : <<y, x>> \notin OpToRel(<, Nat)
  BY NatLessThanWellFounded, WFMin
<1>2. ASSUME NEW y \in T PROVE ~(y < x)
  BY <1>1 DEF OpToRel
<1> QED BY <1>2

-----------------------------------------------------------------------------
(* The sum of a function's values.  FoldFunction is defined by recursion   *)
(* over the subsets of its domain; that such a function exists and what it *)
(* computes are shown along their cardinality.                             *)

Pick(s) == CHOOSE x \in s : TRUE

\* F sums f on the sets of D.
Sums(f, D, F) ==
    F = [s \in D |-> IF s = {} THEN 0 ELSE f[Pick(s)] + F[s \ {Pick(s)}]]

\* The subsets of S with at most m elements.
UpTo(S, m) == {s \in SUBSET S : Cardinality(s) <= m}

\* Taking an element away.
LEMMA WithoutPick ==
  ASSUME NEW S, IsFiniteSet(S), NEW m \in Nat, NEW s \in UpTo(S, m), s # {}
  PROVE  /\ Pick(s) \in s /\ m # 0
         /\ s \ {Pick(s)} \in UpTo(S, m - 1)
         /\ Cardinality(s \ {Pick(s)}) = Cardinality(s) - 1
<1>1. s \subseteq S /\ Cardinality(s) <= m
  BY DEF UpTo
<1>2. Pick(s) \in s
  BY DEF Pick
<1>3. IsFiniteSet(s)
  BY <1>1, FS_Subset
<1>4. /\ Cardinality(s) \in Nat
      /\ Cardinality(s \ {Pick(s)}) = Cardinality(s) - 1
      /\ Cardinality(s \ {Pick(s)}) \in Nat
  BY <1>2, <1>3, FS_CardinalityType, FS_RemoveElement
<1>5. m # 0 /\ Cardinality(s \ {Pick(s)}) <= m - 1
  BY <1>1, <1>4
<1> QED BY <1>1, <1>2, <1>4, <1>5 DEF UpTo

\* The sums of the smaller subsets give those of the larger.
LEMMA SumsExist ==
  ASSUME NEW S, IsFiniteSet(S), NEW f, NEW m \in Nat
  PROVE  \E F : Sums(f, UpTo(S, m), F)
<1> DEFINE Bad == {k \in Nat : ~ \E F : Sums(f, UpTo(S, k), F)}
<1>1. SUFFICES ASSUME Bad # {} PROVE FALSE
  OBVIOUS
<1>2. PICK k \in Bad : \A j \in Bad : k <= j
  <2>1. Bad \subseteq Nat
    OBVIOUS
  <2> HIDE DEF Bad
  <2> QED BY <1>1, <2>1, LeastElement
<1>3. k \in Nat /\ ~ \E F : Sums(f, UpTo(S, k), F)
  OBVIOUS
<1>4. PICK G : k # 0 => Sums(f, UpTo(S, k - 1), G)
  <2>1. k # 0 => k - 1 \in Nat /\ ~(k <= k - 1)
    BY <1>3
  <2> QED BY <1>2, <2>1
<1> DEFINE D == UpTo(S, k)
           F == [s \in D |-> IF s = {} THEN 0
                             ELSE f[Pick(s)] + G[s \ {Pick(s)}]]
<1>5. ASSUME NEW s \in D, s # {}
      PROVE  F[s \ {Pick(s)}] = G[s \ {Pick(s)}]
  <2> DEFINE t == s \ {Pick(s)}
  <2>1. k # 0 /\ t \in UpTo(S, k - 1)
    BY <1>3, <1>5, WithoutPick
  <2>2. t \in D
    <3>1. Cardinality(t) \in Nat
      BY <2>1, FS_Subset, FS_CardinalityType DEF UpTo
    <3> QED BY <1>3, <2>1, <3>1 DEF UpTo
  <2>3. G[t] = IF t = {} THEN 0 ELSE f[Pick(t)] + G[t \ {Pick(t)}]
    BY <1>4, <2>1 DEF Sums
  <2> QED BY <2>2, <2>3
<1>6. Sums(f, D, F)
  <2>1. F = [s \in D |-> IF s = {} THEN 0
                         ELSE f[Pick(s)] + F[s \ {Pick(s)}]]
    BY <1>5
  <2> QED BY <2>1 DEF Sums
<1> QED BY <1>3, <1>6

\* FoldFunction returns the last of them.
LEMMA FoldSums ==
  ASSUME NEW S, IsFiniteSet(S), NEW f, DOMAIN f = S
  PROVE  \E F : Sums(f, SUBSET S, F) /\ Total(f) = F[S]
<1>1. \E F : Sums(f, SUBSET S, F)
  <2>1. Cardinality(S) \in Nat
    BY FS_CardinalityType
  <2>2. UpTo(S, Cardinality(S)) = SUBSET S
    BY FS_Subset DEF UpTo
  <2>3. \E F : Sums(f, UpTo(S, Cardinality(S)), F)
    BY <2>1, SumsExist
  <2> QED BY <2>2, <2>3
<1> DEFINE G == CHOOSE F : Sums(f, SUBSET S, F)
<1>2. Sums(f, SUBSET S, G)
  BY <1>1
<1>3. Total(f) = G[S]
  BY DEF Total, FoldFunction, FoldFunctionOnSet, MapThenFoldSet, Sums, Pick
<1> QED BY <1>2, <1>3

\* The sums of natural numbers are natural.
LEMMA SumsAreNatural ==
  ASSUME NEW S, IsFiniteSet(S), NEW f \in [S -> Nat],
         NEW F, Sums(f, SUBSET S, F)
  PROVE  \A s \in SUBSET S : F[s] \in Nat
<1> DEFINE Bad == {k \in Nat :
                       \E s \in SUBSET S : Cardinality(s) = k /\ F[s] \notin Nat}
<1>1. Bad = {}
  <2>1. SUFFICES ASSUME Bad # {} PROVE FALSE
    OBVIOUS
  <2>2. PICK k \in Bad : \A j \in Bad : k <= j
    <3>1. Bad \subseteq Nat
      OBVIOUS
    <3> HIDE DEF Bad
    <3> QED BY <2>1, <3>1, LeastElement
  <2>3. PICK s \in SUBSET S : Cardinality(s) = k /\ F[s] \notin Nat
    OBVIOUS
  <2>4. F[s] = IF s = {} THEN 0 ELSE f[Pick(s)] + F[s \ {Pick(s)}]
    BY DEF Sums
  <2>5. CASE s = {}
    BY <2>3, <2>4, <2>5
  <2>6. CASE s # {}
    <3> DEFINE t == s \ {Pick(s)}
    <3>1. k \in Nat /\ s \in UpTo(S, k)
      BY <2>3 DEF UpTo
    <3>2. Pick(s) \in S /\ t \in SUBSET S /\ Cardinality(t) = k - 1 /\ k # 0
      BY <2>3, <2>6, <3>1, WithoutPick DEF UpTo
    <3>3. F[t] \in Nat
      <4>1. k - 1 \in Nat /\ ~(k <= k - 1)
        BY <3>1, <3>2
      <4> QED BY <2>2, <3>2, <4>1
    <3>4. f[Pick(s)] \in Nat
      BY <3>2
    <3> QED BY <2>3, <2>4, <2>6, <3>3, <3>4
  <2> QED BY <2>5, <2>6
<1>2. \A s \in SUBSET S : Cardinality(s) \in Nat
  BY FS_Subset, FS_CardinalityType
<1> QED BY <1>1, <1>2

\* The sum of natural numbers is one.
LEMMA SumIsNatural ==
  ASSUME NEW S, IsFiniteSet(S), NEW f \in [S -> Nat]
  PROVE  Total(f) \in Nat
<1>1. PICK F : Sums(f, SUBSET S, F) /\ Total(f) = F[S]
  BY FoldSums
<1>2. \A s \in SUBSET S : F[s] \in Nat
  BY <1>1, SumsAreNatural
<1>3. S \in SUBSET S
  OBVIOUS
<1> QED BY <1>1, <1>2, <1>3

\* Nothing but zeros adds up to zero.
LEMMA SumOfZeros ==
  ASSUME NEW S, IsFiniteSet(S), NEW f \in [S -> Nat], \A x \in S : f[x] = 0
  PROVE  Total(f) = 0
<1>1. PICK F : Sums(f, SUBSET S, F) /\ Total(f) = F[S]
  BY FoldSums
<1> DEFINE Bad == {k \in Nat :
                       \E s \in SUBSET S : Cardinality(s) = k /\ F[s] # 0}
<1>2. Bad = {}
  <2>1. SUFFICES ASSUME Bad # {} PROVE FALSE
    OBVIOUS
  <2>2. PICK k \in Bad : \A j \in Bad : k <= j
    <3>1. Bad \subseteq Nat
      OBVIOUS
    <3> HIDE DEF Bad
    <3> QED BY <2>1, <3>1, LeastElement
  <2>3. PICK s \in SUBSET S : Cardinality(s) = k /\ F[s] # 0
    OBVIOUS
  <2>4. F[s] = IF s = {} THEN 0 ELSE f[Pick(s)] + F[s \ {Pick(s)}]
    BY <1>1 DEF Sums
  <2>5. s # {}
    BY <2>3, <2>4
  <2> DEFINE t == s \ {Pick(s)}
  <2>6. k \in Nat /\ s \in UpTo(S, k)
    BY <2>3 DEF UpTo
  <2>7. Pick(s) \in S /\ t \in SUBSET S /\ Cardinality(t) = k - 1 /\ k # 0
    BY <2>3, <2>5, <2>6, WithoutPick DEF UpTo
  <2>8. F[t] = 0
    <3>1. k - 1 \in Nat /\ ~(k <= k - 1)
      BY <2>6, <2>7
    <3> QED BY <2>2, <2>7, <3>1
  <2>9. f[Pick(s)] = 0
    BY <2>7
  <2> QED BY <2>3, <2>4, <2>5, <2>8, <2>9
<1>3. Cardinality(S) \in Nat
  BY FS_CardinalityType
<1>4. F[S] = 0
  BY <1>2, <1>3
<1> QED BY <1>1, <1>4

\* Changing one summand changes the sum by as much.
LEMMA SumOfChanged ==
  ASSUME NEW S, IsFiniteSet(S), NEW x \in S,
         NEW f \in [S -> Nat], NEW g \in [S -> Nat],
         \A y \in S \ {x} : g[y] = f[y]
  PROVE  Total(g) + f[x] = Total(f) + g[x]
<1>1. PICK F : Sums(f, SUBSET S, F) /\ Total(f) = F[S]
  BY FoldSums
<1>2. PICK G : Sums(g, SUBSET S, G) /\ Total(g) = G[S]
  BY FoldSums
<1>3. \A s \in SUBSET S : F[s] \in Nat /\ G[s] \in Nat
  BY <1>1, <1>2, SumsAreNatural
<1> DEFINE Right(s) == IF x \in s THEN G[s] + f[x] = F[s] + g[x] ELSE G[s] = F[s]
           Bad == {k \in Nat :
                       \E s \in SUBSET S : Cardinality(s) = k /\ ~Right(s)}
<1>4. Bad = {}
  <2>1. SUFFICES ASSUME Bad # {} PROVE FALSE
    OBVIOUS
  <2>2. PICK k \in Bad : \A j \in Bad : k <= j
    <3>1. Bad \subseteq Nat
      OBVIOUS
    <3> HIDE DEF Bad
    <3> QED BY <2>1, <3>1, LeastElement
  <2>3. PICK s \in SUBSET S : Cardinality(s) = k /\ ~Right(s)
    OBVIOUS
  <2>4. /\ F[s] = IF s = {} THEN 0 ELSE f[Pick(s)] + F[s \ {Pick(s)}]
        /\ G[s] = IF s = {} THEN 0 ELSE g[Pick(s)] + G[s \ {Pick(s)}]
    BY <1>1, <1>2 DEF Sums
  <2>5. s # {}
    BY <2>3, <2>4
  <2> DEFINE t == s \ {Pick(s)}
  <2>6. k \in Nat /\ s \in UpTo(S, k)
    BY <2>3 DEF UpTo
  <2>7. Pick(s) \in s /\ t \in SUBSET S /\ Cardinality(t) = k - 1 /\ k # 0
    BY <2>3, <2>5, <2>6, WithoutPick DEF UpTo
  <2>8. Right(t)
    <3>1. k - 1 \in Nat /\ ~(k <= k - 1)
      BY <2>6, <2>7
    <3> HIDE DEF Right, t
    <3> QED BY <2>2, <2>7, <3>1
  <2>9. F[t] \in Nat /\ G[t] \in Nat /\ f[x] \in Nat /\ g[x] \in Nat
    BY <1>3, <2>7
  <2>10. CASE Pick(s) = x
    <3>1. G[t] = F[t] /\ x \in s /\ F[s] = f[x] + F[t] /\ G[s] = g[x] + G[t]
      BY <2>4, <2>5, <2>7, <2>8, <2>10
    <3> QED BY <2>3, <2>9, <3>1
  <2>11. CASE Pick(s) # x
    <3>1. /\ x \in t <=> x \in s
          /\ g[Pick(s)] = f[Pick(s)] /\ f[Pick(s)] \in Nat
          /\ F[s] = f[Pick(s)] + F[t] /\ G[s] = f[Pick(s)] + G[t]
      BY <2>3, <2>4, <2>5, <2>7, <2>11
    <3> QED BY <2>3, <2>8, <2>9, <3>1
  <2> QED BY <2>10, <2>11
<1>5. Right(S)
  <2>1. Cardinality(S) \in Nat
    BY FS_CardinalityType
  <2> HIDE DEF Right
  <2> QED BY <1>4, <2>1
<1> QED BY <1>1, <1>2, <1>5

-----------------------------------------------------------------------------
(* Memory.  What a request was admitted with stays what it was until the   *)
(* request is answered, whoever comes and goes meanwhile.                  *)

Steps == {"idle", "waiting", "loading", "decoding", "answered", "lost"}

MemoryInv ==
    /\ step \in [Requests -> Steps] /\ status \in [Requests -> Nat]
    /\ size \in [Requests -> Nat] /\ seen \in [Requests -> Nat]
    /\ others \in Nat /\ pcm \in Nat /\ spans \in Nat
    /\ holder \in Requests \cup {None}

\* The estimate a request was admitted by.
Admitted(r) ==
    step[r] \in {"waiting", "loading", "decoding"} =>
        size[r] + seen[r] + Estimate(size[r]) <= Ram

AdmitInv == MemoryInv /\ \A r \in Requests : Admitted(r)

\* Estimates are natural numbers.
LEMMA EstimateType == ASSUME NEW b \in Nat PROVE Estimate(b) \in Nat
<1>1. b * Expansion \in Nat /\ MaxPcm \in Nat /\ Fixed \in Nat
  BY ApiAssumption DEF ApiAssumption
<1>2. Lesser(b * Expansion, MaxPcm) \in Nat
  BY <1>1 DEF Lesser
<1> QED BY <1>1, <1>2 DEF Estimate

\* So is what is taken.
LEMMA TakenType == ASSUME MemoryInv PROVE Taken \in Nat /\ Bodies \in Nat
<1>1. pcm \in Nat /\ spans \in Nat /\ SpanRam \in Nat /\ Cache \in Nat
  BY ApiAssumption DEF ApiAssumption, MemoryInv
<1>2. spans * SpanRam \in Nat
  BY <1>1
<1>3. Taken \in Nat
  BY <1>1, <1>2 DEF Taken
<1>4. Bodies \in Nat
  BY SumIsNatural, ApiAssumption DEF ApiAssumption, MemoryInv, Bodies
<1> QED BY <1>3, <1>4

\* A body that passes both checks fits the board with its estimate.
LEMMA VerdictFits ==
  ASSUME MemoryInv, NEW b \in BodySizes, Verdict(b) = 0
  PROVE  b + others + Estimate(b) <= Ram
<1>1. b \in Nat /\ Ram \in Nat /\ others \in Nat
  BY ApiAssumption DEF ApiAssumption, MemoryInv
<1>2. Estimate(b) \in Nat /\ Taken \in Nat /\ Bodies \in Nat
  BY <1>1, EstimateType, TakenType
<1>3. ~(Ram - others - Bodies - Taken - b < Estimate(b))
  BY DEF Verdict, Free
<1> QED BY <1>1, <1>2, <1>3

\* Nobody has been admitted at first.
LEMMA AdmitInit == Init => AdmitInv
<1> SUFFICES ASSUME Init PROVE AdmitInv
  OBVIOUS
<1>1. /\ others \in OtherUses /\ OtherUses \subseteq Nat
      /\ step = [r \in Requests |-> "idle"]
      /\ status = [r \in Requests |-> 0] /\ size = [r \in Requests |-> 0]
      /\ seen = [r \in Requests |-> 0]
      /\ holder = None /\ pcm = 0 /\ spans = 0
  BY ApiAssumption DEF ApiAssumption, Init
<1>2. MemoryInv
  BY <1>1 DEF MemoryInv, Steps
<1>3. \A r \in Requests : Admitted(r)
  BY <1>1 DEF Admitted
<1> QED BY <1>2, <1>3 DEF AdmitInv

\* Every step keeps what the requests under way were admitted with.
LEMMA AdmitStep == AdmitInv /\ [Next]_vars => AdmitInv'
<1> SUFFICES ASSUME AdmitInv, [Next]_vars PROVE AdmitInv'
  OBVIOUS
<1>1. MemoryInv /\ \A r \in Requests : Admitted(r)
  BY DEF AdmitInv
\* A request keeps or loses its body, and is never admitted again.
<1>2. ASSUME NEW q \in Requests, UNCHANGED <<size, seen>>,
             \/ step'[q] = step[q]
             \/ step[q] \in {"waiting", "loading", "decoding"}
             \/ step'[q] \notin {"waiting", "loading", "decoding"}
      PROVE  Admitted(q)'
  BY <1>1, <1>2 DEF Admitted, Estimate
<1>3. ASSUME NEW r \in Requests, NEW s \in Nat, Leave(r, s),
             UNCHANGED others
      PROVE  AdmitInv'
  <2>1. /\ step' = [step EXCEPT ![r] = "answered"]
        /\ status' = [status EXCEPT ![r] = s]
        /\ size' = [size EXCEPT ![r] = 0] /\ seen' = [seen EXCEPT ![r] = 0]
        /\ holder' = None /\ pcm' = 0 /\ spans' = 0
    BY <1>3 DEF Leave
  <2>2. MemoryInv'
    BY <1>1, <1>3, <2>1 DEF MemoryInv, Steps
  <2>3. ASSUME NEW q \in Requests PROVE Admitted(q)'
    <3>1. CASE q = r
      BY <1>1, <2>1, <3>1 DEF Admitted, MemoryInv
    <3>2. CASE q # r
      <4>1. step'[q] = step[q] /\ size'[q] = size[q] /\ seen'[q] = seen[q]
        BY <1>1, <1>3, <2>1, <3>2 DEF MemoryInv
      <4> QED BY <1>1, <4>1 DEF Admitted, Estimate
    <3> QED BY <3>1, <3>2
  <2> QED BY <2>2, <2>3 DEF AdmitInv
<1>4. ASSUME NEW r \in Requests, Refuse(r) PROVE AdmitInv'
  <2>1. /\ step' = [step EXCEPT ![r] = "answered"]
        /\ UNCHANGED <<size, seen, holder, pcm, spans, others>>
    BY <1>4 DEF Refuse, work
  <2>2. status' \in [Requests -> Nat]
    BY <1>1, <1>4 DEF Refuse, MemoryInv
  <2>3. MemoryInv'
    BY <1>1, <2>1, <2>2 DEF MemoryInv, Steps
  <2>4. \A q \in Requests : Admitted(q)'
    BY <1>1, <1>2, <2>1 DEF MemoryInv
  <2> QED BY <2>3, <2>4 DEF AdmitInv
<1>5. ASSUME NEW r \in Requests, Upload(r) PROVE AdmitInv'
  <2>1. PICK b \in BodySizes :
            /\ \/ status' = [status EXCEPT ![r] = Verdict(b)]
               \/ Verdict(b) = 0 /\ status' = [status EXCEPT ![r] = 500]
            /\ IF status'[r] = 0
               THEN /\ step' = [step EXCEPT ![r] = "waiting"]
                    /\ size' = [size EXCEPT ![r] = b]
                    /\ seen' = [seen EXCEPT ![r] = others]
               ELSE /\ step' = [step EXCEPT ![r] = "answered"]
                    /\ UNCHANGED <<size, seen>>
    BY <1>5 DEF Upload
  <2>2. UNCHANGED <<holder, pcm, spans, others>>
    BY <1>5 DEF Upload, work
  <2>3. b \in Nat /\ Verdict(b) \in Nat
    BY ApiAssumption DEF ApiAssumption, Verdict
  <2>4. status' \in [Requests -> Nat]
    BY <1>1, <2>1, <2>3 DEF MemoryInv
  <2>5. CASE status'[r] # 0
    <3>1. step' = [step EXCEPT ![r] = "answered"] /\ UNCHANGED <<size, seen>>
      BY <2>1, <2>5
    <3>2. MemoryInv'
      BY <1>1, <2>2, <2>4, <3>1 DEF MemoryInv, Steps
    <3>3. ASSUME NEW q \in Requests PROVE Admitted(q)'
      <4>1. CASE q = r
        BY <1>1, <3>1, <4>1 DEF Admitted, MemoryInv
      <4>2. CASE q # r
        <5>1. step'[q] = step[q] /\ size'[q] = size[q] /\ seen'[q] = seen[q]
          BY <1>1, <2>2, <3>1, <4>2 DEF MemoryInv
        <5> QED BY <1>1, <5>1 DEF Admitted, Estimate
      <4> QED BY <4>1, <4>2
    <3> QED BY <3>2, <3>3 DEF AdmitInv
  <2>6. CASE status'[r] = 0
    <3>1. /\ step' = [step EXCEPT ![r] = "waiting"]
          /\ size' = [size EXCEPT ![r] = b]
          /\ seen' = [seen EXCEPT ![r] = others]
      BY <2>1, <2>6
    <3>2. Verdict(b) = 0
      BY <1>1, <2>1, <2>6 DEF MemoryInv
    <3>3. MemoryInv'
      BY <1>1, <2>2, <2>3, <2>4, <3>1 DEF MemoryInv, Steps
    <3>4. ASSUME NEW q \in Requests PROVE Admitted(q)'
      <4>1. CASE q = r
        <5>1. size'[r] = b /\ seen'[r] = others
          BY <1>1, <2>2, <3>1 DEF MemoryInv
        <5>2. b + others + Estimate(b) <= Ram
          BY <1>1, <3>2, VerdictFits
        <5> QED BY <4>1, <5>1, <5>2 DEF Admitted, Estimate
      <4>2. CASE q # r
        <5>1. step'[q] = step[q] /\ size'[q] = size[q] /\ seen'[q] = seen[q]
          BY <1>1, <2>2, <3>1, <4>2 DEF MemoryInv
        <5> QED BY <1>1, <5>1 DEF Admitted, Estimate
      <4> QED BY <4>1, <4>2
    <3> QED BY <3>3, <3>4 DEF AdmitInv
  <2> QED BY <2>5, <2>6
<1>6. ASSUME NEW r \in Requests, Acquire(r) PROVE AdmitInv'
  <2>1. /\ step[r] = "waiting" /\ holder' = r
        /\ step' = [step EXCEPT ![r] = "loading"]
        /\ UNCHANGED <<status, size, seen, pcm, spans, others>>
    BY <1>6 DEF Acquire, work
  <2>2. MemoryInv'
    BY <1>1, <2>1 DEF MemoryInv, Steps
  <2>3. \A q \in Requests : Admitted(q)'
    BY <1>1, <1>2, <2>1 DEF MemoryInv
  <2> QED BY <2>2, <2>3 DEF AdmitInv
<1>7. ASSUME NEW r \in Requests, Loaded(r) PROVE AdmitInv'
  <2>1. /\ step[r] = "loading" /\ pcm' \in Nat
        /\ step' = [step EXCEPT ![r] = "decoding"]
        /\ UNCHANGED <<status, size, seen, holder, spans, others>>
    BY <1>7, ApiAssumption DEF ApiAssumption, Loaded
  <2>2. MemoryInv'
    BY <1>1, <2>1 DEF MemoryInv, Steps
  <2>3. \A q \in Requests : Admitted(q)'
    BY <1>1, <1>2, <2>1 DEF MemoryInv
  <2> QED BY <2>2, <2>3 DEF AdmitInv
<1>8. ASSUME NEW r \in Requests, LoadRaises(r) \/ DecodeEnds(r) PROVE AdmitInv'
  BY <1>3, <1>8 DEF LoadRaises, DecodeEnds
<1>9. ASSUME NEW r \in Requests, KeepSpan(r) PROVE AdmitInv'
  <2>1. /\ spans' = spans + 1
        /\ UNCHANGED <<step, status, size, seen, holder, pcm, others>>
    BY <1>9 DEF KeepSpan
  <2>2. MemoryInv'
    BY <1>1, <2>1 DEF MemoryInv
  <2>3. \A q \in Requests : Admitted(q)'
    BY <1>2, <2>1
  <2> QED BY <2>2, <2>3 DEF AdmitInv
<1>10. CASE OthersChange
  <2>1. /\ others' \in Nat
        /\ UNCHANGED <<step, status, size, seen, holder, pcm, spans>>
    BY <1>10, ApiAssumption DEF ApiAssumption, OthersChange, work
  <2>2. MemoryInv'
    BY <1>1, <2>1 DEF MemoryInv
  <2>3. \A q \in Requests : Admitted(q)'
    BY <1>2, <2>1
  <2> QED BY <2>2, <2>3 DEF AdmitInv
<1>11. CASE Killed
  <2>1. /\ step' = [r \in Requests |->
                        IF step[r] \in {"idle", "answered"} THEN step[r]
                        ELSE "lost"]
        /\ size' = [r \in Requests |-> 0] /\ seen' = [r \in Requests |-> 0]
        /\ holder' = None /\ pcm' = 0 /\ spans' = 0
        /\ UNCHANGED <<status, others>>
    BY <1>11 DEF Killed
  <2>2. MemoryInv'
    BY <1>1, <2>1 DEF MemoryInv, Steps
  <2>3. \A q \in Requests : Admitted(q)'
    BY <2>1 DEF Admitted
  <2> QED BY <2>2, <2>3 DEF AdmitInv
<1>12. ASSUME UNCHANGED <<step, status, size, seen, holder, work, others>>
       PROVE  AdmitInv'
  <2>1. MemoryInv'
    BY <1>1, <1>12 DEF MemoryInv, work
  <2>2. \A q \in Requests : Admitted(q)'
    BY <1>2, <1>12
  <2> QED BY <2>1, <2>2 DEF AdmitInv
<1>13. ASSUME NEW r \in Requests, LoadStep(r) PROVE AdmitInv'
  BY <1>12, <1>13 DEF LoadStep
<1>14. CASE UNCHANGED vars
  BY <1>12, <1>14 DEF vars
<1> QED
  BY <1>4, <1>5, <1>6, <1>7, <1>8, <1>9, <1>10, <1>11, <1>13, <1>14
     DEF Next, Thread

-----------------------------------------------------------------------------
(* The queue for the lock.                                                 *)

QueueInv ==
    /\ waiters \in Seq(Requests)
    /\ \A i \in 1 .. Len(waiters) : step[waiters[i]] = "waiting"
    /\ \A i, j \in 1 .. Len(waiters) : waiters[i] = waiters[j] => i = j
    /\ \A r \in Requests :
           /\ step[r] = "waiting" => \E i \in 1 .. Len(waiters) : waiters[i] = r
           /\ step[r] \in {"loading", "decoding"} => r = holder
           /\ step[r] \notin {"waiting", "loading", "decoding"} => size[r] = 0

\* Nobody waits at first.
LEMMA QueueInit == Init => QueueInv
<1> SUFFICES ASSUME Init PROVE QueueInv
  OBVIOUS
<1>1. /\ step = [r \in Requests |-> "idle"] /\ size = [r \in Requests |-> 0]
      /\ waiters = <<>>
  BY DEF Init
<1>2. waiters \in Seq(Requests) /\ Len(waiters) = 0
  BY <1>1
<1> QED BY <1>1, <1>2 DEF QueueInv

\* Every step keeps those who wait in the queue, and the lock with one.
LEMMA QueueStep == MemoryInv /\ QueueInv /\ [Next]_vars => QueueInv'
<1> SUFFICES ASSUME MemoryInv, QueueInv, [Next]_vars PROVE QueueInv'
  OBVIOUS
<1>1. /\ step \in [Requests -> Steps] /\ size \in [Requests -> Nat]
      /\ waiters \in Seq(Requests)
      /\ \A i \in 1 .. Len(waiters) :
             waiters[i] \in Requests /\ step[waiters[i]] = "waiting"
  BY DEF MemoryInv, QueueInv
<1>2. Len(waiters) \in Nat /\ holder \in Requests \cup {None}
  BY <1>1 DEF MemoryInv
\* A step that leaves the queue alone, and of the steps at most one that is
\* not "waiting", before or after.
<1>3. ASSUME UNCHANGED waiters, step' \in [Requests -> Steps],
             \A q \in Requests :
                 /\ step[q] = "waiting" <=> step'[q] = "waiting"
                 /\ step'[q] \in {"loading", "decoding"} => q = holder'
                 /\ step'[q] \notin {"waiting", "loading", "decoding"}
                        => size'[q] = 0
      PROVE  QueueInv'
  <2>1. \A i \in 1 .. Len(waiters) : step'[waiters[i]] = "waiting"
    BY <1>1, <1>3
  <2> QED BY <1>3, <2>1 DEF QueueInv
<1>4. ASSUME NEW r \in Requests, NEW s,
             step[r] \in {"loading", "decoding"}, Leave(r, s), UNCHANGED waiters
      PROVE  QueueInv'
  <2>1. /\ step' = [step EXCEPT ![r] = "answered"]
        /\ size' = [size EXCEPT ![r] = 0]
    BY <1>4 DEF Leave
  <2>2. ASSUME NEW q \in Requests
        PROVE  /\ step[q] = "waiting" <=> step'[q] = "waiting"
               /\ step'[q] \in {"loading", "decoding"} => q = holder'
               /\ step'[q] \notin {"waiting", "loading", "decoding"}
                      => size'[q] = 0
    <3>1. CASE q = r
      BY <1>1, <1>4, <2>1, <3>1
    <3>2. CASE q # r
      <4>1. step'[q] = step[q] /\ size'[q] = size[q]
        BY <1>1, <2>1, <3>2
      <4>2. step[q] \notin {"loading", "decoding"}
        BY <1>4, <3>2 DEF QueueInv
      <4> QED BY <4>1, <4>2 DEF QueueInv
    <3> QED BY <3>1, <3>2
  <2>3. step' \in [Requests -> Steps]
    BY <1>1, <2>1 DEF Steps
  <2> QED BY <1>3, <1>4, <2>2, <2>3
<1>5. ASSUME NEW r \in Requests, step[r] = "idle", UNCHANGED <<size, holder, waiters>>,
             step' = [step EXCEPT ![r] = "answered"]
      PROVE  QueueInv'
  <2>1. ASSUME NEW q \in Requests
        PROVE  /\ step[q] = "waiting" <=> step'[q] = "waiting"
               /\ step'[q] \in {"loading", "decoding"} => q = holder'
               /\ step'[q] \notin {"waiting", "loading", "decoding"}
                      => size'[q] = 0
    <3>1. CASE q = r
      BY <1>1, <1>5, <3>1 DEF QueueInv
    <3>2. CASE q # r
      <4>1. step'[q] = step[q]
        BY <1>1, <1>5, <3>2
      <4> QED BY <1>5, <4>1 DEF QueueInv
    <3> QED BY <3>1, <3>2
  <2>2. step' \in [Requests -> Steps]
    BY <1>1, <1>5 DEF Steps
  <2> QED BY <1>3, <1>5, <2>1, <2>2
<1>6. ASSUME NEW r \in Requests, Upload(r) PROVE QueueInv'
  <2>1. CASE status'[r] # 0
    BY <1>5, <1>6, <2>1 DEF Upload
  <2>2. CASE status'[r] = 0
    <3>1. PICK b \in BodySizes : size' = [size EXCEPT ![r] = b]
      BY <1>6, <2>2 DEF Upload
    <3>2. /\ step' = [step EXCEPT ![r] = "waiting"]
          /\ waiters' = Append(waiters, r)
          /\ UNCHANGED holder /\ step[r] = "idle"
      BY <1>6, <2>2 DEF Upload
    <3>3. /\ waiters' \in Seq(Requests) /\ Len(waiters') = Len(waiters) + 1
          /\ waiters'[Len(waiters) + 1] = r
          /\ \A i \in 1 .. Len(waiters) : waiters'[i] = waiters[i]
      BY <1>1, <3>2
    <3>4. \A i \in 1 .. Len(waiters) : waiters[i] # r
      BY <1>1, <3>2
    <3>5. \A i \in 1 .. Len(waiters') :
              i \in 1 .. Len(waiters) \/ i = Len(waiters) + 1
      BY <1>2, <3>3
    <3>6. \A i \in 1 .. Len(waiters') : step'[waiters'[i]] = "waiting"
      BY <1>1, <3>2, <3>3, <3>5
    <3>7. \A i, j \in 1 .. Len(waiters') : waiters'[i] = waiters'[j] => i = j
      BY <3>3, <3>4, <3>5 DEF QueueInv
    <3>8. ASSUME NEW q \in Requests
          PROVE  /\ step'[q] = "waiting"
                        => \E i \in 1 .. Len(waiters') : waiters'[i] = q
                 /\ step'[q] \in {"loading", "decoding"} => q = holder'
                 /\ step'[q] \notin {"waiting", "loading", "decoding"}
                        => size'[q] = 0
      <4>1. CASE q = r
        <5>1. step'[q] = "waiting"
          BY <1>1, <3>2, <4>1
        <5>2. Len(waiters) + 1 \in 1 .. Len(waiters')
          BY <1>2, <3>3
        <5> QED BY <3>3, <4>1, <5>1, <5>2
      <4>2. CASE q # r
        <5>1. step'[q] = step[q] /\ size'[q] = size[q]
          BY <1>1, <3>1, <3>2, <4>2
        <5>2. \A i \in 1 .. Len(waiters) : i \in 1 .. Len(waiters')
          BY <1>2, <3>3
        <5>3. step[q] = "waiting" => \E i \in 1 .. Len(waiters) : waiters[i] = q
          BY DEF QueueInv
        <5>4. step'[q] = "waiting"
                  => \E i \in 1 .. Len(waiters') : waiters'[i] = q
          BY <3>3, <5>1, <5>2, <5>3
        <5> QED BY <3>2, <5>1, <5>4 DEF QueueInv
      <4> QED BY <4>1, <4>2
    <3> QED BY <3>3, <3>6, <3>7, <3>8 DEF QueueInv
  <2> QED BY <2>1, <2>2
<1>7. ASSUME NEW r \in Requests, Acquire(r) PROVE QueueInv'
  <2>1. /\ step[r] = "waiting" /\ holder = None /\ Head(waiters) = r
        /\ holder' = r /\ waiters' = Tail(waiters)
        /\ step' = [step EXCEPT ![r] = "loading"] /\ UNCHANGED size
    BY <1>7 DEF Acquire
  <2>2. waiters # <<>>
    <3>1. PICK i \in 1 .. Len(waiters) : waiters[i] = r
      BY <2>1 DEF QueueInv
    <3> QED BY <1>1, <3>1
  <2>3. /\ waiters' \in Seq(Requests) /\ Len(waiters') = Len(waiters) - 1
        /\ waiters[1] = r
        /\ \A i \in 1 .. Len(waiters') : waiters'[i] = waiters[i + 1]
    BY <1>1, <2>1, <2>2
  <2>4. \A i \in 1 .. Len(waiters') : i + 1 \in 1 .. Len(waiters) /\ i + 1 # 1
    BY <1>2, <2>3
  <2>5. ASSUME NEW i \in 1 .. Len(waiters') PROVE waiters'[i] # r
    <3>1. 1 \in 1 .. Len(waiters)
      BY <1>2, <2>3
    <3> QED BY <2>3, <2>4, <3>1 DEF QueueInv
  <2>6. \A i \in 1 .. Len(waiters') : step'[waiters'[i]] = "waiting"
    BY <1>1, <2>1, <2>3, <2>4, <2>5
  <2>7. \A i, j \in 1 .. Len(waiters') : waiters'[i] = waiters'[j] => i = j
    BY <2>3, <2>4 DEF QueueInv
  <2>8. ASSUME NEW q \in Requests
        PROVE  /\ step'[q] = "waiting"
                      => \E i \in 1 .. Len(waiters') : waiters'[i] = q
               /\ step'[q] \in {"loading", "decoding"} => q = holder'
               /\ step'[q] \notin {"waiting", "loading", "decoding"}
                      => size'[q] = 0
    <3>1. CASE q = r
      BY <1>1, <2>1, <3>1
    <3>2. CASE q # r
      <4>1. step'[q] = step[q] /\ size'[q] = size[q]
        BY <1>1, <2>1, <3>2
      <4>2. step[q] \notin {"loading", "decoding"}
        <5>1. q # None
          BY ApiAssumption DEF ApiAssumption
        <5> QED BY <2>1, <5>1 DEF QueueInv
      <4>3. ASSUME step[q] = "waiting"
            PROVE  \E i \in 1 .. Len(waiters') : waiters'[i] = q
        <5>1. PICK k \in 1 .. Len(waiters) : waiters[k] = q
          BY <4>3 DEF QueueInv
        <5>2. k # 1
          BY <2>3, <3>2, <5>1
        <5>3. k - 1 \in 1 .. Len(waiters') /\ (k - 1) + 1 = k
          BY <1>2, <2>3, <5>1, <5>2
        <5> QED BY <2>3, <5>1, <5>3
      <4> QED BY <4>1, <4>2, <4>3 DEF QueueInv
    <3> QED BY <3>1, <3>2
  <2> QED BY <2>3, <2>6, <2>7, <2>8 DEF QueueInv
<1>8. ASSUME NEW r \in Requests, Loaded(r) PROVE QueueInv'
  <2>1. /\ step[r] = "loading" /\ step' = [step EXCEPT ![r] = "decoding"]
        /\ UNCHANGED <<size, waiters, holder>>
    BY <1>8 DEF Loaded
  <2>2. ASSUME NEW q \in Requests
        PROVE  /\ step[q] = "waiting" <=> step'[q] = "waiting"
               /\ step'[q] \in {"loading", "decoding"} => q = holder'
               /\ step'[q] \notin {"waiting", "loading", "decoding"}
                      => size'[q] = 0
    <3>1. CASE q = r
      BY <1>1, <2>1, <3>1 DEF QueueInv
    <3>2. CASE q # r
      <4>1. step'[q] = step[q]
        BY <1>1, <2>1, <3>2
      <4> QED BY <2>1, <4>1 DEF QueueInv
    <3> QED BY <3>1, <3>2
  <2>3. step' \in [Requests -> Steps]
    BY <1>1, <2>1 DEF Steps
  <2> QED BY <1>3, <2>1, <2>2, <2>3
<1>9. CASE Killed
  <2>1. /\ step' = [r \in Requests |->
                        IF step[r] \in {"idle", "answered"} THEN step[r]
                        ELSE "lost"]
        /\ size' = [r \in Requests |-> 0] /\ waiters' = <<>>
    BY <1>9 DEF Killed
  <2>2. waiters' \in Seq(Requests) /\ Len(waiters') = 0
    BY <2>1
  <2>3. \A q \in Requests :
            step'[q] \notin {"waiting", "loading", "decoding"} /\ size'[q] = 0
    BY <2>1
  <2> QED BY <2>2, <2>3 DEF QueueInv
<1>10. ASSUME UNCHANGED <<step, size, waiters, holder>> PROVE QueueInv'
  BY <1>10 DEF QueueInv
<1>11. ASSUME NEW r \in Requests,
              Refuse(r) \/ Upload(r) \/ Thread(r) \/ KeepSpan(r)
       PROVE  QueueInv'
  <2>1. CASE Refuse(r)
    BY <1>5, <2>1 DEF Refuse
  <2>2. CASE LoadStep(r) \/ KeepSpan(r)
    BY <1>10, <2>2 DEF LoadStep, KeepSpan
  <2>3. CASE LoadRaises(r) \/ DecodeEnds(r)
    BY <1>4, <2>3 DEF LoadRaises, DecodeEnds
  <2> QED BY <1>6, <1>7, <1>8, <1>11, <2>1, <2>2, <2>3 DEF Thread
<1>12. CASE OthersChange
  BY <1>10, <1>12 DEF OthersChange
<1>13. CASE UNCHANGED vars
  BY <1>10, <1>13 DEF vars
<1> QED BY <1>9, <1>11, <1>12, <1>13 DEF Next

-----------------------------------------------------------------------------
(* Who was admitted last, and the bodies since.                            *)

LastInv ==
    waiters # <<>> =>
        LET last == waiters[Len(waiters)]
        IN  seen[last] + Bodies + Estimate(size[last]) <= Ram

\* One body changes from nothing, or to nothing.
LEMMA OneBody ==
  ASSUME NEW r \in Requests,
         NEW old \in [Requests -> Nat], NEW new \in [Requests -> Nat],
         \A q \in Requests \ {r} : new[q] = old[q]
  PROVE  /\ Total(old) \in Nat /\ Total(new) \in Nat
         /\ old[r] = 0 => Total(new) = Total(old) + new[r]
         /\ new[r] = 0 => /\ Total(old) = Total(new) + old[r]
                          /\ Total(new) <= Total(old)
<1>1. IsFiniteSet(Requests)
  BY ApiAssumption DEF ApiAssumption
<1>2. /\ Total(old) \in Nat /\ Total(new) \in Nat
      /\ old[r] \in Nat /\ new[r] \in Nat
  BY <1>1, SumIsNatural
<1>3. Total(new) + old[r] = Total(old) + new[r]
  BY <1>1, <1>2, SumOfChanged
<1> QED BY <1>2, <1>3

\* Nobody waits at first.
LEMMA LastInit == Init => LastInv
BY DEF Init, LastInv

\* Every step keeps room for the last of the queue, or makes another the last.
LEMMA LastStep ==
  MemoryInv /\ QueueInv /\ LastInv /\ [Next]_vars => LastInv'
<1> SUFFICES ASSUME MemoryInv, QueueInv, LastInv, [Next]_vars PROVE LastInv'
  OBVIOUS
<1>1. /\ waiters \in Seq(Requests)
      /\ \A i \in 1 .. Len(waiters) :
             waiters[i] \in Requests /\ step[waiters[i]] = "waiting"
  BY DEF QueueInv
<1>2. /\ step \in [Requests -> Steps]
      /\ size \in [Requests -> Nat] /\ seen \in [Requests -> Nat]
      /\ Len(waiters) \in Nat
  BY <1>1 DEF MemoryInv
<1>3. /\ Bodies \in Nat /\ Taken \in Nat /\ Ram \in Nat /\ others \in Nat
      /\ \A b \in Nat : Estimate(b) \in Nat
  BY TakenType, EstimateType, ApiAssumption DEF ApiAssumption, MemoryInv
<1>4. ASSUME UNCHANGED <<size, seen, waiters>> PROVE LastInv'
  <2>1. Bodies' = Bodies
    <3>1. size' = size
      BY <1>4
    <3> QED BY <3>1 DEF Bodies
  <2> QED BY <1>4, <2>1 DEF LastInv, Estimate
<1>5. ASSUME NEW r \in Requests, Upload(r) PROVE LastInv'
  <2>1. CASE status'[r] # 0
    BY <1>4, <1>5, <2>1 DEF Upload
  <2>2. CASE status'[r] = 0
    <3>1. PICK b \in BodySizes :
              /\ \/ status' = [status EXCEPT ![r] = Verdict(b)]
                 \/ Verdict(b) = 0
              /\ size' = [size EXCEPT ![r] = b]
      BY <1>5, <2>2 DEF Upload
    <3>2. /\ waiters' = Append(waiters, r) /\ step[r] = "idle"
          /\ seen' = [seen EXCEPT ![r] = others]
      BY <1>5, <2>2 DEF Upload
    <3>3. b \in Nat
      BY ApiAssumption DEF ApiAssumption
    <3>4. Verdict(b) = 0
      BY <2>2, <3>1 DEF MemoryInv
    <3>5. others + Bodies + b + Estimate(b) <= Ram
      <4>1. ~(Ram - others - Bodies - Taken - b < Estimate(b))
        BY <3>4 DEF Verdict, Free
      <4>2. Estimate(b) \in Nat
        BY <1>3, <3>3
      <4> QED BY <1>3, <3>3, <4>1, <4>2
    <3>6. /\ size[r] = 0 /\ size'[r] = b /\ size' \in [Requests -> Nat]
          /\ \A q \in Requests \ {r} : size'[q] = size[q]
      BY <1>2, <3>1, <3>2, <3>3 DEF QueueInv
    <3>7. Bodies' = Bodies + b
      <4>1. Total(size') = Total(size) + size'[r]
        BY <1>2, <3>6, OneBody
      <4> QED BY <3>6, <4>1 DEF Bodies
    <3>8. /\ waiters'[Len(waiters')] = r
          /\ size'[r] = b /\ seen'[r] = others
      BY <1>1, <1>2, <3>1, <3>2
    <3>9. seen'[r] + Bodies' + Estimate(size'[r]) <= Ram
      <4>1. Estimate(b) \in Nat
        BY <1>3, <3>3
      <4> QED BY <1>3, <3>3, <3>5, <3>7, <3>8, <4>1
    <3> QED BY <3>8, <3>9 DEF LastInv, Estimate
  <2> QED BY <2>1, <2>2
<1>6. ASSUME NEW r \in Requests, Acquire(r) PROVE LastInv'
  <2>1. /\ step[r] = "waiting" /\ waiters' = Tail(waiters)
        /\ UNCHANGED <<size, seen>>
    BY <1>6 DEF Acquire
  <2>2. waiters # <<>>
    <3>1. PICK i \in 1 .. Len(waiters) : waiters[i] = r
      BY <2>1 DEF QueueInv
    <3> QED BY <1>1, <3>1
  <2>3. CASE waiters' = <<>>
    BY <2>3 DEF LastInv
  <2>4. CASE waiters' # <<>>
    <3>1. waiters'[Len(waiters')] = waiters[Len(waiters)]
      BY <1>1, <2>1, <2>2, <2>4
    <3>2. Bodies' = Bodies
      <4>1. size' = size
        BY <2>1
      <4> QED BY <4>1 DEF Bodies
    <3> QED BY <2>1, <2>2, <3>1, <3>2 DEF LastInv, Estimate
  <2> QED BY <2>3, <2>4
<1>7. ASSUME NEW r \in Requests, NEW s, step[r] \in {"loading", "decoding"},
             Leave(r, s), UNCHANGED waiters
      PROVE  LastInv'
  <2>1. CASE waiters = <<>>
    BY <1>7, <2>1 DEF LastInv
  <2>2. CASE waiters # <<>>
    <3> DEFINE last == waiters[Len(waiters)]
    <3>1. last \in Requests /\ last # r
      <4>1. Len(waiters) \in 1 .. Len(waiters)
        BY <1>1, <1>2, <2>2
      <4> QED BY <1>1, <1>7, <4>1
    <3>2. /\ size' = [size EXCEPT ![r] = 0]
          /\ seen' = [seen EXCEPT ![r] = 0]
      BY <1>7 DEF Leave
    <3>3. size'[last] = size[last] /\ seen'[last] = seen[last]
      BY <1>2, <3>1, <3>2
    <3>4. Bodies' \in Nat /\ Bodies' <= Bodies
      <4>1. /\ size'[r] = 0 /\ size' \in [Requests -> Nat]
            /\ \A q \in Requests \ {r} : size'[q] = size[q]
        BY <1>2, <3>2
      <4>2. Total(size') \in Nat /\ Total(size') <= Total(size)
        BY <1>2, <4>1, OneBody
      <4> QED BY <4>2 DEF Bodies
    <3>5. seen[last] + Bodies + Estimate(size[last]) <= Ram
      BY <2>2 DEF LastInv
    <3>6. seen[last] \in Nat /\ Estimate(size[last]) \in Nat
      BY <1>2, <1>3, <3>1
    <3> HIDE DEF last
    <3>7. seen[last] + Bodies' + Estimate(size[last]) <= Ram
      BY <1>3, <3>4, <3>5, <3>6
    <3> QED BY <1>7, <3>3, <3>7 DEF LastInv, Estimate, last
  <2> QED BY <2>1, <2>2
<1>8. CASE Killed
  BY <1>8 DEF Killed, LastInv
<1>9. ASSUME NEW r \in Requests,
             Refuse(r) \/ Upload(r) \/ Thread(r) \/ KeepSpan(r)
      PROVE  LastInv'
  <2>1. CASE Refuse(r) \/ LoadStep(r) \/ Loaded(r) \/ KeepSpan(r)
    BY <1>4, <2>1 DEF Refuse, LoadStep, Loaded, KeepSpan
  <2>2. CASE LoadRaises(r) \/ DecodeEnds(r)
    BY <1>7, <2>2 DEF LoadRaises, DecodeEnds
  <2> QED BY <1>5, <1>6, <1>9, <2>1, <2>2 DEF Thread
<1>10. CASE OthersChange
  BY <1>4, <1>10 DEF OthersChange
<1>11. CASE UNCHANGED vars
  BY <1>4, <1>11 DEF vars
<1> QED BY <1>8, <1>9, <1>10, <1>11 DEF Next

-----------------------------------------------------------------------------
\* A longer upload is estimated to take no less.
LEMMA EstimateGrows ==
  ASSUME NEW a \in Nat, NEW b \in Nat, a <= b
  PROVE  Estimate(a) <= Estimate(b)
<1>1. Expansion \in Nat /\ MaxPcm \in Nat /\ Fixed \in Nat
  BY ApiAssumption DEF ApiAssumption
<1>2. a * Expansion <= b * Expansion
  BY <1>1
<1>3. a * Expansion \in Nat /\ b * Expansion \in Nat
  BY <1>1
<1>4. Lesser(a * Expansion, MaxPcm) <= Lesser(b * Expansion, MaxPcm)
  BY <1>1, <1>2, <1>3 DEF Lesser
<1>5. Lesser(a * Expansion, MaxPcm) \in Nat /\ Lesser(b * Expansion, MaxPcm) \in Nat
  BY <1>1, <1>3 DEF Lesser
<1> QED BY <1>1, <1>4, <1>5 DEF Estimate

\* The body of the one under way is all there is if nobody waits, and the two
\* bodies are if one does.
LEMMA BodiesOfTwo ==
  ASSUME MemoryInv, QueueInv, holder \in Requests, step[holder] = "decoding"
  PROVE  /\ Len(waiters) = 0 => Bodies = size[holder]
         /\ Len(waiters) = 1 => Bodies = size[holder] + size[waiters[1]]
<1> DEFINE alone == [size EXCEPT ![holder] = 0]
<1>1. /\ IsFiniteSet(Requests) /\ size \in [Requests -> Nat]
      /\ waiters \in Seq(Requests)
  BY ApiAssumption DEF ApiAssumption, MemoryInv, QueueInv
<1>2. /\ alone \in [Requests -> Nat] /\ alone[holder] = 0
      /\ \A q \in Requests \ {holder} : alone[q] = size[q]
  BY <1>1
<1> HIDE DEF alone
<1>3. Total(alone) \in Nat /\ Total(size) = Total(alone) + size[holder]
  BY <1>1, <1>2, OneBody
<1>4. Bodies = Total(alone) + size[holder] /\ size[holder] \in Nat
  BY <1>1, <1>3 DEF Bodies
<1>5. \A q \in Requests \ {holder} : step[q] # "waiting" => size[q] = 0
  BY DEF QueueInv
<1>6. ASSUME Len(waiters) = 0 PROVE Bodies = size[holder]
  <2>1. \A q \in Requests : step[q] # "waiting"
    BY <1>6 DEF QueueInv
  <2>2. \A q \in Requests : alone[q] = 0
    BY <1>2, <1>5, <2>1
  <2>3. Total(alone) = 0
    BY <1>1, <1>2, <2>2, SumOfZeros
  <2> QED BY <1>4, <2>3
<1>7. ASSUME Len(waiters) = 1 PROVE Bodies = size[holder] + size[waiters[1]]
  <2> DEFINE w == waiters[1]
             none == [alone EXCEPT ![w] = 0]
  <2>1. w \in Requests /\ step[w] = "waiting" /\ w # holder
    BY <1>1, <1>7 DEF QueueInv
  <2>2. \A q \in Requests : step[q] = "waiting" => q = w
    BY <1>7 DEF QueueInv
  <2> HIDE DEF w
  <2>3. /\ none \in [Requests -> Nat] /\ none[w] = 0
        /\ \A q \in Requests \ {w} : none[q] = alone[q]
    BY <1>2, <2>1
  <2> HIDE DEF none
  <2>4. \A q \in Requests : none[q] = 0
    BY <1>2, <1>5, <2>2, <2>3
  <2>5. Total(none) = 0
    BY <1>1, <2>3, <2>4, SumOfZeros
  <2>6. Total(alone) = Total(none) + alone[w]
    BY <1>2, <2>1, <2>3, OneBody
  <2>7. alone[w] = size[w] /\ size[w] \in Nat
    BY <1>1, <1>2, <2>1
  <2>8. Bodies = size[holder] + size[w]
    BY <1>4, <2>5, <2>6, <2>7
  <2> QED BY <2>8 DEF w
<1> QED BY <1>6, <1>7

\* With right estimates, and other processes that keep to what they had,
\* memory suffices for the request being decoded and the upload of one more
\* (api_server.py 367-374).
THEOREM MemoryForTwo == Spec => []EnoughForTwo
<1>1. AdmitInv /\ QueueInv /\ LastInv => EnoughForTwo
  <2>0. SUFFICES ASSUME AdmitInv, QueueInv, LastInv,
                        holder # None, step[holder] = "decoding",
                        size[holder] + Taken <= Estimate(size[holder]),
                        Len(waiters) <= 1,
                        \A r \in {holder} \cup Range(waiters) : others <= seen[r]
                 PROVE  Free >= 0
    BY DEF EnoughForTwo
  <2>1. MemoryInv /\ holder \in Requests /\ Admitted(holder)
    BY <2>0 DEF AdmitInv, MemoryInv
  <2>2. /\ size[holder] \in Nat /\ seen[holder] \in Nat /\ others \in Nat
        /\ Taken \in Nat /\ Bodies \in Nat
    BY <2>1, TakenType DEF MemoryInv
  <2>3. Estimate(size[holder]) \in Nat /\ Ram \in Nat
    BY <2>2, EstimateType, ApiAssumption DEF ApiAssumption
  <2>4. size[holder] + seen[holder] + Estimate(size[holder]) <= Ram
    BY <2>0, <2>1 DEF Admitted
  <2>5. others <= seen[holder] /\ size[holder] + Taken <= Estimate(size[holder])
    BY <2>0
  <2>6. waiters \in Seq(Requests) /\ Len(waiters) \in Nat
    BY <2>0 DEF QueueInv
  <2>7. CASE Len(waiters) = 0
    <3>1. Bodies = size[holder]
      BY <2>0, <2>1, <2>7, BodiesOfTwo
    <3>2. others + Bodies + Taken <= Ram
      BY <2>2, <2>3, <2>4, <2>5, <3>1
    <3> QED BY <2>2, <2>3, <3>2 DEF Free
  <2>8. CASE Len(waiters) = 1
    <3> DEFINE w == waiters[1]
    <3>1. w \in Requests /\ w \in Range(waiters)
      BY <2>6, <2>8 DEF Range
    <3>2. size[w] \in Nat /\ seen[w] \in Nat /\ others <= seen[w]
      BY <2>0, <2>1, <3>1 DEF MemoryInv
    <3>3. seen[w] + Bodies + Estimate(size[w]) <= Ram
      <4>1. waiters # <<>>
        BY <2>8
      <4> QED BY <2>0, <2>8, <4>1 DEF LastInv
    <3>4. Bodies = size[holder] + size[w]
      BY <2>0, <2>1, <2>8, BodiesOfTwo
    <3>5. Estimate(size[w]) \in Nat
      BY <3>2, EstimateType
    <3> HIDE DEF w
    <3>6. CASE size[w] <= size[holder]
      <4>1. others + Bodies + Taken <= Ram
        BY <2>2, <2>3, <2>4, <2>5, <3>2, <3>4, <3>6
      <4> QED BY <2>2, <2>3, <4>1 DEF Free
    <3>7. CASE ~(size[w] <= size[holder])
      <4>1. Estimate(size[holder]) <= Estimate(size[w])
        BY <2>2, <3>2, <3>7, EstimateGrows
      <4>2. others + Bodies + Taken <= Ram
        BY <2>2, <2>3, <2>5, <3>2, <3>3, <3>5, <4>1
      <4> QED BY <2>2, <2>3, <4>2 DEF Free
    <3> QED BY <3>6, <3>7
  <2>9. Len(waiters) = 0 \/ Len(waiters) = 1
    <3>1. Len(waiters) <= 1
      BY <2>0
    <3>2. Len(waiters) \in Nat
      BY <2>6
    <3> QED BY <3>1, <3>2
  <2> QED BY <2>7, <2>8, <2>9
<1>2. Spec => [](AdmitInv /\ QueueInv /\ LastInv)
  <2>1. Init => AdmitInv /\ QueueInv /\ LastInv
    BY AdmitInit, QueueInit, LastInit
  <2>2. AdmitInv /\ QueueInv /\ LastInv /\ [Next]_vars
            => (AdmitInv /\ QueueInv /\ LastInv)'
    BY AdmitStep, QueueStep, LastStep DEF AdmitInv
  <2> QED BY <2>1, <2>2, PTL DEF Spec
<1> QED BY <1>1, <1>2, PTL
=============================================================================
