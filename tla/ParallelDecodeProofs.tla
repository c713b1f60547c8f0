------------------------ MODULE ParallelDecodeProofs ------------------------
(***************************************************************************)
(* The server around the pool, for every number of workers, requests and   *)
(* chunks: a request that was heard from waits behind no leftovers, nobody *)
(* waits for a pool that is closing, and clients see requests served one   *)
(* at a time and transcripts in order.                                     *)
(*                                                                         *)
(* A step of the composition is a step of its pool or leaves the pool      *)
(* alone, so that what EncoderPoolProofs proves of the pool holds here.    *)
(* The rest of the invariant says                                          *)
(*   LockInv    whose the lock is and who waits for it;                    *)
(*   LoopInv    how far the holder's loop has got;                         *)
(*   OpenInv    that the pool is open while anybody needs it;              *)
(*   FutureInv  which of a request's jobs exist and which are answered;    *)
(*   OrderInv   that the holder's jobs are behind those of others.         *)
(***************************************************************************)
EXTENDS ParallelDecode, TLAPS

PoolProofs == INSTANCE EncoderPoolProofs

USE MaxChunksAssumption, PoolAssumption DEF MaxChunksAssumption, PoolAssumption

Steps == {"idle", "waiting", "loading", "submitting", "awaiting", "decoding",
          "answered"}

TypeInv ==
    /\ serving \in BOOLEAN
    /\ waiters \in Seq(Requests)
    /\ holder \in Requests \cup {None}
    /\ step \in [Requests -> Steps]
    /\ mode \in [Requests -> {"parallel", "serial"}]
    /\ total \in [Requests -> 0..MaxChunks]
    /\ chunk \in [Requests -> 1..MaxChunks]
    /\ heard \in [Requests -> Seq(1..MaxChunks)]
    /\ reply \in [Requests -> {"none", "ok", "failed"}]

\* The lock is held from Acquire to the answer, and nobody waits twice.
LockInv ==
    /\ \A r \in Requests :
           holder = r <=>
               step[r] \in {"loading", "submitting", "awaiting", "decoding"}
    /\ \A r \in Requests :
           step[r] = "waiting" <=> \E i \in 1..Len(waiters) : waiters[i] = r
    /\ \A i, j \in 1..Len(waiters) : waiters[i] = waiters[j] => i = j

\* The holder's loop is at `chunk`, and has heard those before it, unless it is
\* still submitting them all.
LoopInv ==
    \A r \in Requests :
        /\ step[r] \in {"idle", "waiting", "loading"} =>
               total[r] = 0 /\ chunk[r] = 1 /\ heard[r] = <<>>
        /\ step[r] \in {"submitting", "awaiting", "decoding"} =>
               /\ chunk[r] <= total[r]
               /\ IF step[r] = "submitting" /\ mode[r] = "parallel"
                  THEN heard[r] = <<>>
                  ELSE Len(heard[r]) = chunk[r] - 1
        /\ reply[r] = "none" <=> step[r] # "answered"

OpenInv ==
    shutdown =>
        ~serving /\ \A r \in Requests : step[r] \in {"idle", "answered"}

FutureOf(r) ==
    /\ step[r] \in {"idle", "waiting", "loading"} =>
           \A i \in 1..MaxChunks : future[<<r, i>>] = "none"
    /\ step[r] = "submitting" =>
           \A i \in chunk[r]..MaxChunks : future[<<r, i>>] = "none"
    /\ step[r] \in {"awaiting", "decoding"} /\ mode[r] = "serial" =>
           \A i \in (chunk[r] + 1)..MaxChunks : future[<<r, i>>] = "none"
    /\ step[r] = "decoding" => future[<<r, chunk[r]>>] = "result"
    /\ heard[r] # <<>> => \E i \in 1..MaxChunks : future[<<r, i>>] = "result"

FutureInv == \A r \in Requests : FutureOf(r)

\* A job was submitted, and is not in the queue any more.
Departed(j) == future[j] # "none" /\ ~PoolProofs!Queued(j)

OrderOf(r) ==
    /\ \A a, b \in 1..Len(queue) :
           a < b /\ queue[a] # None /\ queue[b] # None =>
               (queue[a][1] = r => queue[b][1] = r)
    /\ (\E i \in 1..MaxChunks : Departed(<<r, i>>)) =>
           \A a \in 1..Len(queue) : queue[a] # None => queue[a][1] = r

OrderInv == \A r \in Requests : holder = r => OrderOf(r)

PoolInv == PoolProofs!TypeOK /\ PoolProofs!OwnerInv /\ PoolProofs!JobInv

RequestInv == TypeInv /\ LockInv /\ LoopInv

IInv == PoolInv /\ RequestInv /\ OpenInv /\ FutureInv /\ OrderInv

-----------------------------------------------------------------------------
(* The pool in the composition. *)

\* What composes the pool are the actions EncoderPoolProofs speaks of.
LEMMA SameInit == Pool!Init => PoolProofs!Init
BY DEF Pool!Init, PoolProofs!Init, Pool!Workers, PoolProofs!Workers

\* A submit.
LEMMA SameSubmit ==
  ASSUME NEW j, Pool!Submit(j)
  PROVE  PoolProofs!Submit(j)
BY DEF Pool!Submit, Pool!Usable, Pool!Put, Pool!ownerVars, Pool!workerVars,
       PoolProofs!Submit, PoolProofs!Usable, PoolProofs!Put,
       PoolProofs!ownerVars, PoolProofs!workerVars

\* The steps of a worker.
LEMMA SameWork ==
  ASSUME NEW w \in Pool!Workers, Pool!Work(w) \/ Pool!FinishJob(w)
  PROVE  PoolProofs!Work(w) \/ PoolProofs!FinishJob(w)
<1>1. CASE Pool!FinishJob(w)
  BY <1>1 DEF Pool!FinishJob, Pool!ownerVars,
              PoolProofs!FinishJob, PoolProofs!ownerVars
<1>2. CASE Pool!GetJob(w)
  BY <1>2 DEF Pool!GetJob, Pool!ownerVars,
              PoolProofs!GetJob, PoolProofs!ownerVars, PoolProofs!Work
<1>3. CASE Pool!GetSentinel(w)
  BY <1>3 DEF Pool!GetSentinel, Pool!ownerVars,
              PoolProofs!GetSentinel, PoolProofs!ownerVars, PoolProofs!Work
<1>4. CASE Pool!EnterGet(w) \/ Pool!SeeShutdown(w) \/ Pool!GetEmpty(w)
  BY <1>4 DEF Pool!EnterGet, Pool!SeeShutdown, Pool!GetEmpty, Pool!ownerVars,
              PoolProofs!EnterGet, PoolProofs!SeeShutdown, PoolProofs!GetEmpty,
              PoolProofs!ownerVars, PoolProofs!Work
<1> QED BY <1>1, <1>2, <1>3, <1>4 DEF Pool!Work

\* The steps of the owner.
LEMMA SameOwner ==
  /\ Pool!Construct => PoolProofs!Construct
  /\ Pool!BeginShutdown => PoolProofs!BeginShutdown
  /\ Pool!CloseDown => PoolProofs!CloseDown
<1>1. Pool!Construct => PoolProofs!Construct
  BY DEF Pool!Construct, Pool!LoadSession, Pool!LoadFails, Pool!StartThread,
         Pool!StartFails, PoolProofs!StartFails,
         Pool!Advance, Pool!ReleaseList, Pool!Workers,
         PoolProofs!Construct, PoolProofs!LoadSession, PoolProofs!LoadFails,
         PoolProofs!StartThread, PoolProofs!Advance, PoolProofs!ReleaseList,
         PoolProofs!Workers
<1>2. Pool!BeginShutdown => PoolProofs!BeginShutdown
  BY DEF Pool!BeginShutdown, Pool!workerVars,
         PoolProofs!BeginShutdown, PoolProofs!workerVars
<1>3. Pool!CloseDown => PoolProofs!CloseDown
  BY DEF Pool!CloseDown, Pool!PutSentinel, Pool!JoinReturns, Pool!JoinExpires,
         Pool!Teardown, Pool!Put, Pool!Advance, Pool!ReleaseList,
         Pool!workerVars, Pool!Workers,
         PoolProofs!CloseDown, PoolProofs!PutSentinel, PoolProofs!JoinReturns,
         PoolProofs!JoinExpires, PoolProofs!Teardown, PoolProofs!Put,
         PoolProofs!Advance, PoolProofs!ReleaseList, PoolProofs!workerVars,
         PoolProofs!Workers
<1> QED BY <1>1, <1>2, <1>3

\* What a step does to the pool: a submit of the job its loop is at, by a
\* request that is submitting; the begin of the shutdown, when nobody is
\* served; a step of the pool's own threads, which the requests do not see;
\* or nothing.
Submits(r) == step[r] = "submitting" /\ PoolProofs!Submit(<<r, chunk[r]>>)

Releases ==
    /\ ~serving /\ \A r \in Requests : step[r] \in {"idle", "answered"}
    /\ PoolProofs!BeginShutdown
    /\ UNCHANGED <<serving, requestVars>>

Runs ==
    /\ \/ PoolProofs!Construct
       \/ \E w \in PoolProofs!Workers :
              PoolProofs!Work(w) \/ PoolProofs!FinishJob(w)
       \/ PoolProofs!CloseDown
    /\ UNCHANGED <<serving, requestVars>>

\* The steps of the pool's threads.
LEMMA PoolRuns == PoolStep => Runs
<1> SUFFICES ASSUME PoolStep PROVE Runs
  OBVIOUS
<1>1. UNCHANGED <<serving, requestVars>>
  BY DEF PoolStep
<1>2. CASE \E w \in Pool!Workers : Pool!Work(w) \/ Pool!FinishJob(w)
  BY <1>1, <1>2, SameWork DEF Runs, Pool!Workers, PoolProofs!Workers
<1>3. CASE Pool!Construct \/ Pool!CloseDown
  BY <1>1, <1>3, SameOwner DEF Runs
<1> QED BY <1>2, <1>3 DEF PoolStep

\* There are no other steps than these.
LEMMA PoolSteps ==
  ASSUME [Next]_vars
  PROVE  \/ \E r \in Requests : Submits(r)
         \/ Releases
         \/ Runs
         \/ UNCHANGED poolVars
<1>1. ASSUME NEW r \in Requests, Arrive(r) \/ Thread(r)
      PROVE  Submits(r) \/ UNCHANGED poolVars
  <2>1. CASE SubmitAll(r)
    BY <2>1, SameSubmit DEF SubmitAll, Submits
  <2>2. CASE SubmitOne(r)
    BY <2>2, SameSubmit DEF SubmitOne, Submits
  <2>3. CASE Arrive(r) \/ Acquire(r) \/ CutAudio(r) \/ EmptyAudio(r)
             \/ RaiseBeforeSubmit(r)
    BY <2>3 DEF Arrive, Acquire, CutAudio, EmptyAudio, RaiseBeforeSubmit
  <2>4. CASE TakeResult(r) \/ TakeError(r) \/ DecodeChunk(r)
             \/ RaiseInDecode(r)
    BY <2>4 DEF TakeResult, TakeError, DecodeChunk, RaiseInDecode
  <2> QED BY <1>1, <2>1, <2>2, <2>3, <2>4 DEF Thread
<1>2. CASE StopServing
  BY <1>2 DEF StopServing
<1>3. CASE ReleaseModel
  BY <1>3, SameOwner DEF ReleaseModel, Releases
<1>4. CASE PoolStep
  BY <1>4, PoolRuns
<1>5. CASE UNCHANGED vars
  BY <1>5 DEF vars
<1> QED BY <1>1, <1>2, <1>3, <1>4, <1>5 DEF Next

\* They are steps of the pool.
LEMMA PoolNext ==
  ASSUME TypeInv, [Next]_vars
  PROVE  [PoolProofs!Next]_(PoolProofs!vars)
<1>1. ASSUME NEW r \in Requests, Submits(r) PROVE PoolProofs!Next
  <2>1. <<r, chunk[r]>> \in Jobs
    BY DEF TypeInv, Jobs
  <2> QED BY <1>1, <2>1 DEF Submits, PoolProofs!Next
<1>2. Releases \/ Runs => PoolProofs!Next
  BY DEF Releases, Runs, PoolProofs!Next
<1>3. UNCHANGED poolVars => UNCHANGED PoolProofs!vars
  BY DEF poolVars, PoolProofs!vars
<1> QED BY <1>1, <1>2, <1>3, PoolSteps

\* So the pool's invariant holds in the composition.
LEMMA PoolStepsKeep == PoolInv /\ TypeInv /\ [Next]_vars => PoolInv'
<1> SUFFICES ASSUME PoolInv, TypeInv, [Next]_vars PROVE PoolInv'
  OBVIOUS
<1>1. NumWorkers \in Nat \ {0} /\ None \notin Jobs
  OBVIOUS
<1>2. [PoolProofs!Next]_(PoolProofs!vars)
  BY PoolNext
<1>3. PoolProofs!TypeOK'
  BY <1>1, <1>2, PoolProofs!TypeStep
     DEF PoolInv, PoolProofs!NumWorkersAssumption, PoolProofs!NoneAssumption
<1>4. PoolProofs!OwnerInv'
  BY <1>1, <1>2, PoolProofs!OwnerStep
     DEF PoolInv, PoolProofs!NumWorkersAssumption, PoolProofs!NoneAssumption
<1>5. PoolProofs!JobInv'
  BY <1>1, <1>2, PoolProofs!JobStep
     DEF PoolInv, PoolProofs!NumWorkersAssumption, PoolProofs!NoneAssumption
<1> QED BY <1>3, <1>4, <1>5 DEF PoolInv

-----------------------------------------------------------------------------
(* Lock and loop. *)

\* Nobody has asked.
LEMMA RequestInit == Init => RequestInv
<1> SUFFICES ASSUME Init PROVE RequestInv
  OBVIOUS
<1>1. /\ serving \in BOOLEAN /\ waiters = <<>> /\ holder = None
      /\ waiters \in Seq(Requests) /\ Len(waiters) = 0
  BY DEF Init
<1>2. /\ step = [r \in Requests |-> "idle"]
      /\ mode = [r \in Requests |-> "serial"]
      /\ total = [r \in Requests |-> 0]
      /\ chunk = [r \in Requests |-> 1]
      /\ reply = [r \in Requests |-> "none"]
  BY DEF Init
<1>3. heard = [r \in Requests |-> <<>>]
  BY DEF Init
<1>4. heard \in [Requests -> Seq(1..MaxChunks)]
  BY <1>3
<1>5. step \in [Requests -> Steps]
  BY <1>2 DEF Steps
<1>6. TypeInv
  BY <1>1, <1>2, <1>4, <1>5 DEF TypeInv
<1>7. LockInv
  BY <1>1, <1>2 DEF LockInv
<1>8. LoopInv
  BY <1>2, <1>3 DEF LoopInv
<1> QED BY <1>6, <1>7, <1>8 DEF RequestInv

\* The holder's place and answer may change, and it may give up the lock.
Leaves(r) ==
    /\ step[r] \in {"loading", "submitting", "awaiting", "decoding"}
    /\ step' = [step EXCEPT ![r] = "answered"]
    /\ \E s \in {"ok", "failed"} : reply' = [reply EXCEPT ![r] = s]
    /\ holder' = None

\* A request that leaves with all it has heard.
LEMMA LeaveStep ==
  ASSUME RequestInv, NEW r \in Requests, Leaves(r),
         UNCHANGED <<serving, waiters, mode, total, chunk>>,
         heard' \in [Requests -> Seq(1..MaxChunks)],
         \A q \in Requests : q # r => heard'[q] = heard[q]
  PROVE  RequestInv'
<1> USE DEF RequestInv, Leaves
<1>1. TypeInv'
  BY DEF TypeInv, Steps
<1>2. LockInv'
  <2>1. /\ step'[r] \in {"answered"}
        /\ step[r] \notin {"idle", "waiting", "answered"} /\ holder = r
        /\ \A q \in Requests : q # r => step'[q] = step[q]
    BY DEF LockInv, TypeInv
  <2>2. \A q \in Requests :
            holder' = q <=>
                step'[q] \in {"loading", "submitting", "awaiting", "decoding"}
    BY <2>1 DEF LockInv
  <2>3. \A q \in Requests : step'[q] = "waiting" <=> step[q] = "waiting"
    BY <2>1
  <2> QED BY <2>2, <2>3 DEF LockInv
<1>3. LoopInv'
  BY DEF LoopInv, TypeInv
<1> QED BY <1>1, <1>2, <1>3

\* A request that goes on, and stays the holder.
LEMMA GoOnStep ==
  ASSUME RequestInv, NEW r \in Requests,
         NEW s \in {"submitting", "awaiting", "decoding"},
         step[r] \in {"loading", "submitting", "awaiting", "decoding"},
         step' = [step EXCEPT ![r] = s],
         UNCHANGED <<serving, waiters, holder, reply>>,
         mode' \in [Requests -> {"parallel", "serial"}],
         total' \in [Requests -> 0..MaxChunks],
         chunk' \in [Requests -> 1..MaxChunks],
         heard' \in [Requests -> Seq(1..MaxChunks)],
         \A q \in Requests : q # r =>
             /\ mode'[q] = mode[q] /\ total'[q] = total[q]
             /\ chunk'[q] = chunk[q] /\ heard'[q] = heard[q],
         chunk'[r] <= total'[r],
         IF s = "submitting" /\ mode'[r] = "parallel" THEN heard'[r] = <<>>
                                     ELSE Len(heard'[r]) = chunk'[r] - 1
  PROVE  RequestInv'
<1> USE DEF RequestInv
<1>1. TypeInv'
  BY DEF TypeInv, Steps
<1>2. LockInv'
  <2>1. /\ step'[r] \in {"loading", "submitting", "awaiting", "decoding"}
        /\ step[r] \notin {"idle", "waiting", "answered"} /\ holder = r
        /\ \A q \in Requests : q # r => step'[q] = step[q]
    <3>1. step \in [Requests -> Steps]
      BY DEF TypeInv
    <3>2. step'[r] = s /\ \A q \in Requests : q # r => step'[q] = step[q]
      BY <3>1
    <3>3. step[r] \notin {"idle", "waiting", "answered"} /\ holder = r
      BY DEF LockInv
    <3> QED BY <3>2, <3>3
  <2>2. \A q \in Requests :
            holder' = q <=>
                step'[q] \in {"loading", "submitting", "awaiting", "decoding"}
    BY <2>1 DEF LockInv
  <2>3. \A q \in Requests : step'[q] = "waiting" <=> step[q] = "waiting"
    BY <2>1
  <2> QED BY <2>2, <2>3 DEF LockInv
<1>3. LoopInv'
  BY DEF LoopInv, TypeInv
<1> QED BY <1>1, <1>2, <1>3

\* A request joins the waiters behind all others.
LEMMA ArriveStep ==
  ASSUME RequestInv, NEW r \in Requests, Arrive(r)
  PROVE  RequestInv'
<1> USE DEF RequestInv
<1>1. /\ step[r] = "idle" /\ step' = [step EXCEPT ![r] = "waiting"]
      /\ waiters' = Append(waiters, r)
      /\ UNCHANGED <<serving, holder, mode, total, chunk, heard, reply>>
  BY DEF Arrive
<1>2. /\ waiters' \in Seq(Requests) /\ Len(waiters) \in Nat
      /\ Len(waiters') = Len(waiters) + 1
      /\ \A i \in 1..Len(waiters) : waiters'[i] = waiters[i]
      /\ waiters'[Len(waiters) + 1] = r
  BY <1>1 DEF TypeInv
<1>3. TypeInv'
  BY <1>1, <1>2 DEF TypeInv, Steps
<1>4. \A i \in 1..Len(waiters) : waiters[i] # r
  BY <1>1 DEF LockInv
<1>5. LockInv'
  <2>1. \A q \in Requests :
            holder' = q <=>
                step'[q] \in {"loading", "submitting", "awaiting", "decoding"}
    BY <1>1 DEF LockInv, TypeInv
  <2>2. ASSUME NEW q \in Requests
        PROVE  step'[q] = "waiting" <=>
                   \E i \in 1..Len(waiters') : waiters'[i] = q
    <3>1. CASE q = r
      <4>1. step'[q] = "waiting"
        BY <1>1, <3>1 DEF TypeInv
      <4>2. Len(waiters) + 1 \in 1..Len(waiters')
        BY <1>2
      <4> QED BY <1>2, <3>1, <4>1, <4>2
    <3>2. CASE q # r
      <4>1. step'[q] = step[q]
        BY <1>1, <3>2 DEF TypeInv
      <4>2. ASSUME NEW i \in 1..Len(waiters'), waiters'[i] = q
            PROVE  i \in 1..Len(waiters) /\ waiters[i] = q
        BY <1>2, <3>2, <4>2
      <4>3. ASSUME NEW i \in 1..Len(waiters), waiters[i] = q
            PROVE  i \in 1..Len(waiters') /\ waiters'[i] = q
        BY <1>2, <4>3
      <4> QED BY <4>1, <4>2, <4>3 DEF LockInv
    <3> QED BY <3>1, <3>2
  <2>3. \A i, j \in 1..Len(waiters') : waiters'[i] = waiters'[j] => i = j
    BY <1>2, <1>4 DEF LockInv
  <2> QED BY <2>1, <2>2, <2>3 DEF LockInv
<1>6. LoopInv'
  BY <1>1 DEF LoopInv, TypeInv
<1> QED BY <1>3, <1>5, <1>6

\* The first of them gets the lock.
LEMMA AcquireStep ==
  ASSUME RequestInv, NEW r \in Requests, Acquire(r)
  PROVE  /\ RequestInv'
         /\ waiters # <<>> /\ Head(waiters) = r /\ waiters' = Tail(waiters)
<1> USE DEF RequestInv
<1>1. /\ step[r] = "waiting" /\ step' = [step EXCEPT ![r] = "loading"]
      /\ holder = None /\ holder' = r
      /\ Head(waiters) = r /\ waiters' = Tail(waiters)
      /\ UNCHANGED <<serving, mode, total, chunk, heard, reply>>
  BY DEF Acquire
<1>2. waiters # <<>>
  BY <1>1 DEF LockInv
<1>3. /\ waiters' \in Seq(Requests) /\ Len(waiters) \in Nat \ {0}
      /\ Len(waiters') = Len(waiters) - 1
      /\ \A i \in 1..(Len(waiters) - 1) : waiters'[i] = waiters[i + 1]
      /\ waiters[1] = r
  BY <1>1, <1>2 DEF TypeInv
<1>4. TypeInv'
  BY <1>1, <1>3 DEF TypeInv, Steps
<1>5. LockInv'
  <2>1. \A q \in Requests :
            holder' = q <=>
                step'[q] \in {"loading", "submitting", "awaiting", "decoding"}
    BY <1>1 DEF LockInv, TypeInv
  <2>2. \A i \in 1..Len(waiters') :
            waiters'[i] # r /\ i + 1 \in 1..Len(waiters)
    BY <1>3 DEF LockInv
  <2>3. ASSUME NEW q \in Requests
        PROVE  step'[q] = "waiting" <=>
                   \E i \in 1..Len(waiters') : waiters'[i] = q
    <3>1. CASE q = r
      BY <1>1, <2>2, <3>1 DEF TypeInv
    <3>2. CASE q # r
      <4>1. step'[q] = step[q]
        BY <1>1, <3>2 DEF TypeInv
      <4>2. ASSUME NEW i \in 1..Len(waiters), waiters[i] = q
            PROVE  \E k \in 1..Len(waiters') : waiters'[k] = q
        <5>1. i # 1
          BY <1>3, <3>2, <4>2
        <5>2. i - 1 \in 1..Len(waiters') /\ waiters'[i - 1] = waiters[i]
          BY <1>3, <5>1
        <5> QED BY <4>2, <5>2
      <4>3. ASSUME NEW i \in 1..Len(waiters'), waiters'[i] = q
            PROVE  \E k \in 1..Len(waiters) : waiters[k] = q
        BY <1>3, <2>2, <4>3
      <4> QED BY <4>1, <4>2, <4>3 DEF LockInv
    <3> QED BY <3>1, <3>2
  <2>4. \A i, j \in 1..Len(waiters') : waiters'[i] = waiters'[j] => i = j
    <3> TAKE i, j \in 1..Len(waiters')
    <3>1. /\ i + 1 \in 1..Len(waiters) /\ j + 1 \in 1..Len(waiters)
          /\ waiters'[i] = waiters[i + 1] /\ waiters'[j] = waiters[j + 1]
      BY <1>3
    <3>2. waiters[i + 1] = waiters[j + 1] => i + 1 = j + 1
      BY <3>1 DEF LockInv
    <3> QED BY <3>1, <3>2
  <2> QED BY <2>1, <2>3, <2>4 DEF LockInv
<1>6. LoopInv'
  BY <1>1 DEF LoopInv, TypeInv
<1> QED BY <1>1, <1>2, <1>4, <1>5, <1>6

\* What each step of a request does, in the terms of these lemmas.
LEMMA RequestSteps ==
  ASSUME RequestInv, NEW r \in Requests, Thread(r)
  PROVE  RequestInv'
<1> USE DEF RequestInv
<1>1. /\ step \in [Requests -> Steps]
      /\ mode \in [Requests -> {"parallel", "serial"}]
      /\ total \in [Requests -> 0..MaxChunks]
      /\ chunk \in [Requests -> 1..MaxChunks]
      /\ heard \in [Requests -> Seq(1..MaxChunks)]
  BY DEF TypeInv
<1>2. CASE Acquire(r)
  BY <1>2, AcquireStep
<1>3. CASE CutAudio(r)
  <2>1. /\ step[r] = "loading" /\ step' = [step EXCEPT ![r] = "submitting"]
        /\ UNCHANGED <<serving, waiters, holder, reply, chunk, heard>>
    BY <1>3 DEF CutAudio
  <2>2. PICK m \in {"parallel", "serial"}, k \in 1..MaxChunks :
            /\ mode' = [mode EXCEPT ![r] = m]
            /\ total' = [total EXCEPT ![r] = k]
    BY <1>3 DEF CutAudio
  <2>3. chunk[r] = 1 /\ heard[r] = <<>>
    BY <2>1 DEF LoopInv
  <2>4. mode' \in [Requests -> {"parallel", "serial"}]
    BY <1>1, <2>2
  <2>5. total' \in [Requests -> 0..MaxChunks] /\ 1 <= total'[r]
    BY <1>1, <2>2
  <2>6. \A q \in Requests : q # r => mode'[q] = mode[q] /\ total'[q] = total[q]
    BY <1>1, <2>2
  <2>7. Len(heard'[r]) = chunk'[r] - 1
    BY <2>1, <2>3
  <2> QED BY <1>1, <2>1, <2>3, <2>4, <2>5, <2>6, <2>7, GoOnStep
<1>4. CASE EmptyAudio(r) \/ RaiseBeforeSubmit(r) \/ TakeError(r)
           \/ RaiseInDecode(r)
  <2>1. Leaves(r) /\ UNCHANGED <<serving, waiters, mode, total, chunk, heard>>
    BY <1>4 DEF EmptyAudio, RaiseBeforeSubmit, TakeError, RaiseInDecode, Leave,
                Leaves
  <2> QED BY <1>1, <2>1, LeaveStep
<1>5. CASE SubmitAll(r)
  <2>1. /\ step[r] = "submitting" /\ mode[r] = "parallel"
        /\ UNCHANGED <<serving, waiters, holder, mode, total, heard, reply>>
    BY <1>5 DEF SubmitAll
  <2>2. chunk[r] <= total[r] /\ heard[r] = <<>> /\ Len(heard[r]) = 0
    BY <2>1 DEF LoopInv
  <2>3. CASE chunk[r] = total[r]
    <3>1. /\ step' = [step EXCEPT ![r] = "awaiting"]
          /\ chunk' = [chunk EXCEPT ![r] = 1]
      BY <1>5, <2>3 DEF SubmitAll
    <3>2. /\ chunk' \in [Requests -> 1..MaxChunks]
          /\ chunk'[r] = 1 /\ 1 <= total[r]
          /\ \A q \in Requests : q # r => chunk'[q] = chunk[q]
      BY <1>1, <2>3, <3>1
    <3>3. Len(heard'[r]) = chunk'[r] - 1
      BY <2>1, <2>2, <3>2
    <3> QED BY <1>1, <2>1, <3>1, <3>2, <3>3, GoOnStep
  <2>4. CASE chunk[r] # total[r]
    <3>1. /\ step' = [step EXCEPT ![r] = "submitting"]
          /\ chunk' = [chunk EXCEPT ![r] = @ + 1]
      BY <1>1, <1>5, <2>1, <2>4 DEF SubmitAll
    <3>2. /\ chunk' \in [Requests -> 1..MaxChunks]
          /\ chunk'[r] <= total[r]
          /\ \A q \in Requests : q # r => chunk'[q] = chunk[q]
      <4>1. chunk[r] + 1 \in 1..MaxChunks /\ chunk[r] + 1 <= total[r]
        BY <1>1, <2>2, <2>4
      <4> QED BY <1>1, <3>1, <4>1
    <3> QED BY <1>1, <2>1, <2>2, <3>1, <3>2, GoOnStep
  <2> QED BY <2>3, <2>4
<1>6. CASE SubmitOne(r) \/ TakeResult(r)
  <2>1. PICK s \in {"awaiting", "decoding"} : step' = [step EXCEPT ![r] = s]
    BY <1>6 DEF SubmitOne, TakeResult
  <2>2. /\ \/ step[r] = "awaiting"
           \/ step[r] = "submitting" /\ mode[r] = "serial"
        /\ UNCHANGED <<serving, waiters, holder, mode, total, chunk, heard,
                       reply>>
    BY <1>6 DEF SubmitOne, TakeResult
  <2>3. chunk[r] <= total[r] /\ Len(heard[r]) = chunk[r] - 1
    BY <2>2 DEF LoopInv
  <2> QED BY <1>1, <2>1, <2>2, <2>3, GoOnStep
<1>7. CASE DecodeChunk(r)
  <2>1. /\ step[r] = "decoding"
        /\ heard' = [heard EXCEPT ![r] = Append(@, chunk[r])]
        /\ UNCHANGED <<serving, waiters, mode, total>>
    BY <1>7 DEF DecodeChunk
  <2>2. chunk[r] <= total[r] /\ Len(heard[r]) = chunk[r] - 1
    BY <2>1 DEF LoopInv
  <2>3. /\ heard' \in [Requests -> Seq(1..MaxChunks)]
        /\ Len(heard'[r]) = chunk[r]
        /\ \A q \in Requests : q # r => heard'[q] = heard[q]
    <3>1. /\ Append(heard[r], chunk[r]) \in Seq(1..MaxChunks)
          /\ Len(Append(heard[r], chunk[r])) = chunk[r]
      BY <1>1, <2>2
    <3> QED BY <1>1, <2>1, <3>1
  <2>4. CASE chunk[r] = total[r]
    <3>1. Leaves(r) /\ UNCHANGED chunk
      BY <1>7, <2>1, <2>4 DEF DecodeChunk, Leave, Leaves
    <3> QED BY <2>1, <2>3, <3>1, LeaveStep
  <2>5. CASE chunk[r] # total[r]
    <3>1. PICK s \in {"awaiting", "submitting"} :
              /\ step' = [step EXCEPT ![r] = s]
              /\ s = "submitting" => mode[r] # "parallel"
              /\ chunk' = [chunk EXCEPT ![r] = @ + 1]
              /\ UNCHANGED <<holder, reply>>
      BY <1>7, <2>5 DEF DecodeChunk
    <3>2. /\ chunk' \in [Requests -> 1..MaxChunks]
          /\ chunk'[r] <= total[r]
          /\ chunk'[r] = chunk[r] + 1
          /\ \A q \in Requests : q # r => chunk'[q] = chunk[q]
      BY <1>1, <2>2, <2>5, <3>1
    <3>3. Len(heard'[r]) = chunk'[r] - 1
      BY <1>1, <2>3, <3>2
    <3> QED BY <1>1, <2>1, <2>3, <3>1, <3>2, <3>3, GoOnStep
  <2> QED BY <2>4, <2>5
<1> QED BY <1>2, <1>3, <1>4, <1>5, <1>6, <1>7 DEF Thread

\* Lock and loop are as they should be at all times.
LEMMA RequestStep == RequestInv /\ [Next]_vars => RequestInv'
<1> SUFFICES ASSUME RequestInv, [Next]_vars PROVE RequestInv'
  OBVIOUS
<1>1. ASSUME UNCHANGED requestVars, serving' \in BOOLEAN PROVE RequestInv'
  BY <1>1 DEF requestVars, RequestInv, TypeInv, LockInv, LoopInv
<1>2. serving \in BOOLEAN
  BY DEF RequestInv, TypeInv
<1>3. CASE StopServing
  BY <1>1, <1>3 DEF StopServing
<1>4. CASE ReleaseModel \/ PoolStep
  BY <1>1, <1>2, <1>4 DEF ReleaseModel, PoolStep
<1>5. CASE UNCHANGED vars
  BY <1>1, <1>2, <1>5 DEF vars
<1> QED BY <1>3, <1>4, <1>5, ArriveStep, RequestSteps DEF Next

-----------------------------------------------------------------------------
(* An open pool. *)

\* Nobody is served when the shutdown begins, and from then on nobody is.
LEMMA OpenStep == OpenInv /\ RequestInv /\ [Next]_vars => OpenInv'
<1> SUFFICES ASSUME OpenInv, RequestInv, [Next]_vars, shutdown'
             PROVE  /\ ~serving'
                    /\ \A r \in Requests : step'[r] \in {"idle", "answered"}
  BY DEF OpenInv
<1>1. CASE shutdown
  <2>1. ~serving /\ \A r \in Requests : step[r] \in {"idle", "answered"}
    BY <1>1 DEF OpenInv
  <2>2. ASSUME NEW r \in Requests PROVE ~Arrive(r) /\ ~Thread(r)
    <3>1. ~Arrive(r)
      BY <2>1 DEF Arrive
    <3>2. step[r] \notin {"waiting", "loading", "submitting", "awaiting",
                          "decoding"}
      BY <2>1
    <3>3. ~Thread(r)
      BY <3>2 DEF Thread, Acquire, CutAudio, EmptyAudio, RaiseBeforeSubmit,
                  SubmitAll, SubmitOne, TakeResult, TakeError, DecodeChunk,
                  RaiseInDecode
    <3> QED BY <3>1, <3>3
  <2>3. (serving' <=> serving) \/ ~serving'
    BY <2>2 DEF Next, StopServing, ReleaseModel, PoolStep, vars
  <2>4. step' = step
    BY <2>2 DEF Next, StopServing, ReleaseModel, PoolStep, requestVars, vars
  <2> QED BY <2>1, <2>3, <2>4
<1>2. CASE ~shutdown
  <2>1. Releases
    <3>1. ~ \E r \in Requests : Submits(r)
      BY <1>2 DEF Submits, PoolProofs!Submit, PoolProofs!ownerVars
    <3>2. ~Runs
      BY <1>2 DEF Runs, PoolProofs!Construct, PoolProofs!LoadSession,
             PoolProofs!LoadFails, PoolProofs!StartThread,
             PoolProofs!StartFails, PoolProofs!Work,
             PoolProofs!EnterGet, PoolProofs!SeeShutdown, PoolProofs!GetEmpty,
             PoolProofs!GetSentinel, PoolProofs!GetJob, PoolProofs!FinishJob,
             PoolProofs!CloseDown, PoolProofs!PutSentinel,
             PoolProofs!JoinReturns, PoolProofs!JoinExpires,
             PoolProofs!Teardown, PoolProofs!ownerVars
    <3>3. ~UNCHANGED poolVars
      BY <1>2 DEF poolVars
    <3> QED BY <3>1, <3>2, <3>3, PoolSteps
  <2> QED BY <2>1 DEF Releases, requestVars
<1> QED BY <1>1, <1>2

-----------------------------------------------------------------------------
(* Futures and queue. *)

\* What the pool does by itself to queue and futures: nothing, a get, the put
\* of a sentinel, or the answer to a job that is pending.
LEMMA RunEffects ==
  ASSUME PoolInv, Runs
  PROVE  \/ UNCHANGED <<queue, future>>
         \/ queue # <<>> /\ queue' = Tail(queue) /\ UNCHANGED future
         \/ queue' = Append(queue, None) /\ UNCHANGED future
         \/ /\ UNCHANGED queue
            /\ \E j \in Jobs, s \in {"result", "error"} :
                   /\ future[j] = "pending"
                   /\ future' = [future EXCEPT ![j] = s]
<1>1. CASE PoolProofs!Construct
  BY <1>1 DEF PoolProofs!Construct, PoolProofs!LoadSession,
              PoolProofs!LoadFails, PoolProofs!StartThread,
              PoolProofs!StartFails
<1>2. CASE PoolProofs!CloseDown
  BY <1>2 DEF PoolProofs!CloseDown, PoolProofs!PutSentinel, PoolProofs!Put,
              PoolProofs!JoinReturns, PoolProofs!JoinExpires,
              PoolProofs!Teardown
<1>3. ASSUME NEW w \in PoolProofs!Workers, PoolProofs!Work(w)
      PROVE  \/ UNCHANGED <<queue, future>>
             \/ queue # <<>> /\ queue' = Tail(queue) /\ UNCHANGED future
  BY <1>3 DEF PoolProofs!Work, PoolProofs!EnterGet, PoolProofs!SeeShutdown,
              PoolProofs!GetEmpty, PoolProofs!GetSentinel, PoolProofs!GetJob
<1>4. ASSUME NEW w \in PoolProofs!Workers, PoolProofs!FinishJob(w)
      PROVE  /\ UNCHANGED queue
             /\ \E j \in Jobs, s \in {"result", "error"} :
                    /\ future[j] = "pending"
                    /\ future' = [future EXCEPT ![j] = s]
  <2>1. /\ PoolProofs!TypeOK /\ PoolProofs!WorkInv
        /\ PoolProofs!JobsConserved
    BY DEF PoolInv, PoolProofs!JobInv
  <2>2. /\ pc[w] = "infer" /\ UNCHANGED queue
        /\ \E s \in {"result", "error"} :
               future' = [future EXCEPT ![held[w]] = s]
    BY <1>4 DEF PoolProofs!FinishJob
  <2>3. held[w] \in Jobs
    BY <2>1, <2>2 DEF PoolProofs!TypeOK, PoolProofs!WorkInv
  <2>4. future[held[w]] = "pending"
    BY <2>1, <2>3 DEF PoolProofs!JobsConserved, PoolProofs!HeldBySome
  <2> QED BY <2>2, <2>3, <2>4
<1> QED BY <1>1, <1>2, <1>3, <1>4 DEF Runs

\* A request's steps concern nobody else's loop and futures.
LEMMA OthersLoop ==
  ASSUME PoolInv, TypeInv, NEW r \in Requests, Arrive(r) \/ Thread(r),
         NEW q \in Requests, q # r
  PROVE  /\ step'[q] = step[q] /\ chunk'[q] = chunk[q]
         /\ mode'[q] = mode[q] /\ heard'[q] = heard[q]
         /\ \A i \in 1..MaxChunks : future'[<<q, i>>] = future[<<q, i>>]
<1>1. /\ step \in [Requests -> Steps]
      /\ mode \in [Requests -> {"parallel", "serial"}]
      /\ chunk \in [Requests -> 1..MaxChunks]
      /\ heard \in [Requests -> Seq(1..MaxChunks)]
      /\ future \in [Jobs -> {"none", "pending", "result", "error"}]
  BY DEF TypeInv, PoolInv, PoolProofs!TypeOK
<1>2. step'[q] = step[q]
  BY <1>1 DEF Arrive, Thread, Acquire, CutAudio, EmptyAudio, RaiseBeforeSubmit,
              SubmitAll, SubmitOne, TakeResult, TakeError, DecodeChunk,
              RaiseInDecode, Leave
<1>3. chunk'[q] = chunk[q]
  BY <1>1 DEF Arrive, Thread, Acquire, CutAudio, EmptyAudio, RaiseBeforeSubmit,
              SubmitAll, SubmitOne, TakeResult, TakeError, DecodeChunk,
              RaiseInDecode
<1>4. mode'[q] = mode[q]
  BY <1>1 DEF Arrive, Thread, Acquire, CutAudio, EmptyAudio, RaiseBeforeSubmit,
              SubmitAll, SubmitOne, TakeResult, TakeError, DecodeChunk,
              RaiseInDecode
<1>5. heard'[q] = heard[q]
  BY <1>1 DEF Arrive, Thread, Acquire, CutAudio, EmptyAudio, RaiseBeforeSubmit,
              SubmitAll, SubmitOne, TakeResult, TakeError, DecodeChunk,
              RaiseInDecode
<1>6. \/ UNCHANGED future
      \/ future' = [future EXCEPT ![<<r, chunk[r]>>] = "pending"]
  BY DEF Arrive, Thread, Acquire, CutAudio, EmptyAudio, RaiseBeforeSubmit,
         SubmitAll, SubmitOne, TakeResult, TakeError, DecodeChunk,
         RaiseInDecode, poolVars, Pool!Submit
<1>7. ASSUME NEW i \in 1..MaxChunks
      PROVE  future'[<<q, i>>] = future[<<q, i>>]
  <2>1. <<q, i>> \in Jobs /\ <<q, i>> # <<r, chunk[r]>>
    BY DEF Jobs
  <2> QED BY <1>1, <1>6, <2>1
<1> QED BY <1>2, <1>3, <1>4, <1>5, <1>7

\* And its own futures are what its loop has made of them.
LEMMA OwnLoop ==
  ASSUME PoolInv, RequestInv, FutureInv, NEW r \in Requests,
         Arrive(r) \/ Thread(r)
  PROVE  FutureOf(r)'
<1>1. /\ step \in [Requests -> Steps]
      /\ mode \in [Requests -> {"parallel", "serial"}]
      /\ total \in [Requests -> 0..MaxChunks]
      /\ chunk \in [Requests -> 1..MaxChunks]
      /\ heard \in [Requests -> Seq(1..MaxChunks)]
      /\ future \in [Jobs -> {"none", "pending", "result", "error"}]
  BY DEF RequestInv, TypeInv, PoolInv, PoolProofs!TypeOK
<1>2. FutureOf(r)
  BY DEF FutureInv
<1>3. \A i \in 1..MaxChunks : <<r, i>> \in Jobs
  BY DEF Jobs
<1>4. CASE Arrive(r) \/ Acquire(r)
  <2>1. /\ step[r] \in {"idle", "waiting"}
        /\ step'[r] \in {"waiting", "loading"}
        /\ UNCHANGED <<future, heard>>
    BY <1>1, <1>4 DEF Arrive, Acquire, poolVars
  <2> QED BY <1>2, <2>1 DEF FutureOf
<1>5. CASE CutAudio(r)
  <2>1. /\ step[r] = "loading" /\ step'[r] = "submitting"
        /\ UNCHANGED <<future, heard, chunk>>
    BY <1>1, <1>5 DEF CutAudio, poolVars
  <2>2. chunk[r] \in 1..MaxChunks
    BY <1>1
  <2> QED BY <1>2, <2>1, <2>2 DEF FutureOf
<1>6. CASE EmptyAudio(r) \/ RaiseBeforeSubmit(r) \/ TakeError(r)
           \/ RaiseInDecode(r)
  <2>1. step'[r] = "answered" /\ UNCHANGED <<future, heard>>
    BY <1>1, <1>6 DEF EmptyAudio, RaiseBeforeSubmit, TakeError, RaiseInDecode,
                      Leave, poolVars
  <2> QED BY <1>2, <2>1 DEF FutureOf
<1>7. CASE SubmitAll(r) \/ SubmitOne(r)
  <2>1. /\ step[r] = "submitting" /\ UNCHANGED <<heard, mode>>
        /\ future[<<r, chunk[r]>>] = "none"
        /\ future' = [future EXCEPT ![<<r, chunk[r]>>] = "pending"]
    BY <1>7 DEF SubmitAll, SubmitOne, Pool!Submit
  <2>2. chunk[r] \in 1..MaxChunks
    BY <1>1
  <2>3. \A i \in 1..MaxChunks :
            i # chunk[r] => future'[<<r, i>>] = future[<<r, i>>]
    <3> TAKE i \in 1..MaxChunks
    <3>1. i # chunk[r] => <<r, i>> # <<r, chunk[r]>>
      OBVIOUS
    <3> QED BY <1>1, <1>3, <2>1, <3>1
  <2>4. \A i \in (chunk[r] + 1)..MaxChunks : future'[<<r, i>>] = "none"
    BY <1>2, <2>1, <2>2, <2>3 DEF FutureOf
  <2>5. heard[r] # <<>> =>
            \E i \in 1..MaxChunks : future'[<<r, i>>] = "result"
    BY <1>2, <2>1, <2>3 DEF FutureOf
  <2>6. CASE SubmitOne(r)
    <3>1. step'[r] = "awaiting" /\ chunk' = chunk
      BY <1>1, <2>6 DEF SubmitOne
    <3> QED BY <2>1, <2>4, <2>5, <3>1 DEF FutureOf
  <2>7. CASE SubmitAll(r)
    <3>1. CASE chunk[r] = total[r]
      <4>1. step'[r] = "awaiting" /\ mode'[r] = "parallel"
        BY <1>1, <2>7, <3>1 DEF SubmitAll
      <4> QED BY <2>1, <2>5, <4>1 DEF FutureOf
    <3>2. CASE chunk[r] # total[r]
      <4>1. step'[r] = "submitting" /\ chunk'[r] = chunk[r] + 1
        BY <1>1, <2>1, <2>7, <3>2 DEF SubmitAll
      <4> QED BY <2>1, <2>4, <2>5, <4>1 DEF FutureOf
    <3> QED BY <3>1, <3>2
  <2> QED BY <1>7, <2>6, <2>7
<1>8. CASE TakeResult(r)
  <2>1. /\ step[r] = "awaiting" /\ step'[r] = "decoding"
        /\ future[<<r, chunk[r]>>] = "result"
        /\ UNCHANGED <<future, heard, chunk, mode>>
    BY <1>1, <1>8 DEF TakeResult, poolVars
  <2> QED BY <1>2, <2>1 DEF FutureOf
<1>9. CASE DecodeChunk(r)
  <2>1. step[r] = "decoding" /\ UNCHANGED <<future, mode>>
    BY <1>9 DEF DecodeChunk, poolVars
  <2>2. future'[<<r, chunk[r]>>] = "result" /\ chunk[r] \in 1..MaxChunks
    BY <1>1, <1>2, <2>1 DEF FutureOf
  <2>3. CASE chunk[r] = total[r]
    <3>1. step'[r] = "answered"
      BY <1>1, <1>9, <2>3 DEF DecodeChunk, Leave
    <3> QED BY <2>2, <3>1 DEF FutureOf
  <2>4. CASE chunk[r] # total[r]
    <3>1. /\ step'[r] = IF mode[r] = "parallel" THEN "awaiting"
                                               ELSE "submitting"
          /\ chunk'[r] = chunk[r] + 1
      BY <1>1, <1>9, <2>4 DEF DecodeChunk
    <3>2. mode[r] # "parallel" => mode[r] = "serial"
      BY <1>1
    <3> QED BY <1>2, <2>1, <2>2, <3>1, <3>2 DEF FutureOf
  <2> QED BY <2>3, <2>4
<1> QED BY <1>4, <1>5, <1>6, <1>7, <1>8, <1>9 DEF Thread

\* The pool touches only futures that are pending.
LEMMA FutureStep ==
  PoolInv /\ RequestInv /\ FutureInv /\ [Next]_vars => FutureInv'
<1> SUFFICES ASSUME PoolInv, RequestInv, FutureInv, [Next]_vars,
                    NEW q \in Requests
             PROVE  FutureOf(q)'
  BY DEF FutureInv
<1>1. FutureOf(q)
  BY DEF FutureInv
<1>2. ASSUME UNCHANGED <<step, chunk, mode, heard, future>> PROVE FutureOf(q)'
  BY <1>1, <1>2 DEF FutureOf
<1>3. ASSUME NEW r \in Requests, Arrive(r) \/ Thread(r) PROVE FutureOf(q)'
  <2>1. CASE q = r
    BY <1>3, <2>1, OwnLoop
  <2>2. CASE q # r
    <3>1. /\ step'[q] = step[q] /\ chunk'[q] = chunk[q]
          /\ mode'[q] = mode[q] /\ heard'[q] = heard[q]
          /\ \A i \in 1..MaxChunks : future'[<<q, i>>] = future[<<q, i>>]
      BY <1>3, <2>2, OthersLoop DEF RequestInv
    <3>2. chunk[q] \in 1..MaxChunks
      BY DEF RequestInv, TypeInv
    <3> QED BY <1>1, <3>1, <3>2 DEF FutureOf
  <2> QED BY <2>1, <2>2
<1>4. CASE StopServing \/ ReleaseModel \/ UNCHANGED vars
  BY <1>2, <1>4 DEF StopServing, ReleaseModel, Pool!BeginShutdown, poolVars,
                    requestVars, vars
<1>5. CASE PoolStep
  <2>1. UNCHANGED <<step, chunk, mode, heard>> /\ Runs
    BY <1>5, PoolRuns DEF Runs, requestVars
  <2>2. CASE UNCHANGED future
    BY <1>2, <2>1, <2>2
  <2>3. ASSUME NEW j \in Jobs, NEW s \in {"result", "error"},
               future[j] = "pending", future' = [future EXCEPT ![j] = s]
        PROVE  FutureOf(q)'
    <3>1. future \in [Jobs -> {"none", "pending", "result", "error"}]
      BY DEF PoolInv, PoolProofs!TypeOK
    <3>2. ASSUME NEW i \in 1..MaxChunks
          PROVE  /\ future[<<q, i>>] = "none" => future'[<<q, i>>] = "none"
                 /\ future[<<q, i>>] = "result" => future'[<<q, i>>] = "result"
      <4>1. <<q, i>> \in Jobs
        BY DEF Jobs
      <4> QED BY <2>3, <3>1, <4>1
    <3>3. chunk[q] \in 1..MaxChunks
      BY DEF RequestInv, TypeInv
    <3>4. \A i \in chunk[q]..MaxChunks : i \in 1..MaxChunks
      BY <3>3
    <3>5. \A i \in (chunk[q] + 1)..MaxChunks : i \in 1..MaxChunks
      BY <3>3
    <3> QED BY <1>1, <2>1, <3>2, <3>3, <3>4, <3>5 DEF FutureOf
  <2> QED BY <2>1, <2>2, <2>3, RunEffects
<1> QED BY <1>3, <1>4, <1>5 DEF Next

\* What is in the queue besides sentinels are jobs that are pending.
LEMMA QueueFacts ==
  ASSUME PoolInv
  PROVE  /\ queue \in Seq(Jobs \cup {None}) /\ Len(queue) \in Nat
         /\ \A a \in 1..Len(queue) :
                queue[a] # None =>
                    queue[a] \in Jobs /\ future[queue[a]] = "pending"
<1>1. PoolProofs!TypeOK /\ PoolProofs!JobsConserved
  BY DEF PoolInv, PoolProofs!JobInv
<1>2. queue \in Seq(Jobs \cup {None}) /\ Len(queue) \in Nat
  BY <1>1 DEF PoolProofs!TypeOK
<1>3. ASSUME NEW a \in 1..Len(queue), queue[a] # None
      PROVE  queue[a] \in Jobs /\ future[queue[a]] = "pending"
  <2>1. queue[a] \in Jobs
    BY <1>2, <1>3
  <2> QED BY <1>1, <1>3, <2>1 DEF PoolProofs!JobsConserved, PoolProofs!Queued
<1> QED BY <1>2, <1>3

\* Behind the jobs of a request, another of its own or a sentinel may be put.
LEMMA OrderPut ==
  ASSUME PoolInv, NEW r \in Requests, OrderOf(r), NEW x \in Jobs \cup {None},
         queue' = Append(queue, x), x # None => x[1] = r,
         \A i \in 1..MaxChunks :
             future'[<<r, i>>] = "none" \/ future[<<r, i>>] # "none"
                                        \/ x = <<r, i>>
  PROVE  OrderOf(r)'
<1>1. /\ Len(queue) \in Nat /\ Len(queue') = Len(queue) + 1
      /\ \A a \in 1..Len(queue) : queue'[a] = queue[a]
      /\ queue'[Len(queue) + 1] = x
  BY QueueFacts
<1>2. ASSUME NEW i \in 1..MaxChunks, Departed(<<r, i>>)'
      PROVE  Departed(<<r, i>>)
  <2>1. /\ future'[<<r, i>>] # "none"
        /\ \A a \in 1..Len(queue') : queue'[a] # <<r, i>>
    BY <1>2 DEF Departed, PoolProofs!Queued
  <2>2. x # <<r, i>> /\ \A a \in 1..Len(queue) : queue[a] # <<r, i>>
    BY <1>1, <2>1
  <2> QED BY <2>1, <2>2 DEF Departed, PoolProofs!Queued
<1>3. ASSUME NEW a \in 1..Len(queue'), NEW b \in 1..Len(queue'), a < b,
             queue'[a] # None, queue'[b] # None, queue'[a][1] = r
      PROVE  queue'[b][1] = r
  <2>1. a \in 1..Len(queue) /\ queue'[a] = queue[a]
    BY <1>1, <1>3
  <2>2. CASE b = Len(queue) + 1
    BY <1>1, <1>3, <2>2
  <2>3. CASE b # Len(queue) + 1
    <3>1. b \in 1..Len(queue) /\ queue'[b] = queue[b]
      BY <1>1, <2>3
    <3> QED BY <1>3, <2>1, <3>1 DEF OrderOf
  <2> QED BY <2>2, <2>3
<1>4. ASSUME NEW i \in 1..MaxChunks, Departed(<<r, i>>)',
             NEW a \in 1..Len(queue'), queue'[a] # None
      PROVE  queue'[a][1] = r
  <2>1. Departed(<<r, i>>)
    BY <1>2, <1>4
  <2>2. CASE a = Len(queue) + 1
    BY <1>1, <1>4, <2>2
  <2>3. CASE a # Len(queue) + 1
    <3>1. a \in 1..Len(queue) /\ queue'[a] = queue[a]
      BY <1>1, <2>3
    <3> QED BY <1>4, <2>1, <3>1 DEF OrderOf
  <2> QED BY <2>2, <2>3
<1> QED BY <1>3, <1>4 DEF OrderOf

\* When the first of its jobs is taken, the queue holds no others.
LEMMA OrderGet ==
  ASSUME PoolInv, NEW r \in Requests, OrderOf(r),
         queue # <<>>, queue' = Tail(queue), UNCHANGED future
  PROVE  OrderOf(r)'
<1>1. /\ Len(queue) \in Nat \ {0} /\ Len(queue') = Len(queue) - 1
      /\ \A a \in 1..(Len(queue) - 1) : queue'[a] = queue[a + 1]
  BY QueueFacts
<1>2. ASSUME NEW a \in 1..Len(queue')
      PROVE  a + 1 \in 1..Len(queue) /\ a + 1 > 1 /\ queue'[a] = queue[a + 1]
  BY <1>1
<1>3. \A a, b \in 1..Len(queue') :
          a < b /\ queue'[a] # None /\ queue'[b] # None =>
              (queue'[a][1] = r => queue'[b][1] = r)
  <2> TAKE a, b \in 1..Len(queue')
  <2>1. a < b => a + 1 < b + 1
    BY <1>1
  <2> QED BY <1>2, <2>1 DEF OrderOf
<1>4. ASSUME NEW i \in 1..MaxChunks, Departed(<<r, i>>)',
             NEW a \in 1..Len(queue'), queue'[a] # None
      PROVE  queue'[a][1] = r
  <2>1. CASE Departed(<<r, i>>)
    BY <1>2, <1>4, <2>1 DEF OrderOf
  <2>2. CASE ~Departed(<<r, i>>)
    <3>1. future[<<r, i>>] # "none"
      BY <1>4 DEF Departed
    <3>2. PICK c \in 1..Len(queue) : queue[c] = <<r, i>>
      BY <2>2, <3>1 DEF Departed, PoolProofs!Queued
    <3>3. c = 1
      <4>1. ASSUME c # 1 PROVE FALSE
        <5>1. c - 1 \in 1..Len(queue') /\ queue'[c - 1] = <<r, i>>
          BY <1>1, <3>2, <4>1
        <5> QED BY <1>4, <5>1 DEF Departed, PoolProofs!Queued
      <4> QED BY <4>1
    <3>4. <<r, i>> # None
      BY DEF Jobs
    <3>5. queue[c] # None /\ queue[c][1] = r
      BY <3>2, <3>4
    <3> QED BY <1>2, <1>4, <3>3, <3>5 DEF OrderOf
  <2> QED BY <2>1, <2>2
<1> QED BY <1>3, <1>4 DEF OrderOf

\* A future that is answered changes nothing: the job had departed.
LEMMA OrderAnswer ==
  ASSUME PoolInv, NEW r \in Requests, OrderOf(r), UNCHANGED queue,
         NEW j \in Jobs, NEW s, future[j] = "pending",
         future' = [future EXCEPT ![j] = s]
  PROVE  OrderOf(r)'
<1>1. ASSUME NEW i \in 1..MaxChunks, Departed(<<r, i>>)'
      PROVE  Departed(<<r, i>>)
  <2>1. <<r, i>> \in Jobs
    BY DEF Jobs
  <2>2. future'[<<r, i>>] # "none" /\ ~PoolProofs!Queued(<<r, i>>)
    BY <1>1 DEF Departed, PoolProofs!Queued
  <2>3. future[<<r, i>>] # "none"
    BY <2>1, <2>2 DEF PoolInv, PoolProofs!TypeOK
  <2> QED BY <2>2, <2>3 DEF Departed
<1> QED BY <1>1 DEF OrderOf

\* A request begins behind all that is in the queue, and nobody else submits
\* until it is answered.
LEMMA OrderStep ==
  PoolInv /\ RequestInv /\ FutureInv /\ OrderInv /\ [Next]_vars => OrderInv'
<1> SUFFICES ASSUME PoolInv, RequestInv, FutureInv, OrderInv, [Next]_vars,
                    NEW q \in Requests, holder' = q
             PROVE  OrderOf(q)'
  BY DEF OrderInv
<1>1. ASSUME OrderOf(q), UNCHANGED <<queue, future>> PROVE OrderOf(q)'
  BY <1>1 DEF OrderOf, Departed, PoolProofs!Queued
<1>2. CASE holder # q
  <2>1. Acquire(q)
    BY <1>2 DEF Next, Arrive, Thread, Acquire, CutAudio, EmptyAudio,
                RaiseBeforeSubmit, SubmitAll, SubmitOne, TakeResult, TakeError,
                DecodeChunk, RaiseInDecode, Leave, StopServing, ReleaseModel,
                PoolStep, requestVars, vars
  <2>2. step[q] = "waiting" /\ UNCHANGED <<queue, future>>
    BY <2>1 DEF Acquire, poolVars
  <2>3. \A i \in 1..MaxChunks : future[<<q, i>>] = "none"
    BY <2>2 DEF FutureInv, FutureOf
  <2>4. ASSUME NEW a \in 1..Len(queue), queue[a] # None PROVE queue[a][1] # q
    <3>1. queue[a] \in Jobs /\ future[queue[a]] = "pending"
      BY <2>4, QueueFacts
    <3>2. PICK p \in Requests, i \in 1..MaxChunks : queue[a] = <<p, i>>
      BY <3>1 DEF Jobs
    <3> QED BY <2>3, <3>1, <3>2
  <2>5. OrderOf(q)
    BY <2>3, <2>4 DEF OrderOf, Departed
  <2> QED BY <1>1, <2>2, <2>5
<1>3. CASE holder = q
  <2>1. OrderOf(q)
    BY <1>3 DEF OrderInv
  <2>2. ASSUME NEW r \in Requests, Submits(r) PROVE OrderOf(q)'
    <3>1. r = q
      BY <1>3, <2>2 DEF Submits, RequestInv, LockInv
    <3>2. /\ queue' = Append(queue, <<q, chunk[q]>>)
          /\ future' = [future EXCEPT ![<<q, chunk[q]>>] = "pending"]
      BY <2>2, <3>1 DEF Submits, PoolProofs!Submit, PoolProofs!Put
    <3>3. PICK x \in Jobs : x = <<q, chunk[q]>>
      BY DEF RequestInv, TypeInv, Jobs
    <3>4. ASSUME NEW i \in 1..MaxChunks
          PROVE  \/ future'[<<q, i>>] = "none" \/ future[<<q, i>>] # "none"
                 \/ x = <<q, i>>
      <4>1. <<q, i>> \in Jobs
        BY DEF Jobs
      <4> QED BY <3>2, <3>3, <4>1 DEF PoolInv, PoolProofs!TypeOK
    <3>5. x[1] = q
      BY <3>3
    <3> QED BY <2>1, <3>2, <3>3, <3>4, <3>5, OrderPut
  <2>3. CASE Releases
    BY <1>1, <2>1, <2>3 DEF Releases, PoolProofs!BeginShutdown
  <2>4. CASE Runs
    <3>1. CASE UNCHANGED <<queue, future>>
      BY <1>1, <2>1, <3>1
    <3>2. CASE queue # <<>> /\ queue' = Tail(queue) /\ UNCHANGED future
      BY <2>1, <3>2, OrderGet
    <3>3. CASE queue' = Append(queue, None) /\ UNCHANGED future
      BY <2>1, <3>3, OrderPut
    <3>4. CASE /\ UNCHANGED queue
               /\ \E j \in Jobs, s \in {"result", "error"} :
                      /\ future[j] = "pending"
                      /\ future' = [future EXCEPT ![j] = s]
      BY <2>1, <3>4, OrderAnswer
    <3> QED BY <2>4, <3>1, <3>2, <3>3, <3>4, RunEffects
  <2>5. CASE UNCHANGED poolVars
    BY <1>1, <2>1, <2>5 DEF poolVars
  <2> QED BY <2>2, <2>3, <2>4, <2>5, PoolSteps
<1> QED BY <1>2, <1>3

-----------------------------------------------------------------------------
(* The properties. *)

\* No pool, no request.
LEMMA InvInit == Init => IInv
<1> SUFFICES ASSUME Init PROVE IInv
  OBVIOUS
<1>1. NumWorkers \in Nat \ {0} /\ None \notin Jobs
  OBVIOUS
<1>2. PoolProofs!Init
  BY SameInit DEF Init
<1>3. PoolInv
  BY <1>1, <1>2, PoolProofs!TypeInit, PoolProofs!OwnerInit, PoolProofs!JobInit
     DEF PoolInv, PoolProofs!NumWorkersAssumption, PoolProofs!NoneAssumption
<1>4. RequestInv
  BY RequestInit
<1>5. OpenInv
  BY DEF Init, Pool!Init, OpenInv
<1>6. FutureInv
  <2> SUFFICES ASSUME NEW r \in Requests PROVE FutureOf(r)
    BY DEF FutureInv
  <2>1. step[r] = "idle" /\ heard[r] = <<>>
    BY DEF Init
  <2>2. \A i \in 1..MaxChunks : future[<<r, i>>] = "none"
    BY DEF Init, Pool!Init, Jobs
  <2> QED BY <2>1, <2>2 DEF FutureOf
<1>7. OrderInv
  BY DEF Init, OrderInv
<1> QED BY <1>3, <1>4, <1>5, <1>6, <1>7 DEF IInv

\* Every step keeps all of it.
LEMMA InvStep == IInv /\ [Next]_vars => IInv'
BY PoolStepsKeep, RequestStep, OpenStep, FutureStep, OrderStep
   DEF IInv, RequestInv

\* The invariant of the composition.
LEMMA InvCorrect == Spec => []IInv
BY InvInit, InvStep, PTL DEF Spec

\* The server uses its pool as EncoderPool says it may be used: all that holds
\* of a pool in general holds here (decode.py 1249-1262, encode_pool.py).
THEOREM PoolIsUsedAsMeant == Spec => PoolProofs!Spec
<1>1. Init => PoolProofs!Init
  BY SameInit DEF Init
<1>2. IInv /\ [Next]_vars => [PoolProofs!Next]_(PoolProofs!vars)
  BY PoolNext DEF IInv, RequestInv
<1> QED BY <1>1, <1>2, InvCorrect, PTL DEF Spec, PoolProofs!Spec

\* With its first result a request has left behind what failed requests left
\* in the queue, for any number of workers and requests (decode.py 1262).
THEOREM LeftoversStayAhead == Spec => []LeftoversAreAhead
<1>1. IInv => LeftoversAreAhead
  <2> SUFFICES ASSUME IInv, NEW r \in Requests, holder = r,
                      step[r] = "decoding" \/ heard[r] # <<>>,
                      NEW j \in Queued
               PROVE  j[1] = r
    BY DEF LeftoversAreAhead
  <2>1. OrderOf(r) /\ FutureOf(r)
    BY DEF IInv, OrderInv, FutureInv
  <2>2. PICK i \in 1..MaxChunks : future[<<r, i>>] = "result"
    <3>1. chunk[r] \in 1..MaxChunks
      BY DEF IInv, RequestInv, TypeInv
    <3> QED BY <2>1, <3>1 DEF FutureOf
  <2>3. Departed(<<r, i>>)
    <3>1. <<r, i>> \in Jobs
      BY DEF Jobs
    <3> QED BY <2>2, <3>1 DEF Departed, IInv, PoolInv, PoolProofs!JobInv,
                              PoolProofs!JobsConserved
  <2>4. PICK a \in 1..Len(queue) : queue[a] = j /\ queue[a] # None
    BY DEF Queued
  <2> QED BY <2>1, <2>3, <2>4 DEF OrderOf
<1> QED BY <1>1, InvCorrect, PTL

\* A thread that waits for a future waits for an open pool (api_server.py
\* lifespan, decode.py 1262).
THEOREM NobodyWaits == Spec => []NobodyWaitsForClosedPool
<1>1. IInv => NobodyWaitsForClosedPool
  BY DEF IInv, OpenInv, NobodyWaitsForClosedPool
<1> QED BY <1>1, InvCorrect, PTL

-----------------------------------------------------------------------------
(* What clients see. *)

Line == IF holder = None THEN waiters ELSE <<holder>> \o waiters

\* Adding in front and behind.
LEMMA LineFacts ==
  ASSUME NEW s \in Seq(Requests), NEW x \in Requests, NEW y \in Requests
  PROVE  /\ <<x>> \o s # <<>> /\ Head(<<x>> \o s) = x /\ Tail(<<x>> \o s) = s
         /\ <<x>> \o Append(s, y) = Append(<<x>> \o s, y)
         /\ s # <<>> => <<Head(s)>> \o Tail(s) = s
OBVIOUS

\* A request that has not asked is not in line.
LEMMA NotInLine ==
  ASSUME RequestInv, NEW r \in Requests, step[r] = "idle"
  PROVE  ~ \E i \in 1..Len(Line) : Line[i] = r
<1>1. waiters \in Seq(Requests) /\ holder \in Requests \cup {None}
  BY DEF RequestInv, TypeInv
<1>2. holder # r /\ ~ \E i \in 1..Len(waiters) : waiters[i] = r
  BY DEF RequestInv, LockInv
<1>3. CASE holder = None
  BY <1>2, <1>3 DEF Line
<1>4. CASE holder # None
  <2>1. /\ Len(<<holder>> \o waiters) = Len(waiters) + 1
        /\ (<<holder>> \o waiters)[1] = holder
        /\ \A i \in 2..(Len(waiters) + 1) :
               (<<holder>> \o waiters)[i] = waiters[i - 1]
    BY <1>1, <1>4
  <2>2. ASSUME NEW i \in 1..(Len(waiters) + 1) PROVE Line[i] # r
    <3>1. CASE i = 1
      BY <1>2, <1>4, <2>1, <3>1 DEF Line
    <3>2. CASE i # 1
      <4>1. i - 1 \in 1..Len(waiters) /\ i \in 2..(Len(waiters) + 1)
        BY <1>1, <3>2
      <4> QED BY <1>2, <1>4, <2>1, <4>1 DEF Line
    <3> QED BY <3>1, <3>2
  <2> QED BY <1>4, <2>1, <2>2 DEF Line
<1> QED BY <1>3, <1>4

\* The holder is the one that is served.
LEMMA HolderIsServed ==
  ASSUME RequestInv, NEW r \in Requests,
         step[r] \in {"loading", "submitting", "awaiting", "decoding"}
  PROVE  /\ holder = r /\ Line # <<>> /\ Head(Line) = r /\ Tail(Line) = waiters
         /\ holder' = None /\ waiters' = waiters => Line' = Tail(Line)
<1>1. waiters \in Seq(Requests) /\ holder = r /\ holder # None
  BY DEF RequestInv, TypeInv, LockInv
<1>2. Line = <<r>> \o waiters
  BY <1>1 DEF Line
<1>3. Line # <<>> /\ Head(Line) = r /\ Tail(Line) = waiters
  BY <1>1, <1>2, LineFacts
<1> QED BY <1>1, <1>3 DEF Line

\* No request, no line.
LEMMA ServiceInit == Init => Service!Init
<1> SUFFICES ASSUME Init PROVE Service!Init
  OBVIOUS
<1>1. holder = None /\ waiters = <<>> /\ heard = [r \in Requests |-> <<>>]
  BY DEF Init
<1>2. /\ total = [r \in Requests |-> 0]
      /\ reply = [r \in Requests |-> "none"]
  BY DEF Init
<1> QED BY <1>1, <1>2 DEF Service!Init

\* Every step is one a client knows, or none.
LEMMA ServiceStep ==
  RequestInv /\ [Next]_vars => [Service!Next]_(Service!vars)
<1> SUFFICES ASSUME RequestInv, [Next]_vars PROVE [Service!Next]_(Service!vars)
  OBVIOUS
<1>1. ASSUME Line' = Line, UNCHANGED <<total, heard, reply>>
      PROVE  UNCHANGED Service!vars
  BY <1>1 DEF Service!vars, Line
<1>2. ASSUME UNCHANGED <<waiters, holder, total, heard, reply>>
      PROVE  UNCHANGED Service!vars
  BY <1>1, <1>2 DEF Line
<1>3. ASSUME NEW r \in Requests, Arrive(r) PROVE Service!Ask(r)
  <2>1. /\ step[r] = "idle" /\ waiters' = Append(waiters, r)
        /\ UNCHANGED <<holder, total, heard, reply>>
    BY <1>3 DEF Arrive
  <2>2. reply[r] = "none"
    BY <2>1 DEF RequestInv, LoopInv
  <2>3. Line' = Append(Line, r)
    <3>1. waiters \in Seq(Requests) /\ holder \in Requests \cup {None}
      BY DEF RequestInv, TypeInv
    <3> QED BY <2>1, <3>1, LineFacts DEF Line
  <2>4. ~ \E i \in 1..Len(Line) : Line[i] = r
    BY <2>1, NotInLine
  <2> QED BY <2>1, <2>2, <2>3, <2>4 DEF Service!Ask, Service!InLine, Line
<1>4. ASSUME NEW r \in Requests, Acquire(r) PROVE UNCHANGED Service!vars
  <2>1. /\ holder = None /\ holder' = r /\ r # None
        /\ UNCHANGED <<total, heard, reply>>
    BY <1>4 DEF Acquire
  <2>2. waiters # <<>> /\ Head(waiters) = r /\ waiters' = Tail(waiters)
    BY <1>4, AcquireStep
  <2>3. Line' = Line
    <3>1. waiters \in Seq(Requests)
      BY DEF RequestInv, TypeInv
    <3>2. Line = waiters /\ Line' = <<r>> \o Tail(waiters)
      BY <2>1, <2>2 DEF Line
    <3> QED BY <2>2, <3>1, <3>2, LineFacts
  <2> QED BY <1>1, <2>1, <2>3
<1>5. ASSUME NEW r \in Requests,
             step[r] \in {"loading", "submitting", "awaiting", "decoding"}
      PROVE  /\ Service!Served(r)
             /\ holder' = None /\ waiters' = waiters => Line' = Tail(Line)
  BY <1>5, HolderIsServed DEF Service!Served, Line
<1>6. ASSUME NEW r \in Requests, CutAudio(r) PROVE Service!Cut(r)
  <2>1. /\ step[r] = "loading" /\ UNCHANGED <<waiters, holder, heard, reply>>
        /\ \E k \in 1..MaxChunks : total' = [total EXCEPT ![r] = k]
    BY <1>6 DEF CutAudio
  <2>2. total[r] = 0 /\ Service!Served(r)
    BY <1>5, <2>1 DEF RequestInv, LoopInv
  <2>3. Line' = Line
    BY <2>1 DEF Line
  <2> QED BY <2>1, <2>2, <2>3 DEF Service!Cut, Line
<1>7. ASSUME NEW r \in Requests, EmptyAudio(r) PROVE Service!Empty(r)
  <2>1. /\ step[r] = "loading" /\ reply' = [reply EXCEPT ![r] = "ok"]
        /\ holder' = None /\ UNCHANGED <<waiters, total, heard>>
    BY <1>7 DEF EmptyAudio, Leave
  <2>2. total[r] = 0 /\ Service!Served(r) /\ Line' = Tail(Line)
    BY <1>5, <2>1 DEF RequestInv, LoopInv
  <2> QED BY <2>1, <2>2 DEF Service!Empty, Line
<1>8. ASSUME NEW r \in Requests,
             RaiseBeforeSubmit(r) \/ TakeError(r) \/ RaiseInDecode(r)
      PROVE  Service!Fail(r)
  <2>1. /\ step[r] \in {"loading", "submitting", "awaiting", "decoding"}
        /\ reply' = [reply EXCEPT ![r] = "failed"]
        /\ holder' = None /\ UNCHANGED <<waiters, total, heard>>
    BY <1>8 DEF RaiseBeforeSubmit, TakeError, RaiseInDecode, Leave
  <2>2. Service!Served(r) /\ Line' = Tail(Line)
    BY <1>5, <2>1
  <2> QED BY <2>1, <2>2 DEF Service!Fail, Line
<1>9. ASSUME NEW r \in Requests, SubmitAll(r) \/ SubmitOne(r) \/ TakeResult(r)
      PROVE  UNCHANGED Service!vars
  BY <1>2, <1>9 DEF SubmitAll, SubmitOne, TakeResult
<1>10. ASSUME NEW r \in Requests, DecodeChunk(r)
       PROVE  Service!Continue(r) \/ Service!Complete(r)
  <2>1. /\ step[r] = "decoding" /\ UNCHANGED <<waiters, total>>
        /\ heard' = [heard EXCEPT ![r] = Append(@, chunk[r])]
    BY <1>10 DEF DecodeChunk
  <2>2. Len(heard[r]) = chunk[r] - 1 /\ chunk[r] <= total[r]
    BY <2>1 DEF RequestInv, LoopInv
  <2>3. chunk[r] \in Nat /\ total[r] \in Nat /\ Len(heard[r]) \in Nat
    BY DEF RequestInv, TypeInv
  <2>4. Len(heard[r]) + 1 = chunk[r]
    BY <2>2, <2>3
  <2>5. Service!Hear(r)
    BY <2>1, <2>4 DEF Service!Hear
  <2>6. Service!Served(r) /\ (holder' = None => Line' = Tail(Line))
    BY <1>5, <2>1
  <2>7. CASE chunk[r] = total[r]
    <3>1. holder' = None /\ reply' = [reply EXCEPT ![r] = "ok"]
      BY <1>10, <2>7 DEF DecodeChunk, Leave
    <3> QED BY <2>1, <2>4, <2>5, <2>6, <2>7, <3>1 DEF Service!Complete, Line
  <2>8. CASE chunk[r] # total[r]
    <3>1. UNCHANGED <<holder, reply>>
      BY <1>10, <2>8 DEF DecodeChunk
    <3>2. Len(heard[r]) + 1 < total[r]
      BY <2>2, <2>3, <2>8
    <3>3. Line' = Line
      BY <2>1, <3>1 DEF Line
    <3> QED BY <2>1, <2>5, <2>6, <3>1, <3>2, <3>3 DEF Service!Continue, Line
  <2> QED BY <2>7, <2>8
<1>11. ASSUME NEW r \in Requests, Arrive(r) \/ Thread(r)
       PROVE  [Service!Next]_(Service!vars)
  BY <1>3, <1>4, <1>6, <1>7, <1>8, <1>9, <1>10, <1>11
     DEF Thread, Service!Next, Service!Serve
<1>12. CASE StopServing \/ ReleaseModel \/ PoolStep \/ UNCHANGED vars
  BY <1>2, <1>12 DEF StopServing, ReleaseModel, PoolStep, requestVars, vars
<1> QED BY <1>11, <1>12 DEF Next

\* Clients are served one at a time in the order they came, and are told every
\* chunk once and in order, whatever order the workers finish in: the safety
\* part of ImplementsTranscription (decode.py 1249-1296, api_server.py).
THEOREM ClientsSeeTranscription ==
  Spec => Service!Init /\ [][Service!Next]_(Service!vars)
<1>1. IInv /\ [Next]_vars => [Service!Next]_(Service!vars)
  BY ServiceStep DEF IInv
<1> QED BY <1>1, ServiceInit, InvCorrect, PTL DEF Spec
=============================================================================
