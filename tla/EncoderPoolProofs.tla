------------------------- MODULE EncoderPoolProofs -------------------------
(***************************************************************************)
(* Safety of EncoderPool for every number of workers and every set of      *)
(* jobs.  TypeOK is inductive by itself.  The conservation of jobs and the *)
(* safe release of sessions need stronger invariants:                      *)
(*   WorkInv   ties a worker's program counter to the job in its hands;    *)
(*   OwnerInv  says how far construction and shutdown have got, and which  *)
(*             workers shutdown has already dealt with;                    *)
(*   SentinelInv counts sentinels and the threads that have ended.         *)
(* With them every step of the pool is one of EncodeService, or none: what *)
(* the queue holds besides sentinels is what waits there.                  *)
(***************************************************************************)
EXTENDS EncoderPool, FiniteSetTheorems, WellFoundedInduction, TLAPS

USE NumWorkersAssumption DEF NumWorkersAssumption, Workers, Phases

-----------------------------------------------------------------------------
(* A set of natural numbers has a least element.  What is shown along the  *)
(* numbers is shown by taking the least one for which it is wrong.         *)

\* Every set of natural numbers but the empty one has a least element.
LEMMA LeastElement ==
  ASSUME NEW T, T \subseteq Nat, T # {}
  PROVE  \E x \in T : \A y \in T : x <= y
<1>1. PICK x \in T : \A y \in T : <<y, x>> \notin OpToRel(<, Nat)
  BY NatLessThanWellFounded, WFMin
<1>2. ASSUME NEW y \in T PROVE ~(y < x)
  BY <1>1 DEF OpToRel
<1> QED BY <1>2

-----------------------------------------------------------------------------
(* The types.                                                              *)

\* Before the construction the types hold.
LEMMA TypeInit == Init => TypeOK
<1> SUFFICES ASSUME Init PROVE TypeOK
  OBVIOUS
<1>1. queue \in Seq(Jobs \cup {None})
  BY DEF Init
<1>2. /\ phase \in Phases
      /\ done \in 0..(NumWorkers - 1)
      /\ session \in [Workers -> {"absent", "loaded", "released"}]
      /\ pc \in [Workers -> {"absent", "check", "get", "infer", "exited"}]
      /\ held \in [Workers -> Jobs \cup {None}]
  BY DEF Init
<1>3. /\ unfinished \in Int
      /\ future \in [Jobs -> {"none", "pending", "result", "error"}]
  BY DEF Init
<1>4. expired \subseteq Workers /\ shutdown \in BOOLEAN
  BY Zenon DEF Init
<1> QED BY <1>1, <1>2, <1>3, <1>4 DEF TypeOK

\* Advance keeps the loop counter below the number of workers.
LEMMA AdvanceType ==
  ASSUME TypeOK, NEW next \in Phases, Advance(next)
  PROVE  phase' \in Phases /\ done' \in 0..(NumWorkers - 1)
  BY DEF TypeOK, Advance

\* Every step of owner, caller and worker keeps the types.
LEMMA TypeStep == TypeOK /\ [Next]_vars => TypeOK'
<1> SUFFICES ASSUME TypeOK, [Next]_vars PROVE TypeOK'
  OBVIOUS
<1>1. CASE LoadSession
  <2>1. phase' \in Phases /\ done' \in 0..(NumWorkers - 1)
    BY <1>1, AdvanceType DEF LoadSession
  <2> QED BY <1>1, <2>1 DEF LoadSession, TypeOK
<1>2. CASE LoadFails \/ StartFails
  BY <1>2 DEF LoadFails, StartFails, ReleaseList, TypeOK
<1>3. CASE StartThread
  <2>1. phase' \in Phases /\ done' \in 0..(NumWorkers - 1)
    BY <1>3, AdvanceType DEF StartThread
  <2> QED BY <1>3, <2>1 DEF StartThread, TypeOK
<1>4. ASSUME NEW j \in Jobs, Submit(j) PROVE TypeOK'
  BY <1>4 DEF Submit, Put, ownerVars, workerVars, TypeOK
<1>5. ASSUME NEW w \in Workers, EnterGet(w) \/ SeeShutdown(w) \/ GetEmpty(w)
      PROVE TypeOK'
  BY <1>5 DEF EnterGet, SeeShutdown, GetEmpty, ownerVars, TypeOK
<1>6. ASSUME NEW w \in Workers, GetSentinel(w) PROVE TypeOK'
  BY <1>6 DEF GetSentinel, ownerVars, TypeOK
<1>7. ASSUME NEW w \in Workers, GetJob(w) PROVE TypeOK'
  <2>1. Head(queue) \in Jobs \cup {None} /\ queue' \in Seq(Jobs \cup {None})
    BY <1>7 DEF GetJob, TypeOK
  <2>2. held' \in [Workers -> Jobs \cup {None}]
    BY <1>7, <2>1 DEF GetJob, TypeOK
  <2>3. pc' \in [Workers -> {"absent", "check", "get", "infer", "exited"}]
    BY <1>7 DEF GetJob, TypeOK
  <2>4. UNCHANGED <<phase, done, session, shutdown, expired, unfinished, future>>
    BY <1>7 DEF GetJob, ownerVars
  <2>5. expired' \subseteq Workers
    BY <2>4 DEF TypeOK
  <2>6. /\ phase' \in Phases
        /\ done' \in 0..(NumWorkers - 1)
        /\ session' \in [Workers -> {"absent", "loaded", "released"}]
        /\ unfinished' \in Int
        /\ shutdown' \in BOOLEAN
        /\ future' \in [Jobs -> {"none", "pending", "result", "error"}]
    BY <2>4 DEF TypeOK
  <2> QED BY <2>1, <2>2, <2>3, <2>5, <2>6 DEF TypeOK
<1>8. ASSUME NEW w \in Workers, FinishJob(w) PROVE TypeOK'
  <2>1. future' \in [Jobs -> {"none", "pending", "result", "error"}]
    BY <1>8 DEF FinishJob, TypeOK
  <2>2. held' \in [Workers -> Jobs \cup {None}]
    BY <1>8 DEF FinishJob, TypeOK
  <2> QED BY <1>8, <2>1, <2>2 DEF FinishJob, ownerVars, TypeOK
<1>9. CASE BeginShutdown
  BY <1>9 DEF BeginShutdown, workerVars, TypeOK
<1>10. CASE PutSentinel
  <2>1. phase' \in Phases /\ done' \in 0..(NumWorkers - 1)
    BY <1>10, AdvanceType DEF PutSentinel
  <2> QED BY <1>10, <2>1 DEF PutSentinel, Put, workerVars, TypeOK
<1>11. CASE JoinReturns \/ JoinExpires
  <2>1. phase' \in Phases /\ done' \in 0..(NumWorkers - 1)
    BY <1>11, AdvanceType DEF JoinReturns, JoinExpires
  <2>2. done + 1 \in Workers
    BY DEF TypeOK
  <2> QED BY <1>11, <2>1, <2>2 DEF JoinReturns, JoinExpires, workerVars, TypeOK
<1>12. CASE Teardown
  BY <1>12 DEF Teardown, ReleaseList, workerVars, TypeOK
<1>13. CASE UNCHANGED vars
  BY <1>13 DEF vars, TypeOK
<1> QED
  BY <1>1, <1>2, <1>3, <1>4, <1>5, <1>6, <1>7, <1>8, <1>9, <1>10, <1>11, <1>12,
     <1>13 DEF Next, Construct, Work, CloseDown

\* Every variable of the pool keeps its type: in particular the owner's loops
\* never run past the last worker.
THEOREM TypeCorrect == Spec => []TypeOK
  BY TypeInit, TypeStep, PTL DEF Spec

-----------------------------------------------------------------------------
(* How far the owner is, and what that says of sessions and threads. *)

\* Shutdown no longer waits for w: it has ended, or it was in inference when
\* its join expired and will find the event set at its next test.
Gone(w) ==
    pc[w] = "exited" \/ (w \in expired /\ pc[w] \in {"infer", "check"})

JoinedOver(w) ==
    \/ w \in expired
    \/ phase = "joining" /\ w <= done
    \/ phase \in {"closing", "closed"}

SessionInv ==
    /\ phase = "loading" => \A w \in Workers : pc[w] = "absent"
    /\ phase = "loading" => \A w \in Workers : w <= done => session[w] = "loaded"
    /\ phase = "starting" => \A w \in Workers : done < w => pc[w] = "absent"
    /\ phase \in {"starting", "ready", "putting", "joining", "closing"} =>
           \A w \in Workers : session[w] = "loaded"
    /\ phase = "raised" =>
           \A w \in Workers : pc[w] # "absent" => session[w] = "loaded"

JoinInv ==
    /\ shutdown => phase \in {"putting", "joining", "closing", "closed"}
    /\ \A w \in Workers : JoinedOver(w) => shutdown /\ Gone(w)
    /\ phase = "joining" => shutdown
    /\ phase = "putting" => shutdown

OwnerInv == SessionInv /\ JoinInv

\* Before the construction there are neither sessions nor threads.
LEMMA OwnerInit == Init => OwnerInv
<1> SUFFICES ASSUME Init PROVE OwnerInv
  OBVIOUS
<1>1. SessionInv
  BY DEF Init, SessionInv
<1>2. JoinInv
  BY DEF Init, JoinInv, JoinedOver
<1> QED BY <1>1, <1>2 DEF OwnerInv

\* Every step keeps what the owner's place says of sessions and threads.
LEMMA OwnerStep == TypeOK /\ OwnerInv /\ [Next]_vars => OwnerInv'
<1> SUFFICES ASSUME TypeOK, SessionInv, JoinInv, [Next]_vars
             PROVE  SessionInv' /\ JoinInv'
  BY DEF OwnerInv
<1>1. CASE LoadSession
  <2>1. SessionInv'
    BY <1>1 DEF LoadSession, Advance, SessionInv, TypeOK
  <2>2. JoinInv'
    BY <1>1 DEF LoadSession, Advance, JoinInv, JoinedOver, Gone, TypeOK
  <2> QED BY <2>1, <2>2
<1>2. CASE LoadFails
  <2>1. SessionInv'
    BY <1>2 DEF LoadFails, ReleaseList, SessionInv, TypeOK
  <2>2. JoinInv'
    BY <1>2 DEF LoadFails, JoinInv, JoinedOver, Gone, TypeOK
  <2> QED BY <2>1, <2>2
<1>2a. CASE StartFails
  <2>1. SessionInv'
    BY <1>2a DEF StartFails, SessionInv, TypeOK
  <2>2. JoinInv'
    BY <1>2a DEF StartFails, JoinInv, JoinedOver, Gone, TypeOK
  <2> QED BY <2>1, <2>2
<1>3. CASE StartThread
  <2>1. SessionInv'
    BY <1>3 DEF StartThread, Advance, SessionInv, TypeOK
  <2>2. JoinInv'
    BY <1>3 DEF StartThread, Advance, JoinInv, JoinedOver, Gone, TypeOK
  <2> QED BY <2>1, <2>2
<1>4. ASSUME NEW j \in Jobs, Submit(j) PROVE SessionInv' /\ JoinInv'
  BY <1>4 DEF Submit, ownerVars, workerVars, SessionInv, JoinInv, JoinedOver, Gone
<1>5. ASSUME NEW w \in Workers, Work(w) \/ FinishJob(w)
      PROVE  SessionInv' /\ JoinInv'
  <2>1. UNCHANGED ownerVars /\ pc[w] \notin {"absent", "exited"}
    BY <1>5 DEF Work, EnterGet, SeeShutdown, GetEmpty, GetSentinel, GetJob,
                FinishJob
  <2>2. \A v \in Workers : v # w => pc'[v] = pc[v]
    BY <1>5 DEF Work, EnterGet, SeeShutdown, GetEmpty, GetSentinel, GetJob,
                FinishJob, TypeOK
  <2>3. Gone(w) /\ shutdown => Gone(w)'
    BY <1>5, <2>1 DEF Work, EnterGet, SeeShutdown, GetEmpty, GetSentinel,
                      GetJob, FinishJob, Gone, TypeOK, ownerVars
  <2>4. SessionInv'
    BY <2>1, <2>2 DEF SessionInv, ownerVars, TypeOK
  <2>5. ASSUME NEW v \in Workers, JoinedOver(v)' PROVE shutdown' /\ Gone(v)'
    <3>1. JoinedOver(v)
      BY <2>1, <2>5 DEF JoinedOver, ownerVars
    <3>2. shutdown /\ Gone(v)
      BY <3>1 DEF JoinInv
    <3> QED BY <2>1, <2>2, <2>3, <3>2 DEF Gone, ownerVars
  <2>6. JoinInv'
    BY <2>1, <2>5 DEF JoinInv, ownerVars
  <2> QED BY <2>4, <2>6
<1>6. CASE BeginShutdown
  <2>1. SessionInv'
    BY <1>6 DEF BeginShutdown, workerVars, SessionInv
  <2>2. JoinInv'
    BY <1>6 DEF BeginShutdown, workerVars, JoinInv, JoinedOver, Gone
  <2> QED BY <2>1, <2>2
<1>7. CASE PutSentinel
  <2>1. SessionInv'
    BY <1>7 DEF PutSentinel, Advance, workerVars, SessionInv
  <2>2. JoinInv'
    BY <1>7 DEF PutSentinel, Advance, workerVars, JoinInv, JoinedOver, Gone, TypeOK
  <2> QED BY <2>1, <2>2
<1>8. CASE JoinReturns
  <2>1. SessionInv'
    BY <1>8 DEF JoinReturns, Advance, workerVars, SessionInv
  <2>2. ASSUME NEW v \in Workers, JoinedOver(v)' PROVE shutdown' /\ Gone(v)'
    <3>1. shutdown
      BY <1>8 DEF JoinReturns, JoinInv
    <3>2. CASE v = done + 1
      BY <1>8, <3>1, <3>2 DEF JoinReturns, workerVars, Gone
    <3>3. CASE v # done + 1
      <4>1. JoinedOver(v)
        BY <1>8, <2>2, <3>3 DEF JoinReturns, Advance, JoinedOver, TypeOK
      <4> QED BY <1>8, <4>1 DEF JoinReturns, workerVars, JoinInv, Gone
    <3> QED BY <3>2, <3>3
  <2>3. JoinInv'
    BY <1>8, <2>2 DEF JoinReturns, Advance, JoinInv
  <2> QED BY <2>1, <2>3
<1>9. CASE JoinExpires
  <2>1. SessionInv'
    BY <1>9 DEF JoinExpires, Advance, workerVars, SessionInv
  <2>2. ASSUME NEW v \in Workers, JoinedOver(v)' PROVE shutdown' /\ Gone(v)'
    <3>1. shutdown
      BY <1>9 DEF JoinExpires, JoinInv
    <3>2. CASE v = done + 1
      BY <1>9, <3>1, <3>2 DEF JoinExpires, workerVars, Gone
    <3>3. CASE v # done + 1
      <4>1. JoinedOver(v)
        BY <1>9, <2>2, <3>3 DEF JoinExpires, Advance, JoinedOver, TypeOK
      <4> QED BY <1>9, <4>1 DEF JoinExpires, workerVars, JoinInv, Gone
    <3> QED BY <3>2, <3>3
  <2>3. JoinInv'
    BY <1>9, <2>2 DEF JoinExpires, Advance, JoinInv
  <2> QED BY <2>1, <2>3
<1>10. CASE Teardown
  <2>1. SessionInv'
    BY <1>10 DEF Teardown, ReleaseList, workerVars, SessionInv, TypeOK
  <2>2. JoinInv'
    BY <1>10 DEF Teardown, workerVars, JoinInv, JoinedOver, Gone
  <2> QED BY <2>1, <2>2
<1>11. CASE UNCHANGED vars
  BY <1>11 DEF vars, SessionInv, JoinInv, JoinedOver, Gone
<1> QED
  BY <1>1, <1>2, <1>2a, <1>3, <1>4, <1>5, <1>6, <1>7, <1>8, <1>9, <1>10, <1>11
     DEF Next, Construct, CloseDown

\* What the owner's place says of sessions and threads holds at all times.
LEMMA OwnerCorrect == Spec => [](TypeOK /\ OwnerInv)
  BY TypeInit, TypeStep, OwnerInit, OwnerStep, PTL DEF Spec

\* Sessions are released under a running inference only after its join
\* expired, for any number of workers and jobs.
THEOREM SafeRelease == Spec => []ReleasedUnderInference
<1>1. TypeOK /\ OwnerInv => ReleasedUnderInference
  BY DEF TypeOK, OwnerInv, SessionInv, JoinInv, JoinedOver, Gone,
         ReleasedUnderInference
<1> QED BY <1>1, OwnerCorrect, PTL

\* No inference begins on a session that is not loaded, nor on a worker whose
\* join has expired.
THEOREM NoStartAfterRelease == Spec => NoInferenceAfterRelease
<1> DEFINE Starts(w) ==
        pc[w] # "infer" /\ pc'[w] = "infer" =>
            session'[w] = "loaded" /\ w \notin expired'
<1>1. TypeOK /\ OwnerInv /\ [Next]_vars => [\A w \in Workers : Starts(w)]_vars
  <2> SUFFICES ASSUME TypeOK, SessionInv, JoinInv, [Next]_vars, NEW w \in Workers,
                      pc[w] # "infer", pc'[w] = "infer"
               PROVE  session'[w] = "loaded" /\ w \notin expired'
    BY DEF OwnerInv
  <2>1. \E v \in Workers : GetJob(v)
    BY DEF Next, Construct, Work, CloseDown, LoadSession, LoadFails, StartThread,
           StartFails, Submit, EnterGet, SeeShutdown, GetEmpty, GetSentinel, FinishJob,
           BeginShutdown, PutSentinel, JoinReturns, JoinExpires, Teardown,
           workerVars, vars, TypeOK
  <2>2. pc[w] = "get" /\ UNCHANGED ownerVars
    BY <2>1 DEF GetJob, TypeOK
  <2>3. ~JoinedOver(w)
    BY <2>2 DEF JoinInv, Gone
  <2>4. phase \notin {"loading", "closed"}
    BY <2>2, <2>3 DEF SessionInv, JoinedOver
  <2> QED
    BY <2>2, <2>3, <2>4 DEF SessionInv, JoinedOver, ownerVars, TypeOK
<1> QED BY <1>1, OwnerCorrect, PTL DEF Spec, NoInferenceAfterRelease

-----------------------------------------------------------------------------
(* Where a job is. *)

\* A worker is in inference exactly while it has a job in its hands.
WorkInv == \A w \in Workers : held[w] # None <=> pc[w] = "infer"

JobInv == WorkInv /\ JobsConserved

\* Append adds one element behind the others.
LEMMA AppendFacts ==
  ASSUME NEW S, NEW s \in Seq(S), NEW x \in S
  PROVE  /\ Len(Append(s, x)) = Len(s) + 1
         /\ \A i \in 1..Len(s) : Append(s, x)[i] = s[i]
         /\ Append(s, x)[Len(s) + 1] = x
  OBVIOUS

\* Tail takes the first element away.
LEMMA TailFacts ==
  ASSUME NEW S, NEW s \in Seq(S), s # <<>>
  PROVE  /\ Len(s) \in Nat \ {0}
         /\ Head(s) = s[1]
         /\ Len(Tail(s)) = Len(s) - 1
         /\ \A i \in 1..(Len(s) - 1) : Tail(s)[i] = s[i + 1]
  OBVIOUS

\* Nobody has submitted a job.
LEMMA JobInit == Init => JobInv
<1> SUFFICES ASSUME Init PROVE JobInv
  OBVIOUS
<1>1. Len(queue) = 0 /\ \A w \in Workers : held[w] = None /\ pc[w] = "absent"
  BY DEF Init
<1>2. \A j \in Jobs : future[j] = "none"
  BY DEF Init
<1> QED BY <1>1, <1>2, NoneAssumption
        DEF JobInv, WorkInv, JobsConserved, Queued, HeldBySome, NoneAssumption

\* What a step does to the places a job can be in decides the invariant: the
\* three changes are a put, a get and the end of a job.
LEMMA PutStep ==
  ASSUME TypeOK, JobInv, NEW x \in Jobs \cup {None},
         queue' = Append(queue, x), UNCHANGED workerVars,
         x \in Jobs => /\ future[x] = "none"
                       /\ future' = [future EXCEPT ![x] = "pending"],
         x = None => UNCHANGED future
  PROVE  JobInv'
<1> USE NoneAssumption DEF NoneAssumption
<1>1. /\ Len(queue') = Len(queue) + 1
      /\ \A i \in 1..Len(queue) : queue'[i] = queue[i]
      /\ queue'[Len(queue) + 1] = x
      /\ Len(queue) \in Nat
  BY AppendFacts DEF TypeOK
<1>2. \A j \in Jobs : Queued(j)' <=> Queued(j) \/ j = x
  BY <1>1 DEF Queued
<1>3. \A j \in Jobs : HeldBySome(j)' <=> HeldBySome(j)
  BY DEF HeldBySome, workerVars
<1>4. x \in Jobs => ~Queued(x) /\ ~HeldBySome(x)
  BY DEF JobInv, JobsConserved
<1>5. \A j \in Jobs : future'[j] = "pending" <=> future[j] = "pending" \/ j = x
  BY DEF TypeOK
<1>6. \A a, b \in 1..Len(queue') :
          queue'[a] = queue'[b] /\ queue'[a] # None => a = b
  <2> SUFFICES ASSUME NEW a \in 1..Len(queue'), NEW b \in 1..Len(queue'),
                      queue'[a] = queue'[b], queue'[a] # None
               PROVE  a = b
    OBVIOUS
  <2>1. CASE a \in 1..Len(queue) /\ b \in 1..Len(queue)
    BY <1>1, <2>1 DEF JobInv, JobsConserved
  <2>2. CASE a = Len(queue) + 1 \/ b = Len(queue) + 1
    BY <1>1, <1>4, <2>2 DEF Queued
  <2> QED BY <1>1, <2>1, <2>2
<1>7. WorkInv'
  BY DEF JobInv, WorkInv, workerVars
<1>8. \A v, w \in Workers : held'[v] = held'[w] /\ held'[v] # None => v = w
  BY DEF JobInv, JobsConserved, workerVars
<1> QED
  BY <1>2, <1>3, <1>4, <1>5, <1>6, <1>7, <1>8 DEF JobInv, JobsConserved

\* A worker that takes an item moves it from the queue to its hands.
LEMMA GetStep ==
  ASSUME TypeOK, JobInv, NEW w \in Workers, GetJob(w) \/ GetSentinel(w)
  PROVE  JobInv'
<1> USE NoneAssumption DEF NoneAssumption
<1> DEFINE x == Head(queue)
<1>1. queue # <<>> /\ pc[w] = "get" /\ queue' = Tail(queue) /\ UNCHANGED future
  BY DEF GetJob, GetSentinel
<1>2. /\ Len(queue) \in Nat \ {0}
      /\ x = queue[1]
      /\ Len(queue') = Len(queue) - 1
      /\ \A i \in 1..(Len(queue) - 1) : queue'[i] = queue[i + 1]
  BY <1>1, TailFacts DEF TypeOK
<1>3. x \in Jobs \cup {None}
  BY <1>1 DEF TypeOK
<1>4. held[w] = None
  BY <1>1 DEF JobInv, WorkInv
<1>5. \A j \in Jobs : Queued(j)' <=> Queued(j) /\ j # x
  <2> TAKE j \in Jobs
  <2>1. ASSUME Queued(j)' PROVE Queued(j) /\ j # x
    <3>1. PICK i \in 1..(Len(queue) - 1) : queue[i + 1] = j
      BY <1>2, <2>1 DEF Queued
    <3>2. i + 1 \in 1..Len(queue) /\ 1 \in 1..Len(queue) /\ i + 1 # 1
      BY <1>2
    <3> QED BY <1>2, <3>1, <3>2 DEF Queued, JobInv, JobsConserved
  <2>2. ASSUME Queued(j), j # x PROVE Queued(j)'
    <3>1. PICK i \in 1..Len(queue) : queue[i] = j
      BY <2>2 DEF Queued
    <3>2. i - 1 \in 1..(Len(queue) - 1) /\ queue'[i - 1] = j
      BY <1>2, <2>2, <3>1
    <3> QED BY <1>2, <3>2 DEF Queued
  <2> QED BY <2>1, <2>2
<1>6. \A a, b \in 1..Len(queue') :
          queue'[a] = queue'[b] /\ queue'[a] # None => a = b
  <2> TAKE a, b \in 1..Len(queue')
  <2>1. /\ a + 1 \in 1..Len(queue)
        /\ b + 1 \in 1..Len(queue)
        /\ queue'[a] = queue[a + 1]
        /\ queue'[b] = queue[b + 1]
        /\ a \in Int /\ b \in Int
    BY <1>2
  <2>2. queue[a + 1] = queue[b + 1] /\ queue[a + 1] # None => a + 1 = b + 1
    BY <2>1 DEF JobInv, JobsConserved
  <2> QED BY <2>1, <2>2
<1>7. CASE GetSentinel(w)
  <2>1. x = None /\ UNCHANGED held /\ pc' = [pc EXCEPT ![w] = "exited"]
    BY <1>7 DEF GetSentinel
  <2>2. WorkInv'
    BY <1>4, <2>1 DEF JobInv, WorkInv, TypeOK
  <2> QED BY <1>1, <1>5, <1>6, <2>1, <2>2 DEF JobInv, JobsConserved, HeldBySome
<1>8. CASE GetJob(w)
  <2>1. /\ x # None
        /\ held' = [held EXCEPT ![w] = x]
        /\ pc' = [pc EXCEPT ![w] = "infer"]
    BY <1>8 DEF GetJob
  <2>2. x \in Jobs /\ Queued(x) /\ ~HeldBySome(x)
    BY <1>2, <1>3, <2>1 DEF Queued, JobInv, JobsConserved
  <2>3. WorkInv'
    BY <2>1 DEF JobInv, WorkInv, TypeOK
  <2>4. \A j \in Jobs : HeldBySome(j)' <=> HeldBySome(j) \/ j = x
    BY <1>4, <2>1 DEF HeldBySome, TypeOK
  <2>5. \A u, v \in Workers : held'[u] = held'[v] /\ held'[u] # None => u = v
    BY <2>1, <2>2 DEF JobInv, JobsConserved, HeldBySome, TypeOK
  <2> QED
    BY <1>1, <1>5, <1>6, <2>2, <2>3, <2>4, <2>5 DEF JobInv, JobsConserved
<1> QED BY <1>7, <1>8

\* A worker that is done with a job answers it and lets go of it.
LEMMA FinishStep ==
  ASSUME TypeOK, JobInv, NEW w \in Workers, FinishJob(w)
  PROVE  JobInv'
<1> USE NoneAssumption DEF NoneAssumption
<1> DEFINE x == held[w]
<1>1. pc[w] = "infer" /\ UNCHANGED queue
  BY DEF FinishJob
<1>2. x \in Jobs /\ HeldBySome(x) /\ ~Queued(x)
  BY <1>1 DEF JobInv, WorkInv, JobsConserved, HeldBySome, TypeOK
<1>3. /\ held' = [held EXCEPT ![w] = None]
      /\ pc' = [pc EXCEPT ![w] = "check"]
      /\ \E r \in {"result", "error"} : future' = [future EXCEPT ![x] = r]
  BY DEF FinishJob
<1>4. \A j \in Jobs : future'[j] = "pending" <=> future[j] = "pending" /\ j # x
  BY <1>2, <1>3 DEF TypeOK
<1>5. \A j \in Jobs : HeldBySome(j)' <=> HeldBySome(j) /\ j # x
  BY <1>2, <1>3 DEF HeldBySome, JobInv, JobsConserved, TypeOK
<1>6. \A j \in Jobs : Queued(j)' <=> Queued(j)
  BY <1>1 DEF Queued
<1>7. WorkInv'
  BY <1>3 DEF JobInv, WorkInv, TypeOK
<1>8. \A u, v \in Workers : held'[u] = held'[v] /\ held'[u] # None => u = v
  BY <1>3 DEF JobInv, JobsConserved, TypeOK
<1>9. \A a, b \in 1..Len(queue') :
          queue'[a] = queue'[b] /\ queue'[a] # None => a = b
  BY <1>1 DEF JobInv, JobsConserved
<1> QED
  BY <1>2, <1>4, <1>5, <1>6, <1>7, <1>8, <1>9 DEF JobInv, JobsConserved

\* Every step keeps each job in one place.
LEMMA JobStep == TypeOK /\ OwnerInv /\ JobInv /\ [Next]_vars => JobInv'
<1> SUFFICES ASSUME TypeOK, OwnerInv, JobInv, [Next]_vars PROVE JobInv'
  OBVIOUS
<1>1. ASSUME UNCHANGED <<held, queue, future>>,
             \A w \in Workers : pc'[w] = "infer" <=> pc[w] = "infer"
      PROVE  JobInv'
  BY <1>1 DEF JobInv, WorkInv, JobsConserved, Queued, HeldBySome
<1>2. ASSUME NEW j \in Jobs, Submit(j) PROVE JobInv'
  BY <1>2, PutStep, NoneAssumption DEF Submit, Put, NoneAssumption
<1>3. CASE PutSentinel
  BY <1>3, PutStep, NoneAssumption DEF PutSentinel, Put, NoneAssumption
<1>4. ASSUME NEW w \in Workers, Work(w) \/ FinishJob(w) PROVE JobInv'
  <2>1. CASE GetJob(w) \/ GetSentinel(w)
    BY <2>1, GetStep
  <2>2. CASE FinishJob(w)
    BY <2>2, FinishStep
  <2>3. CASE EnterGet(w) \/ SeeShutdown(w) \/ GetEmpty(w)
    BY <1>1, <2>3 DEF EnterGet, SeeShutdown, GetEmpty, TypeOK
  <2> QED BY <1>4, <2>1, <2>2, <2>3 DEF Work
<1>5. CASE LoadSession \/ LoadFails \/ StartFails
  BY <1>1, <1>5 DEF LoadSession, LoadFails, StartFails
<1>6. CASE StartThread
  <2>1. pc[done + 1] = "absent" /\ done + 1 \in Workers
    BY <1>6 DEF StartThread, OwnerInv, SessionInv, TypeOK
  <2>2. \A w \in Workers : pc'[w] = "infer" <=> pc[w] = "infer"
    BY <1>6, <2>1 DEF StartThread, TypeOK
  <2> QED BY <1>1, <1>6, <2>2 DEF StartThread
<1>7. CASE BeginShutdown \/ JoinReturns \/ JoinExpires \/ Teardown
  BY <1>1, <1>7 DEF BeginShutdown, JoinReturns, JoinExpires, Teardown, workerVars
<1>8. CASE UNCHANGED vars
  BY <1>1, <1>8 DEF vars
<1> QED
  BY <1>2, <1>3, <1>4, <1>5, <1>6, <1>7, <1>8 DEF Next, Construct, CloseDown

\* A submitted job is in exactly one place until its future is resolved: none
\* is lost, none is encoded twice, for any number of workers and jobs.
THEOREM JobsAreConserved == Spec => []JobsConserved
<1>1. JobInv => JobsConserved
  BY DEF JobInv
<1> QED
  BY <1>1, TypeInit, TypeStep, OwnerInit, OwnerStep, JobInit, JobStep, PTL
     DEF Spec

-----------------------------------------------------------------------------
(* Sentinels.  What shutdown has put is still in the queue, or has ended a *)
(* thread; a thread that the event ended leaves its sentinel behind.       *)

Exited(p) == {w \in Workers : p[w] = "exited"}

Sentinels(q) == {i \in 1..Len(q) : q[i] = None}

\* How many of the sentinels are accounted for.
Spent == Cardinality(Exited(pc)) + Cardinality(Sentinels(queue))

SentinelInv ==
    /\ phase = "ready" => done = 0
    /\ phase = "putting" => done <= Spent
    /\ phase \in {"joining", "closing", "closed"} => NumWorkers <= Spent

\* Threads and positions of a queue can be counted.
LEMMA SentinelsCounted ==
  /\ \A p : IsFiniteSet(Exited(p)) /\ Cardinality(Exited(p)) \in Nat
  /\ \A q \in Seq(Jobs \cup {None}) :
         IsFiniteSet(Sentinels(q)) /\ Cardinality(Sentinels(q)) \in Nat
<1>1. IsFiniteSet(Workers) /\ \A p : Exited(p) \subseteq Workers
  BY FS_Interval DEF Exited
<1>2. ASSUME NEW q \in Seq(Jobs \cup {None}) PROVE IsFiniteSet(Sentinels(q))
  <2>1. IsFiniteSet(1..Len(q)) /\ Sentinels(q) \subseteq 1..Len(q)
    BY FS_Interval DEF Sentinels
  <2> QED BY <2>1, FS_Subset
<1> QED BY <1>1, <1>2, FS_Subset, FS_CardinalityType

\* A put leaves the sentinels where they are and may add one.
LEMMA SentinelsAppend ==
  ASSUME NEW q \in Seq(Jobs \cup {None}), NEW x \in Jobs \cup {None}
  PROVE  Cardinality(Sentinels(Append(q, x))) =
             Cardinality(Sentinels(q)) + IF x = None THEN 1 ELSE 0
<1> DEFINE n == Len(q)
           p == Append(q, x)
<1>1. /\ Len(p) = n + 1 /\ n \in Nat
      /\ \A i \in 1..n : p[i] = q[i]
      /\ p[n + 1] = x
  BY AppendFacts
<1> HIDE DEF p
<1>2. IsFiniteSet(Sentinels(q)) /\ Cardinality(Sentinels(q)) \in Nat
  BY SentinelsCounted
<1>3. CASE x = None
  <2>1. Sentinels(p) = Sentinels(q) \cup {n + 1} /\ n + 1 \notin Sentinels(q)
    BY <1>1, <1>3 DEF Sentinels
  <2>2. Cardinality(Sentinels(p)) = Cardinality(Sentinels(q)) + 1
    BY <1>2, <2>1, FS_AddElement
  <2> QED BY <1>3, <2>2 DEF p
<1>4. CASE x # None
  <2>1. Sentinels(p) = Sentinels(q)
    BY <1>1, <1>4 DEF Sentinels
  <2> QED BY <1>2, <1>4, <2>1 DEF p
<1> QED BY <1>3, <1>4

\* A get takes at most the one it returns.
LEMMA SentinelsTail ==
  ASSUME NEW q \in Seq(Jobs \cup {None}), q # <<>>
  PROVE  /\ Cardinality(Sentinels(q)) <= Cardinality(Sentinels(Tail(q))) + 1
         /\ Head(q) # None =>
                Cardinality(Sentinels(q)) <= Cardinality(Sentinels(Tail(q)))
<1> DEFINE t == Tail(q)
           Later == Sentinels(q) \ {1}
           f == [i \in Sentinels(t) |-> i + 1]
<1>1. /\ Len(q) \in Nat \ {0} /\ Head(q) = q[1] /\ Len(t) = Len(q) - 1
      /\ \A i \in 1..(Len(q) - 1) : t[i] = q[i + 1]
      /\ t \in Seq(Jobs \cup {None})
  BY TailFacts
<1> HIDE DEF t
<1>2. /\ IsFiniteSet(Sentinels(q)) /\ Cardinality(Sentinels(q)) \in Nat
      /\ IsFiniteSet(Sentinels(t)) /\ Cardinality(Sentinels(t)) \in Nat
  BY <1>1, SentinelsCounted
<1>3. f \in Surjection(Sentinels(t), Later)
  <2>1. ASSUME NEW i \in Sentinels(t) PROVE f[i] \in Later
    <3>1. i \in 1..(Len(q) - 1) /\ t[i] = None
      BY <1>1 DEF Sentinels
    <3>2. i + 1 \in 1..Len(q) /\ q[i + 1] = None /\ i + 1 # 1
      BY <1>1, <3>1
    <3> QED BY <3>2 DEF Sentinels
  <2>2. ASSUME NEW j \in Later PROVE \E i \in Sentinels(t) : f[i] = j
    <3>1. j \in 1..Len(q) /\ q[j] = None /\ j # 1
      BY DEF Sentinels
    <3>2. j - 1 \in 1..(Len(q) - 1) /\ (j - 1) + 1 = j
      BY <1>1, <3>1
    <3>3. j - 1 \in Sentinels(t)
      BY <1>1, <3>1, <3>2 DEF Sentinels
    <3> QED BY <3>2, <3>3
  <2> QED BY <2>1, <2>2 DEF Surjection
<1>4. Cardinality(Later) <= Cardinality(Sentinels(t))
  BY <1>2, <1>3, FS_Surjection
<1>5. CASE Head(q) = None
  <2>1. 1 \in Sentinels(q)
    BY <1>1, <1>5 DEF Sentinels
  <2>2. Cardinality(Later) = Cardinality(Sentinels(q)) - 1
    BY <1>2, <2>1, FS_RemoveElement
  <2> QED BY <1>2, <1>4, <1>5, <2>2 DEF t
<1>6. CASE Head(q) # None
  <2>1. Later = Sentinels(q)
    BY <1>1, <1>6 DEF Sentinels
  <2>2. Cardinality(Sentinels(q)) <= Cardinality(Sentinels(t))
    BY <1>4, <2>1
  <2> HIDE DEF Later, f
  <2> QED BY <1>2, <2>2 DEF t
<1> QED BY <1>5, <1>6

\* One more thread has ended.
LEMMA OneMoreExited ==
  ASSUME TypeOK, NEW w \in Workers, pc[w] # "exited",
         pc' = [pc EXCEPT ![w] = "exited"]
  PROVE  Cardinality(Exited(pc')) = Cardinality(Exited(pc)) + 1
<1>1. Exited(pc') = Exited(pc) \cup {w} /\ w \notin Exited(pc)
  BY DEF Exited, TypeOK
<1> QED BY <1>1, SentinelsCounted, FS_AddElement

\* Workers and callers lose no sentinel that has not ended a thread.
LEMMA SpentKept ==
  ASSUME TypeOK,
         \/ \E j \in Jobs : Submit(j)
         \/ \E w \in Workers : Work(w) \/ FinishJob(w)
  PROVE  Spent' \in Nat /\ Spent \in Nat /\ Spent <= Spent'
<1>0. queue \in Seq(Jobs \cup {None}) /\ queue' \in Seq(Jobs \cup {None})
  BY TypeStep DEF TypeOK, Next
<1>1. /\ Cardinality(Exited(pc)) \in Nat /\ Cardinality(Exited(pc')) \in Nat
      /\ Cardinality(Sentinels(queue)) \in Nat
      /\ Cardinality(Sentinels(queue')) \in Nat
  BY <1>0, SentinelsCounted
<1>2. /\ Spent = Cardinality(Exited(pc)) + Cardinality(Sentinels(queue))
      /\ Spent' = Cardinality(Exited(pc')) + Cardinality(Sentinels(queue'))
  BY DEF Spent, Sentinels
<1>3. ASSUME NEW j \in Jobs, Submit(j) PROVE Spent <= Spent'
  <2>1. queue' = Append(queue, j) /\ pc' = pc
    BY <1>3 DEF Submit, Put, workerVars
  <2>2. Exited(pc') = Exited(pc)
    BY <2>1 DEF Exited
  <2>3. Cardinality(Sentinels(queue')) = Cardinality(Sentinels(queue))
    BY <1>0, <1>1, <2>1, SentinelsAppend, NoneAssumption DEF NoneAssumption
  <2> QED BY <1>1, <1>2, <2>2, <2>3
<1>4. ASSUME NEW w \in Workers, GetSentinel(w) PROVE Spent <= Spent'
  <2>1. /\ pc[w] = "get" /\ queue # <<>> /\ queue' = Tail(queue)
        /\ Head(queue) = None /\ pc' = [pc EXCEPT ![w] = "exited"]
    BY <1>4 DEF GetSentinel
  <2>2. Cardinality(Exited(pc')) = Cardinality(Exited(pc)) + 1
    BY <2>1, OneMoreExited
  <2>3. Cardinality(Sentinels(queue)) <= Cardinality(Sentinels(queue')) + 1
    BY <1>0, <2>1, SentinelsTail
  <2> QED BY <1>1, <1>2, <2>2, <2>3
<1>5. ASSUME NEW w \in Workers, GetJob(w) PROVE Spent <= Spent'
  <2>1. /\ pc[w] = "get" /\ queue # <<>> /\ queue' = Tail(queue)
        /\ Head(queue) # None /\ pc' = [pc EXCEPT ![w] = "infer"]
    BY <1>5 DEF GetJob
  <2>2. Exited(pc') = Exited(pc)
    BY <2>1 DEF Exited, TypeOK
  <2>3. Cardinality(Sentinels(queue)) <= Cardinality(Sentinels(queue'))
    BY <1>0, <2>1, SentinelsTail
  <2> QED BY <1>1, <1>2, <2>2, <2>3
<1>6. ASSUME NEW w \in Workers, SeeShutdown(w) PROVE Spent <= Spent'
  <2>1. /\ pc[w] = "check" /\ queue' = queue
        /\ pc' = [pc EXCEPT ![w] = "exited"]
    BY <1>6 DEF SeeShutdown
  <2>2. Cardinality(Exited(pc')) = Cardinality(Exited(pc)) + 1
    BY <2>1, OneMoreExited
  <2> QED BY <1>1, <1>2, <2>1, <2>2
<1>7. ASSUME NEW w \in Workers, EnterGet(w) \/ GetEmpty(w) \/ FinishJob(w)
      PROVE  Spent <= Spent'
  <2>1. /\ queue' = queue /\ pc[w] # "exited"
        /\ \E p \in {"check", "get"} : pc' = [pc EXCEPT ![w] = p]
    BY <1>7 DEF EnterGet, GetEmpty, FinishJob
  <2>2. Exited(pc') = Exited(pc)
    BY <2>1 DEF Exited, TypeOK
  <2> QED BY <1>1, <1>2, <2>1, <2>2
<1>8. Spent <= Spent'
  BY <1>3, <1>4, <1>5, <1>6, <1>7 DEF Work
<1> QED BY <1>1, <1>2, <1>8

\* Nothing is put before the construction.
LEMMA SentinelInit == Init => SentinelInv
BY DEF Init, SentinelInv

\* Every step keeps the sentinels accounted for.
LEMMA SentinelStep == TypeOK /\ SentinelInv /\ [Next]_vars => SentinelInv'
<1> SUFFICES ASSUME TypeOK, SentinelInv, [Next]_vars PROVE SentinelInv'
  OBVIOUS
<1>0. queue \in Seq(Jobs \cup {None}) /\ done \in Int /\ NumWorkers \in Int
  BY DEF TypeOK
<1>1. ASSUME \/ \E j \in Jobs : Submit(j)
             \/ \E w \in Workers : Work(w) \/ FinishJob(w)
      PROVE  SentinelInv'
  <2>1. Spent' \in Nat /\ Spent \in Nat /\ Spent <= Spent'
    BY <1>1, SpentKept
  <2>2. phase' = phase /\ done' = done
    BY <1>1 DEF Submit, Work, EnterGet, SeeShutdown, GetEmpty, GetSentinel,
                GetJob, FinishJob, ownerVars
  <2> QED BY <1>0, <2>1, <2>2 DEF SentinelInv
<1>2. CASE Construct
  <2>1. /\ phase' \in {"loading", "starting", "ready", "raised"}
        /\ phase' = "ready" => done' = 0
    BY <1>2 DEF Construct, LoadSession, LoadFails, StartThread, StartFails,
                Advance
  <2> QED BY <2>1 DEF SentinelInv
<1>3. ASSUME UNCHANGED <<queue, pc>> PROVE Spent' = Spent
  BY <1>3 DEF Spent, Sentinels, Exited
<1>4. CASE BeginShutdown
  <2>1. phase' = "putting" /\ done' = 0 /\ Spent' = Spent
    BY <1>3, <1>4 DEF BeginShutdown, workerVars, SentinelInv
  <2>2. Spent \in Nat
    BY <1>0, SentinelsCounted DEF Spent
  <2> QED BY <2>1, <2>2 DEF SentinelInv
<1>5. CASE PutSentinel
  <2>1. phase = "putting" /\ queue' = Append(queue, None) /\ pc' = pc
    BY <1>5 DEF PutSentinel, Put, workerVars
  <2>2. Cardinality(Sentinels(queue')) = Cardinality(Sentinels(queue)) + 1
    BY <1>0, <2>1, SentinelsAppend
  <2>3. Exited(pc') = Exited(pc)
    BY <2>1 DEF Exited
  <2>4. Spent' = Cardinality(Exited(pc')) + Cardinality(Sentinels(queue'))
    BY DEF Spent, Sentinels
  <2>5. Spent' = Spent + 1 /\ Spent \in Nat
    BY <1>0, <2>2, <2>3, <2>4, SentinelsCounted DEF Spent
  <2>6. done <= Spent
    BY <2>1 DEF SentinelInv
  <2>7. CASE done + 1 = NumWorkers
    <3>1. phase' = "joining" /\ done' = 0
      BY <1>5, <2>7 DEF PutSentinel, Advance
    <3> QED BY <1>0, <2>5, <2>6, <2>7, <3>1 DEF SentinelInv
  <2>8. CASE done + 1 # NumWorkers
    <3>1. phase' = "putting" /\ done' = done + 1
      BY <1>5, <2>1, <2>8 DEF PutSentinel, Advance
    <3> QED BY <1>0, <2>5, <2>6, <3>1 DEF SentinelInv
  <2> QED BY <2>7, <2>8
<1>6. CASE JoinReturns \/ JoinExpires \/ Teardown
  <2>1. /\ phase \in {"joining", "closing"}
        /\ phase' \in {"joining", "closing", "closed"}
        /\ UNCHANGED <<queue, pc>>
    BY <1>6 DEF JoinReturns, JoinExpires, Teardown, Advance, workerVars
  <2> QED BY <1>3, <2>1 DEF SentinelInv
<1>7. CASE UNCHANGED vars
  <2>1. Spent' = Spent /\ UNCHANGED <<phase, done>>
    BY <1>3, <1>7 DEF vars
  <2> QED BY <2>1 DEF SentinelInv
<1> QED BY <1>1, <1>2, <1>4, <1>5, <1>6, <1>7 DEF Next, CloseDown

\* For any number of workers and jobs: from the joins on the queue holds a
\* sentinel for each thread that has not ended (encode_pool.py 300-308,
\* 344-349).
THEOREM EveryThreadHasItsSentinel == Spec => []SentinelsSuffice
<1>1. TypeOK /\ SentinelInv => SentinelsSuffice
  <2> SUFFICES ASSUME TypeOK, SentinelInv,
                      phase \in {"joining", "closing", "closed"}
               PROVE  Cardinality({w \in Workers : pc[w] # "exited"}) <=
                          Cardinality({i \in 1..Len(queue) : queue[i] = None})
    BY DEF SentinelsSuffice
  <2>1. {w \in Workers : pc[w] # "exited"} = Workers \ Exited(pc)
    BY DEF Exited
  <2>2. Cardinality(Workers \ Exited(pc)) = NumWorkers - Cardinality(Exited(pc))
    <3>1. IsFiniteSet(Workers) /\ Cardinality(Workers) = NumWorkers
      BY FS_Interval
    <3>2. Workers \cap Exited(pc) = Exited(pc)
      BY DEF Exited
    <3> QED BY <3>1, <3>2, FS_Difference
  <2>3. NumWorkers <= Cardinality(Exited(pc)) + Cardinality(Sentinels(queue))
    BY DEF SentinelInv, Spent
  <2>4. Cardinality(Exited(pc)) \in Nat /\ Cardinality(Sentinels(queue)) \in Nat
    BY SentinelsCounted DEF TypeOK
  <2>5. Cardinality(Workers \ Exited(pc)) <= Cardinality(Sentinels(queue))
    BY <2>2, <2>3, <2>4
  <2> QED BY <2>1, <2>5 DEF Sentinels
<1> QED BY <1>1, TypeInit, TypeStep, SentinelInit, SentinelStep, PTL DEF Spec

-----------------------------------------------------------------------------
(* The jobs of a queue.  JobsIn is defined by recursion; that such a       *)
(* function exists, that a put appends to its value and a get takes off    *)
(* the head, are shown along the positions of the queue.                   *)

Items == Jobs \cup {None}

\* First, as JobsIn defines it, on the first m items of q.
FirstJobs(q, m, F) ==
    F = [i \in 0..m |-> IF i = 0 THEN <<>>
                        ELSE IF q[i] = None THEN F[i - 1]
                        ELSE Append(F[i - 1], q[i])]

\* There is such a function.
LEMMA FirstJobsExists ==
  ASSUME NEW q \in Seq(Items), NEW m \in 0..Len(q)
  PROVE  \E F : FirstJobs(q, m, F)
<1> DEFINE Bad == {k \in 0..Len(q) : ~ \E F : FirstJobs(q, k, F)}
<1>1. SUFFICES ASSUME Bad # {} PROVE FALSE
  OBVIOUS
<1>2. PICK k \in Bad : \A j \in Bad : k <= j
  <2>1. Bad \subseteq Nat
    OBVIOUS
  <2> HIDE DEF Bad
  <2> QED BY <1>1, <2>1, LeastElement
<1>3. k \in 0..Len(q) /\ ~ \E F : FirstJobs(q, k, F)
  OBVIOUS
<1>4. CASE k = 0
  <2>1. FirstJobs(q, 0, [i \in 0..0 |-> <<>>])
    BY DEF FirstJobs
  <2> QED BY <1>3, <1>4, <2>1
<1>5. CASE k # 0
  <2>1. k - 1 \in 0..Len(q) /\ k - 1 \notin Bad
    BY <1>2, <1>5
  <2>2. PICK G : FirstJobs(q, k - 1, G)
    BY <2>1
  <2> DEFINE F == [i \in 0..k |-> IF i < k THEN G[i]
                                  ELSE IF q[k] = None THEN G[k - 1]
                                  ELSE Append(G[k - 1], q[k])]
             Body(i) == IF i = 0 THEN <<>>
                        ELSE IF q[i] = None THEN F[i - 1]
                        ELSE Append(F[i - 1], q[i])
  <2>3. \A i \in 0..(k - 1) : F[i] = G[i]
    BY <1>3, <1>5
  <2>3a. \A i \in 0..(k - 1) :
            G[i] = IF i = 0 THEN <<>>
                   ELSE IF q[i] = None THEN G[i - 1]
                   ELSE Append(G[i - 1], q[i])
    BY <2>2 DEF FirstJobs
  <2>4. ASSUME NEW i \in 0..k PROVE F[i] = Body(i)
    <3>1. CASE i = k
      BY <1>3, <1>5, <2>3, <3>1
    <3>2. CASE i < k
      <4>1. i \in 0..(k - 1) /\ (i # 0 => i - 1 \in 0..(k - 1))
        BY <1>3, <3>2
      <4> QED BY <2>3, <2>3a, <4>1
    <3> QED BY <1>3, <3>1, <3>2
  <2>5. F = [i \in 0..k |-> Body(i)]
    <3>1. F = [i \in 0..k |-> F[i]]
      OBVIOUS
    <3> HIDE DEF F
    <3> QED BY <2>4, <3>1
  <2>6. FirstJobs(q, k, F)
    BY <2>5 DEF FirstJobs
  <2> QED BY <1>3, <2>6
<1> QED BY <1>4, <1>5

\* And JobsIn returns its last value.
LEMMA JobsInFacts ==
  ASSUME NEW q \in Seq(Items)
  PROVE  \E F : FirstJobs(q, Len(q), F) /\ JobsIn(q) = F[Len(q)]
<1>1. \E F : FirstJobs(q, Len(q), F)
  BY FirstJobsExists
<1> DEFINE G == CHOOSE F : FirstJobs(q, Len(q), F)
<1>2. FirstJobs(q, Len(q), G)
  BY <1>1
<1>3. JobsIn(q) = G[Len(q)]
  BY DEF JobsIn, FirstJobs
<1> QED BY <1>2, <1>3

\* The recursion, downwards and upwards.
LEMMA FirstAt ==
  ASSUME NEW q, NEW m \in Nat, NEW F, FirstJobs(q, m, F), NEW k \in 0..m
  PROVE  /\ k = 0 => F[k] = <<>>
         /\ k # 0 => F[k] = IF q[k] = None THEN F[k - 1]
                            ELSE Append(F[k - 1], q[k])
BY DEF FirstJobs

\* The jobs among one element more.
LEMMA FirstNext ==
  ASSUME NEW q, NEW m \in Nat, NEW F, FirstJobs(q, m, F), NEW k \in Nat, k < m
  PROVE  F[k + 1] = IF q[k + 1] = None THEN F[k] ELSE Append(F[k], q[k + 1])
<1>1. k + 1 \in 0..m /\ k + 1 # 0 /\ (k + 1) - 1 = k
  OBVIOUS
<1> QED BY <1>1, FirstAt

\* Two sequences that agree up to k have the same jobs there.
LEMMA SameFirst ==
  ASSUME NEW p \in Seq(Items), NEW q \in Seq(Items), NEW F, NEW G,
         FirstJobs(p, Len(p), F), FirstJobs(q, Len(q), G),
         NEW k \in 0..Len(p), k <= Len(q), \A i \in 1..k : p[i] = q[i]
  PROVE  F[k] = G[k]
<1> DEFINE Bad == {i \in 0..k : F[i] # G[i]}
<1>1. SUFFICES ASSUME Bad # {} PROVE FALSE
  OBVIOUS
<1>2. PICK i \in Bad : \A j \in Bad : i <= j
  <2>1. Bad \subseteq Nat
    OBVIOUS
  <2> HIDE DEF Bad
  <2> QED BY <1>1, <2>1, LeastElement
<1>3. i \in 0..k /\ F[i] # G[i]
  OBVIOUS
<1>4. i \in 0..Len(p) /\ i \in 0..Len(q)
  BY <1>3
<1>5. CASE i = 0
  BY <1>3, <1>4, <1>5 DEF FirstJobs
<1>6. CASE i # 0
  <2>1. i - 1 \in 0..k /\ i - 1 \notin Bad
    BY <1>2, <1>3, <1>6
  <2>2. F[i - 1] = G[i - 1] /\ p[i] = q[i]
    BY <1>3, <1>6, <2>1
  <2>3. F[i] = IF p[i] = None THEN F[i - 1] ELSE Append(F[i - 1], p[i])
    BY <1>4, <1>6 DEF FirstJobs
  <2>4. G[i] = IF q[i] = None THEN G[i - 1] ELSE Append(G[i - 1], q[i])
    BY <1>4, <1>6 DEF FirstJobs
  <2> QED BY <1>3, <2>2, <2>3, <2>4
<1> QED BY <1>5, <1>6

\* Every part of them is a sequence of jobs.
LEMMA FirstType ==
  ASSUME NEW q \in Seq(Items), NEW F, FirstJobs(q, Len(q), F),
         NEW k \in 0..Len(q)
  PROVE  F[k] \in Seq(Jobs)
<1> DEFINE Bad == {i \in 0..Len(q) : F[i] \notin Seq(Jobs)}
<1>1. SUFFICES ASSUME Bad # {} PROVE FALSE
  OBVIOUS
<1>2. PICK i \in Bad : \A j \in Bad : i <= j
  <2>1. Bad \subseteq Nat
    OBVIOUS
  <2> HIDE DEF Bad
  <2> QED BY <1>1, <2>1, LeastElement
<1>3. i \in 0..Len(q) /\ F[i] \notin Seq(Jobs)
  OBVIOUS
<1>4. CASE i = 0
  <2>1. F[0] = <<>>
    BY <1>3, <1>4 DEF FirstJobs
  <2> QED BY <1>3, <1>4, <2>1
<1>5. CASE i # 0
  <2>1. i - 1 \in 0..Len(q) /\ i - 1 \notin Bad /\ i \in 1..Len(q)
    BY <1>2, <1>3, <1>5
  <2>2. F[i - 1] \in Seq(Jobs) /\ q[i] \in Items
    BY <2>1
  <2>3. F[i] = IF q[i] = None THEN F[i - 1] ELSE Append(F[i - 1], q[i])
    BY <1>3, <1>5 DEF FirstJobs
  <2> QED BY <1>3, <2>2, <2>3 DEF Items
<1> QED BY <1>4, <1>5

\* They are jobs.
LEMMA JobsInType == ASSUME NEW q \in Seq(Items) PROVE JobsIn(q) \in Seq(Jobs)
BY JobsInFacts, FirstType

\* An empty queue has none.
LEMMA JobsInEmpty == JobsIn(<<>>) = <<>>
<1>1. <<>> \in Seq(Items) /\ Len(<<>>) = 0
  OBVIOUS
<1>2. PICK F : FirstJobs(<<>>, 0, F) /\ JobsIn(<<>>) = F[0]
  BY <1>1, JobsInFacts
<1> QED BY <1>2 DEF FirstJobs

\* A put.
LEMMA JobsInAppend ==
  ASSUME NEW q \in Seq(Items), NEW x \in Items
  PROVE  JobsIn(Append(q, x)) = IF x = None THEN JobsIn(q)
                                            ELSE Append(JobsIn(q), x)
<1> DEFINE p == Append(q, x)
           n == Len(q)
<1>1. /\ p \in Seq(Items) /\ Len(p) = n + 1 /\ n \in Nat
      /\ \A i \in 1..n : p[i] = q[i]
      /\ p[n + 1] = x
  BY AppendFacts
<1>2. PICK F : FirstJobs(q, n, F) /\ JobsIn(q) = F[n]
  BY JobsInFacts
<1> HIDE DEF p
<1>3. PICK G : FirstJobs(p, Len(p), G) /\ JobsIn(p) = G[Len(p)]
  BY <1>1, JobsInFacts
<1>4. G[n] = F[n]
  BY <1>1, <1>2, <1>3, SameFirst
<1>5. G[n + 1] = IF p[n + 1] = None THEN G[n] ELSE Append(G[n], p[n + 1])
  BY <1>1, <1>3, FirstNext
<1> QED BY <1>1, <1>2, <1>3, <1>4, <1>5 DEF p

\* Adding behind and adding in front commute.
LEMMA ConsAppend ==
  ASSUME NEW s \in Seq(Jobs), NEW x \in Jobs, NEW y \in Jobs
  PROVE  Append(<<x>> \o s, y) = <<x>> \o Append(s, y)
OBVIOUS

\* The first element of a sequence that one was added in front of.
LEMMA ConsFacts ==
  ASSUME NEW s \in Seq(Jobs), NEW x \in Jobs
  PROVE  /\ <<x>> \o s # <<>> /\ Head(<<x>> \o s) = x /\ Tail(<<x>> \o s) = s
         /\ <<x>> \o <<>> = <<x>> /\ Append(<<>>, x) = <<x>>
OBVIOUS

\* A get.
LEMMA JobsInTail ==
  ASSUME NEW q \in Seq(Items), q # <<>>
  PROVE  JobsIn(q) = IF Head(q) = None THEN JobsIn(Tail(q))
                     ELSE <<Head(q)>> \o JobsIn(Tail(q))
<1> DEFINE t == Tail(q)
           n == Len(t)
           x == Head(q)
           With(s) == IF x = None THEN s ELSE <<x>> \o s
<1>1. /\ t \in Seq(Items) /\ Len(q) = n + 1 /\ n \in Nat
      /\ x = q[1] /\ x \in Items
      /\ \A i \in 1..n : t[i] = q[i + 1]
  BY TailFacts
<1>2. PICK F : FirstJobs(q, Len(q), F) /\ JobsIn(q) = F[Len(q)]
  BY JobsInFacts
<1> HIDE DEF t, x, n
<1>3. PICK G : FirstJobs(t, n, G) /\ JobsIn(t) = G[n]
  BY <1>1, JobsInFacts DEF n
<1>4. \A k \in 0..n : F[k + 1] = With(G[k])
  <2> DEFINE Bad == {k \in 0..n : F[k + 1] # With(G[k])}
  <2>1. SUFFICES ASSUME Bad # {} PROVE FALSE
    OBVIOUS
  <2>2. PICK k \in Bad : \A j \in Bad : k <= j
    <3>1. Bad \subseteq Nat
      BY <1>1
    <3> HIDE DEF Bad
    <3> QED BY <2>1, <3>1, LeastElement
  <2>3. k \in 0..n /\ F[k + 1] # With(G[k])
    OBVIOUS
  <2>4. F[k + 1] = IF q[k + 1] = None THEN F[k] ELSE Append(F[k], q[k + 1])
    <3>1. k \in Nat /\ k < Len(q) /\ Len(q) \in Nat
      BY <1>1, <2>3
    <3> QED BY <1>2, <3>1, FirstNext
  <2>5. CASE k = 0
    <3>1. F[0] = <<>> /\ G[0] = <<>>
      BY <1>1, <1>2, <1>3 DEF FirstJobs
    <3>2. F[1] = IF x = None THEN <<>> ELSE Append(<<>>, x)
      BY <1>1, <2>4, <2>5, <3>1
    <3> QED BY <1>1, <2>3, <2>5, <3>1, <3>2, ConsFacts DEF Items
  <2>6. CASE k # 0
    <3>1. k - 1 \in 0..n /\ k - 1 \notin Bad /\ k \in 1..n
      <4>1. k - 1 \in 0..n /\ k \in 1..n /\ ~(k <= k - 1)
        BY <1>1, <2>3, <2>6
      <4> HIDE DEF Bad
      <4> QED BY <2>2, <4>1
    <3>2. F[k] = With(G[k - 1])
      <4>1. F[(k - 1) + 1] = With(G[k - 1])
        BY <3>1
      <4>2. (k - 1) + 1 = k
        BY <1>1, <3>1
      <4> QED BY <4>1, <4>2
    <3>3. G[k] = IF t[k] = None THEN G[k - 1] ELSE Append(G[k - 1], t[k])
      BY <1>1, <1>3, <3>1, FirstAt
    <3>4. t[k] = q[k + 1] /\ t[k] \in Items
      BY <1>1, <3>1 DEF n
    <3>5. G[k - 1] \in Seq(Jobs)
      BY <1>1, <1>3, <3>1, FirstType DEF n
    <3> QED
      BY <1>1, <2>3, <2>4, <3>2, <3>3, <3>4, <3>5, ConsAppend DEF Items
  <2> QED BY <2>5, <2>6
<1> QED BY <1>1, <1>2, <1>3, <1>4 DEF t, x

\* Taking a sentinel leaves the jobs as they are, taking a job is taking the
\* first of them.
LEMMA GetFacts ==
  ASSUME NEW q \in Seq(Items), q # <<>>
  PROVE  /\ Head(q) = None => JobsIn(Tail(q)) = JobsIn(q)
         /\ Head(q) # None => /\ JobsIn(q) # <<>>
                              /\ Head(JobsIn(q)) = Head(q)
                              /\ Tail(JobsIn(q)) = JobsIn(Tail(q))
<1>1. Tail(q) \in Seq(Items) /\ Head(q) \in Items
  OBVIOUS
<1>2. JobsIn(Tail(q)) \in Seq(Jobs)
  BY <1>1, JobsInType
<1>3. CASE Head(q) = None
  BY <1>3, JobsInTail
<1>4. CASE Head(q) # None
  <2>1. JobsIn(q) = <<Head(q)>> \o JobsIn(Tail(q)) /\ Head(q) \in Jobs
    BY <1>1, <1>4, JobsInTail DEF Items
  <2> QED BY <1>2, <1>4, <2>1, ConsFacts
<1> QED BY <1>3, <1>4

-----------------------------------------------------------------------------
(* The refinement. *)

Running == {held[w] : w \in Workers} \ {None}

\* A worker that holds nothing leaves room for one more.
LEMMA RoomToStart ==
  ASSUME TypeOK, NEW w \in Workers, held[w] = None
  PROVE  Cardinality(Running) < NumWorkers
<1> DEFINE Others == Workers \ {w}
           Busy == {v \in Others : held[v] # None}
           f == [v \in Busy |-> held[v]]
<1>1. IsFiniteSet(Workers) /\ Cardinality(Workers) = NumWorkers
  BY FS_Interval
<1>2. IsFiniteSet(Others) /\ Cardinality(Others) = NumWorkers - 1
  BY <1>1, FS_RemoveElement
<1>3. IsFiniteSet(Busy) /\ Cardinality(Busy) <= Cardinality(Others)
  BY <1>2, FS_Subset
<1>4. f \in Surjection(Busy, Running)
  <2>1. \A v \in Busy : f[v] \in Running
    BY DEF Running
  <2>2. ASSUME NEW j \in Running PROVE \E v \in Busy : f[v] = j
    <3>1. PICK v \in Workers : held[v] = j /\ j # None
      BY DEF Running
    <3>2. v \in Busy
      BY <3>1
    <3> QED BY <3>1, <3>2
  <2> QED BY <2>1, <2>2 DEF Surjection
<1>5. Cardinality(Running) <= Cardinality(Busy)
  BY <1>3, <1>4, FS_Surjection
<1>6. Cardinality(Busy) \in Nat /\ Cardinality(Running) \in Nat
  BY <1>3, <1>4, FS_Surjection, FS_CardinalityType
<1> HIDE DEF Busy, Others
<1> QED BY <1>2, <1>3, <1>5, <1>6

\* A pool that is not constructed is a service that waits for jobs.
LEMMA ServiceInit == Init => Service!Init
<1> SUFFICES ASSUME Init PROVE Service!Init
  OBVIOUS
<1>1. JobsIn(queue) = <<>>
  BY JobsInEmpty DEF Init
<1>2. {held[w] : w \in Workers} \ {None} = {}
  BY DEF Init
<1>3. future = [j \in Jobs |-> "none"]
  BY DEF Init
<1>4. ~shutdown /\ shutdown = FALSE
  BY Zenon DEF Init
<1> QED BY <1>1, <1>2, <1>3, <1>4 DEF Service!Init

\* A put is an Accept, taking a job a Start, answering it an Answer, the event
\* a Close; everything else is invisible.
LEMMA ServiceStep ==
  TypeOK /\ OwnerInv /\ JobInv /\ [Next]_vars => [Service!Next]_(Service!vars)
<1> SUFFICES ASSUME TypeOK, OwnerInv, JobInv, [Next]_vars
             PROVE  [Service!Next]_(Service!vars)
  OBVIOUS
<1> USE NoneAssumption DEF NoneAssumption
<1>0. queue \in Seq(Items)
  BY DEF TypeOK, Items
<1>1. ASSUME JobsIn(queue)' = JobsIn(queue),
             UNCHANGED <<held, future, shutdown>>
      PROVE  UNCHANGED Service!vars
  BY <1>1 DEF Service!vars
<1>2. ASSUME UNCHANGED <<queue, held, future, shutdown>>
      PROVE  UNCHANGED Service!vars
  <2>1. JobsIn(queue)' = JobsIn(queue)
    BY <1>2 DEF JobsIn
  <2> QED BY <1>1, <1>2, <2>1
<1>3. CASE Construct
  BY <1>2, <1>3 DEF Construct, LoadSession, LoadFails, StartThread, StartFails
<1>4. ASSUME NEW j \in Jobs, Submit(j) PROVE Service!Accept(j)
  <2>1. /\ future[j] = "none" /\ future' = [future EXCEPT ![j] = "pending"]
        /\ queue' = Append(queue, j) /\ held' = held /\ shutdown' = shutdown
    BY <1>4 DEF Submit, Put, ownerVars, workerVars
  <2>2. JobsIn(Append(queue, j)) = Append(JobsIn(queue), j)
    BY <1>0, JobsInAppend DEF Items
  <2>3. JobsIn(queue)' = Append(JobsIn(queue), j)
    BY <2>1, <2>2
  <2> QED BY <2>1, <2>3 DEF Service!Accept
<1>5. CASE PutSentinel
  <2>1. queue' = Append(queue, None) /\ UNCHANGED <<held, future, shutdown>>
    BY <1>5 DEF PutSentinel, Put, workerVars
  <2>2. JobsIn(Append(queue, None)) = JobsIn(queue)
    BY <1>0, JobsInAppend DEF Items
  <2> QED BY <1>1, <2>1, <2>2
<1>6. CASE BeginShutdown
  <2>1. ~shutdown
    BY <1>6 DEF BeginShutdown, OwnerInv, JoinInv
  <2>2. shutdown' /\ shutdown' = TRUE /\ UNCHANGED <<queue, held, future>>
    BY <1>6, Zenon DEF BeginShutdown, workerVars
  <2>3. JobsIn(queue)' = JobsIn(queue)
    BY <2>2 DEF JobsIn
  <2>4. Service!Close
    BY <2>1, <2>2, <2>3 DEF Service!Close
  <2> QED BY <2>4 DEF Service!Next
<1>7. CASE JoinReturns \/ JoinExpires \/ Teardown
  BY <1>2, <1>7 DEF JoinReturns, JoinExpires, Teardown, workerVars
<1>8. ASSUME NEW w \in Workers, EnterGet(w) \/ SeeShutdown(w) \/ GetEmpty(w)
      PROVE  UNCHANGED Service!vars
  BY <1>2, <1>8 DEF EnterGet, SeeShutdown, GetEmpty, ownerVars
<1>9. ASSUME NEW w \in Workers, GetSentinel(w) PROVE UNCHANGED Service!vars
  <2>1. /\ queue # <<>> /\ Head(queue) = None /\ queue' = Tail(queue)
        /\ UNCHANGED <<held, future, shutdown>>
    BY <1>9 DEF GetSentinel, ownerVars
  <2>2. JobsIn(Tail(queue)) = JobsIn(queue)
    BY <1>0, <2>1, GetFacts
  <2> QED BY <1>1, <2>1, <2>2
<1>10. ASSUME NEW w \in Workers, GetJob(w) PROVE Service!Start
  <2>1. /\ queue # <<>> /\ Head(queue) # None /\ queue' = Tail(queue)
        /\ held' = [held EXCEPT ![w] = Head(queue)]
        /\ UNCHANGED <<future, shutdown>> /\ pc[w] = "get"
    BY <1>10 DEF GetJob, ownerVars
  <2>2. held[w] = None
    BY <2>1 DEF JobInv, WorkInv
  <2>3. /\ JobsIn(queue) # <<>> /\ Head(JobsIn(queue)) = Head(queue)
        /\ JobsIn(queue)' = Tail(JobsIn(queue))
    BY <1>0, <2>1, GetFacts
  <2>4. Cardinality(Running) < NumWorkers
    BY <2>2, RoomToStart
  <2>5. Running' = Running \cup {Head(queue)}
    BY <2>1, <2>2 DEF Running, TypeOK
  <2>6. Cardinality({held[v] : v \in Workers} \ {None}) < NumWorkers
    BY <2>4 DEF Running
  <2>7. {held'[v] : v \in Workers} \ {None} =
            ({held[v] : v \in Workers} \ {None}) \cup {Head(JobsIn(queue))}
    BY <2>3, <2>5 DEF Running
  <2>8. UNCHANGED <<future, shutdown>>
    BY <2>1
  <2> HIDE DEF Workers
  <2>9. Service!Cardinality({held[v] : v \in Workers} \ {None}) =
            Cardinality({held[v] : v \in Workers} \ {None})
    BY DEF Service!Cardinality, Cardinality
  <2> QED BY <2>3, <2>6, <2>7, <2>8, <2>9, Zenon DEF Service!Start
<1>11. ASSUME NEW w \in Workers, FinishJob(w)
       PROVE  \E j \in Jobs : Service!Answer(j)
  <2>1. /\ pc[w] = "infer" /\ held' = [held EXCEPT ![w] = None]
        /\ \E r \in {"result", "error"} :
               future' = [future EXCEPT ![held[w]] = r]
        /\ UNCHANGED <<queue, shutdown>>
    BY <1>11 DEF FinishJob, ownerVars
  <2>2. PICK j \in Jobs : j = held[w]
    BY <2>1 DEF JobInv, WorkInv, TypeOK
  <2>3. j \in Running
    BY <2>2 DEF Running
  <2>4. Running' = Running \ {j}
    BY <2>1, <2>2 DEF Running, TypeOK, JobInv, JobsConserved
  <2>5. JobsIn(queue)' = JobsIn(queue)
    BY <2>1 DEF JobsIn
  <2>6. Service!Answer(j)
    BY <2>1, <2>2, <2>3, <2>4, <2>5 DEF Service!Answer, Running
  <2> QED BY <2>6
<1>12. CASE UNCHANGED vars
  BY <1>2, <1>12 DEF vars
<1>13. ASSUME NEW j \in Jobs, Submit(j) PROVE Service!Next
  BY <1>4, <1>13 DEF Service!Next
<1>14. ASSUME NEW w \in Workers, Work(w) \/ FinishJob(w)
       PROVE  [Service!Next]_(Service!vars)
  <2>1. CASE GetJob(w)
    BY <1>10, <2>1 DEF Service!Next
  <2>2. CASE FinishJob(w)
    <3>1. \E j \in Jobs : Service!Answer(j)
      BY <1>11, <2>2
    <3> QED BY <3>1 DEF Service!Next
  <2>3. CASE EnterGet(w) \/ SeeShutdown(w) \/ GetEmpty(w) \/ GetSentinel(w)
    BY <1>8, <1>9, <2>3
  <2> QED BY <1>14, <2>1, <2>2, <2>3 DEF Work
<1> HIDE DEF Workers
<1> QED BY <1>3, <1>5, <1>6, <1>7, <1>12, <1>13, <1>14 DEF Next, CloseDown

\* For any number of workers and jobs the pool starts jobs in the order they
\* were submitted, at most one on each worker, and answers each once
\* (encode_pool.py 287-350): the safety part of ImplementsService.
THEOREM PoolIsEncodeService == Spec => Service!Spec
<1> QED
  BY ServiceInit, ServiceStep, TypeInit, TypeStep, OwnerInit, OwnerStep,
     JobInit, JobStep, PTL DEF Spec, Service!Spec
=============================================================================
