---------------------------- MODULE EncoderPool ----------------------------
(***************************************************************************)
(* app/encode_pool.py, class EncoderPool: one thread per NPU core, each    *)
(* with an RKNN session of its own, fed by one shared queue.Queue.         *)
(*                                                                         *)
(* The owner thread loads the sessions, starts the threads, and later      *)
(* shuts the pool down: it sets the shutdown event, puts one None for each *)
(* thread, joins every thread for at most 30 s, and releases the sessions  *)
(* whether or not the threads have gone.  Caller threads submit jobs; a    *)
(* job stands for the (chunk_id, mel, future, submitted_at) tuple of one   *)
(* submit call, so it is submitted at most once.                           *)
(***************************************************************************)
EXTENDS Integers, Sequences, FiniteSets

CONSTANTS NumWorkers,   \* sessions the NPU probe found room for (`fit`)
          Jobs,         \* one element per call of submit
          None          \* Python's None: the sentinel, and "no job in hand"

ASSUME NumWorkersAssumption == NumWorkers \in Nat \ {0}
ASSUME NoneAssumption == None \notin Jobs

Workers == 1..NumWorkers

VARIABLES
    phase,        \* where the owner thread is
    done,         \* how many workers its current loop has dealt with
    session,      \* the RKNN session of each worker
    pc,           \* where each worker thread is
    held,         \* the job a worker took from the queue, or None
    queue,        \* self._queue: jobs and sentinels, oldest first
    unfinished,   \* queue.unfinished_tasks: puts less calls of task_done
    shutdown,     \* self._shutdown.is_set()
    future,       \* what the future of each job shows to its caller
    expired       \* history: workers whose join(timeout=30) ran out

ownerVars  == <<phase, done, session, shutdown, expired>>
workerVars == <<pc, held>>
vars == <<phase, done, session, pc, held, queue, unfinished, shutdown,
          future, expired>>

Phases == {"loading", "starting", "ready", "raised",
           "putting", "joining", "closing", "closed"}

TypeOK ==
    /\ phase \in Phases
    /\ done \in 0..(NumWorkers - 1)
    /\ session \in [Workers -> {"absent", "loaded", "released"}]
    /\ pc \in [Workers -> {"absent", "check", "get", "infer", "exited"}]
    /\ held \in [Workers -> Jobs \cup {None}]
    /\ queue \in Seq(Jobs \cup {None})
    /\ unfinished \in Int
    /\ shutdown \in BOOLEAN
    /\ future \in [Jobs -> {"none", "pending", "result", "error"}]
    /\ expired \subseteq Workers

Init ==
    /\ phase = "loading"
    /\ done = 0
    /\ session = [w \in Workers |-> "absent"]
    /\ pc = [w \in Workers |-> "absent"]
    /\ held = [w \in Workers |-> None]
    /\ queue = <<>>
    /\ unfinished = 0
    /\ shutdown = FALSE
    /\ future = [j \in Jobs |-> "none"]
    /\ expired = {}

-----------------------------------------------------------------------------
\* Variant: the loop runs once too often.
AdvancePastEnd(next) ==
    IF done = NumWorkers
    THEN phase' = next /\ done' = 0
    ELSE phase' = phase /\ done' = done + 1

\* The owner's loops visit the workers in index order; the last one ends the
\* loop and moves on to the phase `next`.
Advance(next) ==
    IF done + 1 = NumWorkers
    THEN phase' = next /\ done' = 0
    ELSE phase' = phase /\ done' = done + 1

\* One _init_model of _load_sessions succeeds.
LoadSession ==
    /\ phase = "loading"
    /\ session' = [session EXCEPT ![done + 1] = "loaded"]
    /\ Advance("starting")
    /\ UNCHANGED <<pc, held, queue, unfinished, shutdown, future, expired>>

ReleaseList(s) ==
    [w \in Workers |-> IF s[w] = "loaded" THEN "released" ELSE s[w]]

\* One _init_model raises: the sessions loaded so far are released and the
\* constructor re-raises, so nobody ever holds this pool.
LoadFails ==
    /\ phase = "loading"
    /\ session' = ReleaseList(session)
    /\ phase' = "raised"
    /\ UNCHANGED <<done, pc, held, queue, unfinished, shutdown, future, expired>>

\* _start_threads: a thread runs from the moment it is started.
StartThread ==
    /\ phase = "starting"
    /\ pc' = [pc EXCEPT ![done + 1] = "check"]
    /\ Advance("ready")
    /\ UNCHANGED <<session, held, queue, unfinished, shutdown, future, expired>>

\* thread.start() raises ("can't start new thread") and the constructor with
\* it: the sessions stay loaded, and the threads already started run on.
StartFails ==
    /\ phase = "starting"
    /\ phase' = "raised"
    /\ UNCHANGED <<session, done, pc, held, queue, unfinished, shutdown, future,
                   expired>>

Put(item) ==
    /\ queue' = Append(queue, item)
    /\ unfinished' = unfinished + 1

\* The constructor has returned: callers may hold the pool, and nothing in
\* submit looks at the shutdown event.
Usable == phase \in {"ready", "putting", "joining", "closing", "closed"}

Submit(j) ==
    /\ Usable
    /\ future[j] = "none"
    /\ future' = [future EXCEPT ![j] = "pending"]
    /\ Put(j)
    /\ UNCHANGED <<ownerVars, workerVars>>

-----------------------------------------------------------------------------
\* Variant: `while True`, only sentinels stop a worker.
EnterGetIgnoringEvent(w) ==
    /\ pc[w] = "check"
    /\ pc' = [pc EXCEPT ![w] = "get"]
    /\ UNCHANGED <<ownerVars, held, queue, unfinished, future>>

\* `while not self._shutdown.is_set()`, both ways.
EnterGet(w) ==
    /\ pc[w] = "check"
    /\ ~shutdown
    /\ pc' = [pc EXCEPT ![w] = "get"]
    /\ UNCHANGED <<ownerVars, held, queue, unfinished, future>>

SeeShutdown(w) ==
    /\ pc[w] = "check"
    /\ shutdown
    /\ pc' = [pc EXCEPT ![w] = "exited"]
    /\ UNCHANGED <<ownerVars, held, queue, unfinished, future>>

\* get(timeout=0.25) raises queue.Empty.
GetEmpty(w) ==
    /\ pc[w] = "get"
    /\ queue = <<>>
    /\ pc' = [pc EXCEPT ![w] = "check"]
    /\ UNCHANGED <<ownerVars, held, queue, unfinished, future>>

GetSentinel(w) ==
    /\ pc[w] = "get"
    /\ queue # <<>>
    /\ Head(queue) = None
    /\ queue' = Tail(queue)
    /\ unfinished' = unfinished - 1
    /\ pc' = [pc EXCEPT ![w] = "exited"]
    /\ UNCHANGED <<ownerVars, held, future>>

\* Variant: queue.LifoQueue.
GetJobNewest(w) ==
    /\ pc[w] = "get"
    /\ queue # <<>>
    /\ LET last == queue[Len(queue)]
       IN  last # None /\ held' = [held EXCEPT ![w] = last]
    /\ queue' = SubSeq(queue, 1, Len(queue) - 1)
    /\ pc' = [pc EXCEPT ![w] = "infer"]
    /\ UNCHANGED <<ownerVars, unfinished, future>>

\* A job is taken and its inference begins.
GetJob(w) ==
    /\ pc[w] = "get"
    /\ queue # <<>>
    /\ Head(queue) # None
    /\ held' = [held EXCEPT ![w] = Head(queue)]
    /\ queue' = Tail(queue)
    /\ pc' = [pc EXCEPT ![w] = "infer"]
    /\ UNCHANGED <<ownerVars, unfinished, future>>

\* Variant: the except clause forgets set_exception.
FinishJobSwallowingError(w) ==
    /\ pc[w] = "infer"
    /\ \E r \in {"result", "pending"} :
           future' = [future EXCEPT ![held[w]] = r]
    /\ held' = [held EXCEPT ![w] = None]
    /\ unfinished' = unfinished - 1
    /\ pc' = [pc EXCEPT ![w] = "check"]
    /\ UNCHANGED <<ownerVars, queue>>

\* Inference returns tensors (set_result), or None or raises (set_exception);
\* task_done runs either way.
FinishJob(w) ==
    /\ pc[w] = "infer"
    /\ \E r \in {"result", "error"} :
           future' = [future EXCEPT ![held[w]] = r]
    /\ held' = [held EXCEPT ![w] = None]
    /\ unfinished' = unfinished - 1
    /\ pc' = [pc EXCEPT ![w] = "check"]
    /\ UNCHANGED <<ownerVars, queue>>

-----------------------------------------------------------------------------
\* shutdown(): the event first, then one sentinel for each thread.
BeginShutdown ==
    /\ phase = "ready"
    /\ shutdown' = TRUE
    /\ phase' = "putting"
    /\ UNCHANGED <<done, session, expired, workerVars, queue, unfinished, future>>

\* Variant: one sentinel for all threads.
PutOneSentinel ==
    /\ phase = "putting"
    /\ Put(None)
    /\ phase' = "joining" /\ done' = 0
    /\ UNCHANGED <<session, shutdown, expired, workerVars, future>>

PutSentinel ==
    /\ phase = "putting"
    /\ Put(None)
    /\ Advance("joining")
    /\ UNCHANGED <<session, shutdown, expired, workerVars, future>>

\* Variant: the threads are not joined.
JoinSkipped ==
    /\ phase = "joining"
    /\ Advance("closing")
    /\ UNCHANGED <<session, shutdown, expired, workerVars, queue, unfinished,
                   future>>

\* thread.join(timeout=30) returns because the thread has ended.
JoinReturns ==
    /\ phase = "joining"
    /\ pc[done + 1] = "exited"
    /\ Advance("closing")
    /\ UNCHANGED <<session, shutdown, expired, workerVars, queue, unfinished,
                   future>>

\* Variant: join without a timeout.
JoinForever ==
    /\ FALSE
    /\ UNCHANGED vars

\* The same join returns after 30 s with the thread still alive.  Only an
\* inference can last that long: every other step of a worker is at most a
\* 0.25 s wait.
JoinExpires ==
    /\ phase = "joining"
    /\ pc[done + 1] = "infer"
    /\ expired' = expired \cup {done + 1}
    /\ Advance("closing")
    /\ UNCHANGED <<session, shutdown, workerVars, queue, unfinished, future>>

Teardown ==
    /\ phase = "closing"
    /\ session' = ReleaseList(session)
    /\ phase' = "closed"
    /\ UNCHANGED <<done, shutdown, expired, workerVars, queue, unfinished, future>>

-----------------------------------------------------------------------------
Construct == LoadSession \/ LoadFails \/ StartThread \/ StartFails

Work(w) ==
    \/ EnterGet(w)
    \/ SeeShutdown(w)
    \/ GetEmpty(w)
    \/ GetSentinel(w)
    \/ GetJob(w)

CloseDown == PutSentinel \/ JoinReturns \/ JoinExpires \/ Teardown

Next ==
    \/ Construct
    \/ \E j \in Jobs : Submit(j)
    \/ \E w \in Workers : Work(w) \/ FinishJob(w)
    \/ BeginShutdown
    \/ CloseDown

Spec == Init /\ [][Next]_vars

\* The threads are scheduled, and a join with a timeout returns in any case.
ThreadsScheduled ==
    /\ WF_vars(Construct)
    /\ \A w \in Workers : WF_vars(Work(w))
    /\ WF_vars(CloseDown)

FairSpec == Spec /\ ThreadsScheduled

\* Every RKNN inference comes back.  Nothing in the code guarantees it: it is
\* the assumption of the properties that need it, not of FairSpec.
InferenceReturns == \A w \in Workers : WF_vars(FinishJob(w))

-----------------------------------------------------------------------------
Queued(j) == \E i \in 1..Len(queue) : queue[i] = j

HeldBySome(j) == \E w \in Workers : held[w] = j

\* A submitted job is never lost and never encoded twice: its future is
\* pending exactly while it is in the queue or in one worker's hands, in one
\* place and once.  (A caller blocks in future.result() with no timeout, so a
\* lost job is a request that hangs: encode_pool.py 303-336, decode.py 1262.)
JobsConserved ==
    /\ \A j \in Jobs : future[j] = "pending" <=> Queued(j) \/ HeldBySome(j)
    /\ \A j \in Jobs : ~(Queued(j) /\ HeldBySome(j))
    /\ \A a, b \in 1..Len(queue) :
           queue[a] = queue[b] /\ queue[a] # None => a = b
    /\ \A v, w \in Workers : held[v] = held[w] /\ held[v] # None => v = w

\* shutdown() releases a session under a running inference only if that
\* inference outlived the 30 s join (encode_pool.py 344-350).
ReleasedUnderInference ==
    \A w \in Workers :
        pc[w] = "infer" /\ session[w] # "loaded" => w \in expired

\* Whatever was left running, no inference ever begins on a session that is
\* not loaded, nor on a worker shutdown has already stopped waiting for: a
\* worker that was in inference leaves at the next test of the event.
NoInferenceAfterRelease ==
    [][\A w \in Workers :
           pc[w] # "infer" /\ pc'[w] = "infer" =>
               session'[w] = "loaded" /\ w \notin expired']_vars

\* Once shutdown has put its sentinels there is one in the queue for each
\* thread that has not ended, whichever threads left by the event and whatever
\* was submitted meanwhile: every worker that waits finds an item, and the
\* sentinels alone would end all of them (encode_pool.py 300-308, 346-347).
SentinelsSuffice ==
    phase \in {"joining", "closing", "closed"} =>
        Cardinality({w \in Workers : pc[w] # "exited"}) <=
            Cardinality({i \in 1..Len(queue) : queue[i] = None})

\* shutdown() comes back even if an inference hangs.
ShutdownReturns == shutdown ~> phase = "closed"

\* The jobs of a queue, without the sentinels between them.
JobsIn(items) ==
    LET First[i \in 0..Len(items)] ==
            IF i = 0 THEN <<>>
            ELSE IF items[i] = None THEN First[i - 1]
            ELSE Append(First[i - 1], items[i])
    IN First[Len(items)]

Service == INSTANCE EncodeService WITH
    Capacity <- NumWorkers,
    waiting  <- JobsIn(queue),
    running  <- {held[w] : w \in Workers} \ {None},
    answer   <- future,
    closed   <- shutdown

\* The pool is an EncodeService: jobs start in the order they were submitted,
\* at most one on each worker, and are answered once.  An open pool starts
\* what it accepted, and answers it if inference returns.
ImplementsService == Service!Spec /\ (InferenceReturns => Service!Fairness)
=============================================================================
