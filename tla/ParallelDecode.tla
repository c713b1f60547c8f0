--------------------------- MODULE ParallelDecode ---------------------------
(***************************************************************************)
(* The requests of the server around one EncoderPool.  A request that has  *)
(* passed its checks waits for the asyncio lock (api_server._infer_lock)   *)
(* and is then decoded by an executor thread:                              *)
(*   "parallel"  decode_utterance_parallel with two spans or more: submit  *)
(*               every span, then await and decode them in span order;     *)
(*   "serial"    decode_samples window by window, through run_encoder: the *)
(*               stream path, short audio, a single span, or the sliding   *)
(*               loop.                                                     *)
(* An exception leaves the loop at once: the jobs that were submitted and  *)
(* not awaited stay in the pool while the lock goes to the next request.   *)
(*                                                                         *)
(* The lifespan of the server releases the model, and with it the pool,    *)
(* after the server stopped serving and every request was answered; that   *)
(* order is uvicorn's (external).                                          *)
(***************************************************************************)
EXTENDS Integers, Sequences, FiniteSets

CONSTANTS NumWorkers, Requests, MaxChunks, None

ASSUME MaxChunksAssumption == MaxChunks \in Nat \ {0}

\* One submit call: the i-th span or window of a request.
Jobs == Requests \X (1..MaxChunks)

\* The pool has a worker, and Python's None is neither a request nor a job.
ASSUME PoolAssumption ==
    /\ NumWorkers \in Nat \ {0}
    /\ None \notin Requests
    /\ None \notin Jobs

VARIABLES phase, done, session, pc, held, queue, unfinished, shutdown, future,
          expired
poolVars == <<phase, done, session, pc, held, queue, unfinished, shutdown,
              future, expired>>

Pool == INSTANCE EncoderPool

VARIABLES
    serving,    \* the server accepts requests
    waiters,    \* requests waiting for _infer_lock, oldest first
    holder,     \* the request that holds the lock, or None
    step,       \* where the handler or the executor thread of a request is
    mode,       \* "parallel" or "serial", once the audio is cut
    total,      \* how many spans or windows it has, 0 before that
    chunk,      \* the index the request's loop is at
    heard,      \* the chunks whose text is in the transcript, in order
    reply       \* "none", "ok" (200) or "failed" (any error status)

requestVars == <<waiters, holder, step, mode, total, chunk, heard, reply>>
vars == <<poolVars, serving, requestVars>>

Init ==
    /\ Pool!Init
    /\ serving = TRUE
    /\ waiters = <<>>
    /\ holder = None
    /\ step = [r \in Requests |-> "idle"]
    /\ mode = [r \in Requests |-> "serial"]
    /\ total = [r \in Requests |-> 0]
    /\ chunk = [r \in Requests |-> 1]
    /\ heard = [r \in Requests |-> <<>>]
    /\ reply = [r \in Requests |-> "none"]

-----------------------------------------------------------------------------
\* The lifespan has loaded the model, and the request passed its checks; it
\* joins the lock's waiters.
Arrive(r) ==
    /\ serving
    /\ phase = "ready"
    /\ step[r] = "idle"
    /\ step' = [step EXCEPT ![r] = "waiting"]
    /\ waiters' = Append(waiters, r)
    /\ UNCHANGED <<poolVars, serving, holder, mode, total, chunk, heard, reply>>

\* `async with _infer_lock`: the lock is handed over in order of arrival.
Acquire(r) ==
    /\ step[r] = "waiting"
    /\ holder = None
    /\ Head(waiters) = r
    /\ holder' = r
    /\ waiters' = Tail(waiters)
    /\ step' = [step EXCEPT ![r] = "loading"]
    /\ UNCHANGED <<poolVars, serving, mode, total, chunk, heard, reply>>

\* The executor's function returns or raises, and the lock is released.
Leave(r, status) ==
    /\ step' = [step EXCEPT ![r] = "answered"]
    /\ reply' = [reply EXCEPT ![r] = status]
    /\ holder' = None

\* The audio is loaded and cut; in the parallel mode the features of every
\* span have been computed too.
CutAudio(r) ==
    /\ step[r] = "loading"
    /\ \E m \in {"parallel", "serial"}, k \in 1..MaxChunks :
           /\ m = "parallel" => k >= 2
           /\ mode' = [mode EXCEPT ![r] = m]
           /\ total' = [total EXCEPT ![r] = k]
    /\ step' = [step EXCEPT ![r] = "submitting"]
    /\ UNCHANGED <<poolVars, serving, waiters, holder, chunk, heard, reply>>

\* Audio without a sample: the sliding loop has no window to decode.
EmptyAudio(r) ==
    /\ step[r] = "loading"
    /\ Leave(r, "ok")
    /\ UNCHANGED <<poolVars, serving, waiters, mode, total, chunk, heard>>

\* Loading, VAD or a feature computation raises: before anything is submitted,
\* or between two windows of the serial loop.
RaiseBeforeSubmit(r) ==
    /\ \/ step[r] = "loading"
       \/ step[r] = "submitting" /\ mode[r] = "serial"
    /\ Leave(r, "failed")
    /\ UNCHANGED <<poolVars, serving, waiters, mode, total, chunk, heard>>

\* for i, mel in enumerate(mels): encode_futures.append(pool.submit(i, mel))
SubmitAll(r) ==
    /\ step[r] = "submitting"
    /\ mode[r] = "parallel"
    /\ Pool!Submit(<<r, chunk[r]>>)
    /\ IF chunk[r] = total[r]
       THEN /\ step' = [step EXCEPT ![r] = "awaiting"]
            /\ chunk' = [chunk EXCEPT ![r] = 1]
       ELSE /\ chunk' = [chunk EXCEPT ![r] = @ + 1]
            /\ UNCHANGED step
    /\ UNCHANGED <<serving, waiters, holder, mode, total, heard, reply>>

\* run_encoder: one submit, then future.result().
SubmitOne(r) ==
    /\ step[r] = "submitting"
    /\ mode[r] = "serial"
    /\ Pool!Submit(<<r, chunk[r]>>)
    /\ step' = [step EXCEPT ![r] = "awaiting"]
    /\ UNCHANGED <<serving, waiters, holder, mode, total, chunk, heard, reply>>

\* Variant: whichever future is done first, as with as_completed.
TakeAnyResult(r) ==
    /\ step[r] = "awaiting"
    /\ \E i \in 1..total[r] :
           /\ future[<<r, i>>] = "result"
           /\ chunk' = [chunk EXCEPT ![r] = i]
    /\ step' = [step EXCEPT ![r] = "decoding"]
    /\ UNCHANGED <<poolVars, serving, waiters, holder, mode, total, heard, reply>>

\* future.result() of the chunk the loop is at returns.
TakeResult(r) ==
    /\ step[r] = "awaiting"
    /\ future[<<r, chunk[r]>>] = "result"
    /\ step' = [step EXCEPT ![r] = "decoding"]
    /\ UNCHANGED <<poolVars, serving, waiters, holder, mode, total, chunk, heard,
                   reply>>

\* future.result() re-raises what the worker raised.
TakeError(r) ==
    /\ step[r] = "awaiting"
    /\ future[<<r, chunk[r]>>] = "error"
    /\ Leave(r, "failed")
    /\ UNCHANGED <<poolVars, serving, waiters, mode, total, chunk, heard>>

\* decode_from_cross_kv returns and its text joins the transcript; after the
\* last chunk the request is answered.
DecodeChunk(r) ==
    /\ step[r] = "decoding"
    /\ heard' = [heard EXCEPT ![r] = Append(@, chunk[r])]
    /\ IF chunk[r] = total[r]
       THEN /\ Leave(r, "ok")
            /\ UNCHANGED chunk
       ELSE /\ chunk' = [chunk EXCEPT ![r] = @ + 1]
            /\ step' = [step EXCEPT ![r] =
                            IF mode[r] = "parallel" THEN "awaiting"
                                                    ELSE "submitting"]
            /\ UNCHANGED <<holder, reply>>
    /\ UNCHANGED <<poolVars, serving, waiters, mode, total>>

\* Variant: acquire and release without a finally.
RaiseInDecodeKeepingLock(r) ==
    /\ step[r] = "decoding"
    /\ step' = [step EXCEPT ![r] = "answered"]
    /\ reply' = [reply EXCEPT ![r] = "failed"]
    /\ UNCHANGED <<poolVars, serving, waiters, holder, mode, total, chunk, heard>>

RaiseInDecode(r) ==
    /\ step[r] = "decoding"
    /\ Leave(r, "failed")
    /\ UNCHANGED <<poolVars, serving, waiters, mode, total, chunk, heard>>

-----------------------------------------------------------------------------
\* The server gets a stop signal.
StopServing ==
    /\ serving
    /\ serving' = FALSE
    /\ UNCHANGED <<poolVars, requestVars>>

\* Variant: the model is released while requests are being served.
ReleaseModelAtOnce ==
    /\ ~serving
    /\ Pool!BeginShutdown
    /\ UNCHANGED <<serving, requestVars>>

\* lifespan after its yield: RKNNModel.release shuts the pool down.
ReleaseModel ==
    /\ ~serving
    /\ \A r \in Requests : step[r] \in {"idle", "answered"}
    /\ Pool!BeginShutdown
    /\ UNCHANGED <<serving, requestVars>>

PoolStep ==
    /\ \/ Pool!Construct
       \/ \E w \in Pool!Workers : Pool!Work(w) \/ Pool!FinishJob(w)
       \/ Pool!CloseDown
    /\ UNCHANGED <<serving, requestVars>>

Thread(r) ==
    \/ Acquire(r)
    \/ CutAudio(r)
    \/ EmptyAudio(r)
    \/ RaiseBeforeSubmit(r)
    \/ SubmitAll(r)
    \/ SubmitOne(r)
    \/ TakeResult(r)
    \/ TakeError(r)
    \/ DecodeChunk(r)
    \/ RaiseInDecode(r)

Next ==
    \/ \E r \in Requests : Arrive(r) \/ Thread(r)
    \/ StopServing
    \/ ReleaseModel
    \/ PoolStep

Spec == Init /\ [][Next]_vars

\* Threads are scheduled, every inference returns, every audio load and token
\* loop comes to an end, and a server that was told to stop does.
Fairness ==
    /\ Pool!ThreadsScheduled
    /\ Pool!InferenceReturns
    /\ \A r \in Requests : WF_vars(Thread(r))
    /\ WF_vars(ReleaseModel)

FairSpec == Spec /\ Fairness

-----------------------------------------------------------------------------
Queued == {queue[i] : i \in 1..Len(queue)} \ {None}

\* A request waits only once behind what failed requests left in the queue:
\* with its first result the queue holds no job but its own.  The lock, the
\* order of the queue and awaiting in span order are all needed for that
\* (encode_pool.py 338, decode.py 1262).
LeftoversAreAhead ==
    \A r \in Requests :
        holder = r /\ (step[r] = "decoding" \/ heard[r] # <<>>) =>
            \A j \in Queued : j[1] = r

\* Every request that got past its checks is answered, whatever failed before
\* it and whatever is still in the pool.
EveryRequestAnswered ==
    \A r \in Requests : step[r] = "waiting" ~> step[r] = "answered"

\* No thread is ever left blocked on a future that nobody will resolve.
NobodyWaitsForClosedPool ==
    \A r \in Requests :
        step[r] = "awaiting" =>
            \/ future[<<r, chunk[r]>>] # "pending"
            \/ ~shutdown

Service == INSTANCE TranscriptionService WITH
    line <- IF holder = None THEN waiters ELSE <<holder>> \o waiters,
    cut  <- total

\* Seen from the clients, pool and futures are invisible: requests are served
\* one at a time in order of arrival, and a successful answer holds every
\* chunk once and in order, although workers finish in any order.
ImplementsTranscription == Service!Spec
=============================================================================
