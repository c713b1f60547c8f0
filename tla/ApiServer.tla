----------------------------- MODULE ApiServer -----------------------------
(***************************************************************************)
(* A request from its arrival to its answer (app/api_server.py): checks    *)
(* that need no body, the upload, which is then held in memory until the   *)
(* answer, the estimate of its peak of RAM against MemAvailable            *)
(* (app/system_memory.py), the wait for _infer_lock, loading the audio,    *)
(* and decoding it.  Other processes use memory too, and the server may be *)
(* killed at any time; it then starts again with nothing but its disk.     *)
(*                                                                         *)
(* What an estimate is compared with has been read before the wait, while  *)
(* the request that holds the lock may not have allocated its share.  How  *)
(* much a request really takes is not what was estimated: neither length   *)
(* nor compression of the audio is checked, and the parallel decoding      *)
(* keeps the features and the encoder's result of every span to the end.   *)
(* What pool and futures do meanwhile is ParallelDecode's subject.         *)
(***************************************************************************)
EXTENDS Integers, Sequences, FiniteSets, Functions

CONSTANTS Requests, None,
          BodySizes,    \* sizes of uploads
          MaxUpload,    \* MAX_UPLOAD_MB
          Ram,          \* memory of the board without the loaded model
          OtherUses,    \* what other processes may take of it
          Expansion,    \* PCM_EXPANSION_FACTOR
          MaxPcm,       \* PCM of WHISPER_MAX_AUDIO_SECONDS
          Fixed,        \* estimate: one mel, the decoder's cache, an overhead
          Cache,        \* the decoder's cache
          Pcms,         \* PCM that uploads really become
          SpanRam,      \* features and encoder result of one span
          MaxSpans,
          Environments  \* for AudioLoad

ASSUME ApiAssumption ==
    /\ None \notin Requests /\ IsFiniteSet(Requests)
    /\ BodySizes \subseteq Nat /\ OtherUses \subseteq Nat /\ Pcms \subseteq Nat
    /\ {MaxUpload, Ram, Expansion, MaxPcm} \subseteq Nat
    /\ {Fixed, Cache, SpanRam, MaxSpans} \subseteq Nat

VARIABLES env, load, pos, temp, held, heard, files, stray
loadVars == <<env, load, pos, temp, held, heard, files, stray>>

Load == INSTANCE AudioLoad

\* Without PyAV nobody decodes with it.
ASSUME EnvironmentsAssumption ==
    \A e \in Environments :
        /\ e.av \in BOOLEAN
        /\ e.can \subseteq Load!Decoders
        /\ ~e.av => e.can \subseteq {"soundfile", "ffmpeg"}

VARIABLES
    step,       \* where the handler or the executor thread of a request is
    status,     \* what it was answered
    size,       \* of its body
    seen,       \* history: what others used when it was admitted
    waiters,    \* requests waiting for _infer_lock, oldest first
    holder,     \* the request that holds the lock, or None
    pcm,        \* PCM of the holder
    spans,      \* features and encoder results the holder keeps
    others      \* what other processes use

work == <<pcm, spans>>
vars == <<loadVars, step, status, size, seen, waiters, holder, work, others>>

Init ==
    /\ Load!Init
    /\ others \in OtherUses
    /\ step = [r \in Requests |-> "idle"]
    /\ status = [r \in Requests |-> 0]
    /\ size = [r \in Requests |-> 0]
    /\ seen = [r \in Requests |-> 0]
    /\ waiters = <<>>
    /\ holder = None
    /\ pcm = 0 /\ spans = 0

-----------------------------------------------------------------------------
Lesser(a, b) == IF a <= b THEN a ELSE b

\* estimate_request_ram_bytes and estimate_pcm_bytes.
Estimate(body) == body + Lesser(body * Expansion, MaxPcm) + Fixed

\* What the request being decoded takes besides its body.
Taken ==
    IF holder # None /\ step[holder] = "decoding"
    THEN pcm + Cache + spans * SpanRam
    ELSE 0

Total(f) == FoldFunction(+, 0, f)

\* Bodies live as long as their handlers.
Bodies == Total(size)

\* MemAvailable, which is taken to be readable; less than nothing if it does
\* not suffice.
Free == Ram - others - Bodies - Taken

\* 401, 503, 400: the key, the model, or a parameter is missing or wrong.
Refuse(r) ==
    /\ step[r] = "idle"
    /\ step' = [step EXCEPT ![r] = "answered"]
    /\ \E s \in {401, 503, 400} : status' = [status EXCEPT ![r] = s]
    /\ UNCHANGED <<loadVars, size, seen, waiters, holder, work, others>>

\* Variant: memory is checked before the body has been read.
VerdictUnread(body) ==
    IF body > MaxUpload THEN 413
    ELSE IF Free < Estimate(body) THEN 507 ELSE 0

\* What _read_upload and _check_request_ram make of a body that is in memory
\* by now.
Verdict(body) ==
    IF body > MaxUpload THEN 413
    ELSE IF Free - body < Estimate(body) THEN 507 ELSE 0

\* The body is read, checked, and either dropped or taken along to the lock;
\* dropped too when the directory for temporary files cannot be made.
Upload(r) ==
    /\ step[r] = "idle"
    /\ \E body \in BodySizes :
           /\ \/ status' = [status EXCEPT ![r] = Verdict(body)]
              \/ Verdict(body) = 0 /\ status' = [status EXCEPT ![r] = 500]
           /\ IF status'[r] = 0
              THEN /\ step' = [step EXCEPT ![r] = "waiting"]
                   /\ waiters' = Append(waiters, r)
                   /\ size' = [size EXCEPT ![r] = body]
                   /\ seen' = [seen EXCEPT ![r] = others]
              ELSE /\ step' = [step EXCEPT ![r] = "answered"]
                   /\ UNCHANGED <<waiters, size, seen>>
    /\ UNCHANGED <<loadVars, holder, work, others>>

-----------------------------------------------------------------------------
\* `async with _infer_lock`, and the executor begins to load the audio.
Acquire(r) ==
    /\ step[r] = "waiting"
    /\ holder = None
    /\ Head(waiters) = r
    /\ holder' = r
    /\ waiters' = Tail(waiters)
    /\ step' = [step EXCEPT ![r] = "loading"]
    /\ Load!Begin
    /\ UNCHANGED <<status, size, seen, work, others>>

LoadStep(r) ==
    /\ step[r] = "loading"
    /\ Load!Step
    /\ UNCHANGED <<step, status, size, seen, waiters, holder, work, others>>

\* The samples are there: the request takes what it takes.
Loaded(r) ==
    /\ step[r] = "loading"
    /\ load = "loaded"
    /\ Load!Take
    /\ pcm' \in Pcms
    /\ step' = [step EXCEPT ![r] = "decoding"]
    /\ UNCHANGED <<status, size, seen, waiters, holder, spans, others>>

\* The handler returns or raises: lock, body and samples are given back.
Leave(r, s) ==
    /\ step' = [step EXCEPT ![r] = "answered"]
    /\ status' = [status EXCEPT ![r] = s]
    /\ size' = [size EXCEPT ![r] = 0]
    /\ seen' = [seen EXCEPT ![r] = 0]
    /\ holder' = None
    /\ pcm' = 0 /\ spans' = 0

\* Variant: an OSError that nobody expected ends the thread and no more.
LoadRaisesQuietly(r) ==
    /\ step[r] = "loading"
    /\ load = "refused"
    /\ Leave(r, 400)
    /\ Load!Take
    /\ UNCHANGED <<waiters, others>>

\* RuntimeError and FileNotFoundError are the client's fault, another OSError
\* goes through.
LoadRaises(r) ==
    /\ step[r] = "loading"
    /\ \/ load = "refused" /\ Leave(r, 400)
       \/ load = "error" /\ \E s \in {400, 500} : Leave(r, s)
    /\ Load!Take
    /\ UNCHANGED <<waiters, others>>

\* The parallel decoding gets features and encoder result of one more span.
KeepSpan(r) ==
    /\ step[r] = "decoding"
    /\ spans < MaxSpans
    /\ spans' = spans + 1
    /\ UNCHANGED <<loadVars, step, status, size, seen, waiters, holder, pcm,
                   others>>

\* A transcript, an exception that is mapped, or one that is not.
DecodeEnds(r) ==
    /\ step[r] = "decoding"
    /\ \E s \in {200, 400, 500} : Leave(r, s)
    /\ UNCHANGED <<loadVars, waiters, others>>

-----------------------------------------------------------------------------
OthersChange ==
    /\ others' \in OtherUses \ {others}
    /\ UNCHANGED <<loadVars, step, status, size, seen, waiters, holder, work>>

\* External: the process is killed and started again.
Killed ==
    /\ \E r \in Requests : step[r] \in {"waiting", "loading", "decoding"}
    /\ step' = [r \in Requests |->
                    IF step[r] \in {"idle", "answered"} THEN step[r]
                    ELSE "lost"]
    /\ size' = [r \in Requests |-> 0]
    /\ seen' = [r \in Requests |-> 0]
    /\ waiters' = <<>>
    /\ holder' = None
    /\ pcm' = 0 /\ spans' = 0
    /\ Load!Kill
    /\ UNCHANGED <<status, others>>

Thread(r) ==
    \/ Acquire(r) \/ LoadStep(r) \/ Loaded(r) \/ LoadRaises(r) \/ DecodeEnds(r)

Next ==
    \/ \E r \in Requests : Refuse(r) \/ Upload(r) \/ Thread(r) \/ KeepSpan(r)
    \/ OthersChange
    \/ Killed

Spec == Init /\ [][Next]_vars

\* Threads are scheduled, and loading and decoding come to an end.
FairSpec == Spec /\ \A r \in Requests : WF_vars(Thread(r))

-----------------------------------------------------------------------------
\* RAM is checked once, before the wait for _infer_lock (api_server.py 367),
\* when the request that holds the lock may not have taken its share.  All the
\* same, if others take no more than they took when the requests under way were
\* admitted, and the holder no more than was estimated, memory suffices for it
\* and the upload of one more: only with two or more behind it, each admitted
\* as if the holder took nothing, may it run short.
EnoughForTwo ==
    /\ holder # None /\ step[holder] = "decoding"
    /\ size[holder] + Taken <= Estimate(size[holder])
    /\ Len(waiters) <= 1
    /\ \A r \in {holder} \cup Range(waiters) : others <= seen[r]
    => Free >= 0

\* Each temporary file belongs to the load that runs, or to one that could
\* not write it, could not remove it, or was killed (decode.py 290, 391-393).
TempFilesAccounted == files = stray + IF held THEN 1 ELSE 0

\* Unless a PyAV that failed had read from the upload, an upload that one of
\* the decoders can decode is decoded, all of it, and any other refused.
LoadsIfAnyCanUnlessRead == temp = "start" => Load!LoadsIfAnyCan

\* system_memory.py 84: "Peak host RAM for one /v1/audio/transcriptions request
\* (intentionally high)".
EstimateIsPeak ==
    holder # None /\ step[holder] = "decoding" =>
        size[holder] + Taken <= Estimate(size[holder])

\* Whatever fails, every upload that was admitted is answered, unless the
\* server is killed.
EveryUploadAnswered ==
    \A r \in Requests : step[r] = "waiting" ~> step[r] \in {"answered", "lost"}
=============================================================================
