---------------------------- MODULE ModelStartup ----------------------------
(***************************************************************************)
(* How the server gets its model and gives it back: _load_model_sync and   *)
(* the lifespan (app/api_server.py), RKNNModel (app/decode.py), the number *)
(* of encoder workers and the NPU probe (app/encode_pool.py), the RAM      *)
(* estimates (app/system_memory.py), and the file of the VAD's model       *)
(* (app/speech_cut.py), which a start without it downloads and which       *)
(* outlives the process.                                                   *)
(*                                                                         *)
(* The number of workers is chosen three times: from MemAvailable or the   *)
(* environment, then checked against MemAvailable, which other processes   *)
(* change meanwhile, and then reduced by probing: a child process loads as *)
(* many sessions as are wanted and runs one of them; one that does not     *)
(* come back in time is killed, and may outlive the kill, with what it     *)
(* holds of the NPU.  Sessions and threads of the pool are EncoderPool's   *)
(* subject; here a session is a context on the NPU.                        *)
(***************************************************************************)
EXTENDS Integers, FiniteSets, Functions

CONSTANTS Settings,     \* environments: [parallel, requested, max]
          Cores,        \* dedicated NPU cores of the board
          Rooms,        \* numbers of encoder contexts that may fit the NPU
          Memory,       \* values MemAvailable may have
          Unknown,      \* /proc/meminfo cannot be read
          EncoderNeed,  \* estimated RAM of one encoder context
          DecoderNeed   \* estimated RAM of the decoder

\* WHISPER_ENCODER_WORKERS may be any integer, the maximum is at least 1 (by
\* default the number of cores).
ASSUME StartupAssumption ==
    /\ Cores \in Nat \ {0}
    /\ Rooms \subseteq Nat
    /\ Memory \subseteq Nat
    /\ Unknown \notin Nat
    /\ EncoderNeed \in Nat /\ DecoderNeed \in Nat
    /\ Settings \subseteq [parallel : BOOLEAN, requested : Int, max : Nat \ {0}]

VARIABLES
    set,        \* the environment of this process
    room,       \* how many encoder contexts the NPU holds
    avail,      \* MemAvailable
    checked,    \* history: what the RAM check of this start read of it
    at,         \* where startup or shutdown is
    n,          \* workers wanted: n_workers
    try,        \* the number of workers a probe tries: try_n, then `fit`
    lingering,  \* contexts held by the probe of each size that was killed
    moved,      \* history: MemAvailable changed since the pick
    sessions,   \* encoder contexts of the server's process
    decoder,    \* the decoder is loaded
    vad,        \* _vad_session is loaded
    cause,      \* what the startup failed of
    file,       \* silero_vad.onnx: "none", "stub" (up to 100 kB of it), "cut"
                \* (more, but not all) or "whole"
    broken      \* history: a download was broken off after 100 kB

disk == <<file, broken>>
memory == <<avail, moved, checked>>
loaded == <<sessions, decoder, vad>>
vars == <<set, room, memory, at, n, try, lingering, loaded, cause, disk>>

Sizes == 1..Cores

Init ==
    /\ set \in Settings
    /\ room \in Rooms
    /\ avail \in Memory \cup {Unknown}
    /\ at = "files"
    /\ n = 1
    /\ try = 0
    /\ lingering = [t \in Sizes |-> 0]
    /\ moved = FALSE
    /\ checked = Unknown
    /\ sessions = 0
    /\ decoder = FALSE
    /\ vad = FALSE
    /\ cause = "none"
    /\ file \in {"none", "whole"}
    /\ broken = FALSE

-----------------------------------------------------------------------------
Least(a, b) == IF a <= b THEN a ELSE b

Most(a, b) == IF a >= b THEN a ELSE b

\* estimate_encoder_pool_ram_bytes, and estimate_model_ram_bytes for k = 1.
Need(k) == EncoderNeed * k + DecoderNeed

HasEnoughRam(need) == avail = Unknown \/ avail >= need

\* The ceiling of resolve_encoder_worker_count.
MaxWorkers == Most(1, Least(set.max, Cores))

\* Variant: a request that is not below the maximum means "auto".
RequestedMaxIsAuto(r) == IF r < 0 \/ r >= MaxWorkers THEN 0 ELSE r

\* A wanted number of workers, clipped; 0 is "auto".
Requested(r) == IF r < 0 THEN 0 ELSE Least(r, MaxWorkers)

\* Variant: the decoder is left out of the pick.
PickWithoutDecoder ==
    IF avail = Unknown THEN MaxWorkers
    ELSE CHOOSE k \in 0..MaxWorkers :
            /\ k > 0 => avail >= EncoderNeed * k
            /\ \A i \in (k + 1)..MaxWorkers : ~(avail >= EncoderNeed * i)

\* pick_encoder_worker_count: the largest number that fits, 0 if none does.
PickEncoderWorkerCount ==
    IF avail = Unknown THEN MaxWorkers
    ELSE CHOOSE k \in 0..MaxWorkers :
            /\ k > 0 => HasEnoughRam(Need(k))
            /\ \A i \in (k + 1)..MaxWorkers : ~HasEnoughRam(Need(i))

Resolve(r) == IF Requested(r) = 0 THEN PickEncoderWorkerCount ELSE Requested(r)

Fail(why) == at' = "failed" /\ cause' = why

Goto(next) == at' = next /\ UNCHANGED cause

\* Encoder contexts on the NPU besides those of a probe that runs.
InUse == sessions + FoldFunction(+, 0, lingering)

-----------------------------------------------------------------------------
\* Other processes.
MemoryChanges ==
    /\ at \in {"files", "pick", "check", "build"}
    /\ avail' \in (Memory \cup {Unknown}) \ {avail}
    /\ moved' = TRUE
    /\ UNCHANGED <<disk, set, room, checked, at, n, try, lingering, loaded, cause>>

\* The model's files are there, or not.
CheckFiles ==
    /\ at = "files"
    /\ Goto("pick") \/ Fail("files")
    /\ UNCHANGED <<disk, set, room, memory, n, try, lingering, loaded>>

\* The first reading of MemAvailable, unless the number is forced.
PickWorkers ==
    /\ at = "pick"
    /\ n' = IF set.parallel THEN Resolve(set.requested) ELSE 1
    /\ IF n' < 1 THEN Fail("ram") ELSE Goto("check")
    /\ moved' = FALSE
    /\ UNCHANGED <<disk, set, room, avail, checked, try, lingering, loaded>>

\* The second reading.
CheckRam ==
    /\ at = "check"
    /\ IF HasEnoughRam(Need(n)) THEN Goto("build") ELSE Fail("ram")
    /\ checked' = avail
    /\ UNCHANGED <<disk, set, room, avail, moved, n, try, lingering, loaded>>

\* Variant: the model reads the environment, and MemAvailable, for itself.
BuildPoolAnew ==
    /\ at = "build"
    /\ set.parallel
    /\ n' = Most(1, Resolve(set.requested))
    /\ try' = Least(n', Cores)
    /\ Goto("probe")
    /\ UNCHANGED <<disk, set, room, memory, lingering, loaded>>

\* RKNNModel.__init__ resolves the number again, this time as a request.
BuildPool ==
    /\ at = "build"
    /\ set.parallel
    /\ n' = Resolve(n)
    /\ try' = Least(n', Cores)
    /\ Goto("probe")
    /\ UNCHANGED <<disk, set, room, memory, lingering, loaded>>

\* WHISPER_PARALLEL_ENCODE=0: one session on the cores of the mask.
BuildSerial ==
    /\ at = "build"
    /\ ~set.parallel
    /\ \/ Goto("decoder") /\ sessions' = 1
       \/ Fail("session") /\ UNCHANGED sessions
    /\ UNCHANGED <<disk, set, room, memory, n, try, lingering, decoder, vad>>

-----------------------------------------------------------------------------
\* A child process that will come back or will not.
StartProbe ==
    /\ at = "probe"
    /\ Goto("probing") \/ Goto("hanging")
    /\ UNCHANGED <<disk, set, room, memory, n, try, lingering, loaded>>

\* Variant: the first size is taken without looking at the exit code.
ProbePassesUnseen ==
    /\ at = "probing"
    /\ Goto("loading")
    /\ UNCHANGED <<disk, set, room, memory, n, try, lingering, loaded>>

\* Exit code 0: all sessions were loaded, one ran, and all were released.
ProbePasses ==
    /\ at = "probing"
    /\ InUse + try <= room
    /\ Goto("loading")
    /\ UNCHANGED <<disk, set, room, memory, n, try, lingering, loaded>>

\* The next smaller size; EncoderPool.__init__ raises when none is left.
NextProbe ==
    /\ try' = try - 1
    /\ IF try' < 1 THEN Fail("probe") ELSE Goto("probe")

\* A load fails, the native library aborts, or the warm-up returns None.
ProbeFails ==
    /\ at = "probing"
    /\ NextProbe
    /\ UNCHANGED <<disk, set, room, memory, n, lingering, loaded>>

\* Variant: the join has no timeout, so nothing is ever killed.
ProbeHangs ==
    /\ FALSE
    /\ UNCHANGED vars

\* Neither exit nor answer within 180 s: the child is killed, and after 15 s
\* the loop goes on whether or not it is gone.
ProbeIsKilled ==
    /\ at \in {"probing", "hanging"}
    /\ NextProbe
    /\ \E k \in 0..Least(try, Most(0, room - InUse)) :
           lingering' = [lingering EXCEPT ![try] = k]
    /\ UNCHANGED <<disk, set, room, memory, n, loaded>>

\* A killed child is gone at last.
KilledProbeDies(t) ==
    /\ lingering[t] > 0
    /\ lingering' = [lingering EXCEPT ![t] = 0]
    /\ UNCHANGED <<disk, set, room, memory, at, n, try, loaded, cause>>

-----------------------------------------------------------------------------
SessionLoads ==
    /\ InUse < room
    /\ sessions' = sessions + 1
    /\ Goto(IF sessions' = try THEN "threads" ELSE "loading")

SessionFails == Fail(IF InUse < room THEN "session" ELSE "room")

\* One session of _load_sessions, which fails for lack of room or for a
\* reason of its own; then those loaded so far are released.
LoadSession ==
    /\ at = "loading"
    /\ \/ SessionLoads
       \/ SessionFails /\ sessions' = 0
    /\ UNCHANGED <<disk, set, room, memory, n, try, lingering, decoder, vad>>

\* _start_threads; when a thread cannot be started, the constructor raises
\* with all sessions loaded, and nothing but the end of the process gives them
\* back.
StartThreads ==
    /\ at = "threads"
    /\ Goto("decoder") \/ Fail("threads")
    /\ UNCHANGED <<disk, set, room, memory, n, try, lingering, loaded>>

\* The decoder's session; the pool stays as it is when it fails.
LoadDecoder ==
    /\ at = "decoder"
    /\ \/ /\ decoder' = TRUE
          /\ Goto(IF set.parallel THEN "vad" ELSE "serving")
       \/ /\ UNCHANGED decoder
          /\ Fail("decoder")
    /\ UNCHANGED <<disk, set, room, memory, n, try, lingering, sessions, vad>>

\* Variant: any file will do.
FileTakenIfAny == file # "none"

\* ensure_vad_model asks for a file of more than 100 kB, whoever wrote it.
FileTaken == file \in {"cut", "whole"}

\* urlretrieve opens the file once the server answered, and it may not.
EnsureVadModel ==
    /\ at = "vad"
    /\ \/ FileTaken /\ Goto("session") /\ UNCHANGED file
       \/ ~FileTaken /\ Goto("downloading") /\ file' = "stub"
       \/ ~FileTaken /\ Fail("vad") /\ UNCHANGED file
    /\ UNCHANGED <<broken, set, room, memory, n, try, lingering, loaded>>

\* The file grows in place, until it is whole or the connection is lost
\* (ContentTooShortError).
Download ==
    /\ at = "downloading"
    /\ \/ file = "stub" /\ file' = "cut" /\ UNCHANGED <<at, cause, broken>>
       \/ file' = "whole" /\ Goto("session") /\ UNCHANGED broken
       \/ Fail("vad") /\ broken' = (broken \/ file = "cut") /\ UNCHANGED file
    /\ UNCHANGED <<set, room, memory, n, try, lingering, loaded>>

\* Variant: a failing preload is left to the first request.
PreloadVadOptional ==
    /\ at = "session"
    /\ Goto("serving")
    /\ vad' = (file = "whole")
    /\ UNCHANGED <<disk, set, room, memory, n, try, lingering, sessions, decoder>>

\* The rest of preload_vad: the ONNX session, for which part of a model is
\* none.
PreloadVad ==
    /\ at = "session"
    /\ \/ file = "whole" /\ Goto("serving") /\ vad' = TRUE
       \/ Fail("vad") /\ UNCHANGED vad
    /\ UNCHANGED <<disk, set, room, memory, n, try, lingering, sessions, decoder>>

-----------------------------------------------------------------------------
\* External: the server stops.
StopServing ==
    /\ at = "serving"
    /\ Goto("closing")
    /\ UNCHANGED <<disk, set, room, memory, n, try, lingering, loaded>>

\* RKNNModel.release.
ReleaseModel ==
    /\ at = "closing"
    /\ sessions' = 0
    /\ decoder' = FALSE
    /\ Goto("forget")
    /\ UNCHANGED <<disk, set, room, memory, n, try, lingering, vad>>

\* A VAD session a request loaded is forgotten too.
ReleaseVad ==
    /\ at = "forget"
    /\ vad' = FALSE
    /\ Goto("stopped")
    /\ UNCHANGED <<disk, set, room, memory, n, try, lingering, sessions, decoder>>

\* External: uvicorn ends the process when the startup failed.  Only that
\* gives back what the startup had loaded.
ProcessExits ==
    /\ at = "failed"
    /\ Goto("exited")
    /\ sessions' = 0
    /\ decoder' = FALSE
    /\ vad' = FALSE
    /\ UNCHANGED <<disk, set, room, memory, n, try, lingering>>

\* External: the process is killed.
Killed ==
    /\ at \notin {"stopped", "failed", "exited"}
    /\ Goto("exited")
    /\ sessions' = 0
    /\ decoder' = FALSE
    /\ vad' = FALSE
    /\ broken' = (broken \/ (at = "downloading" /\ file = "cut"))
    /\ UNCHANGED <<file, set, room, memory, n, try, lingering>>

\* External: docker starts the container again (`restart: unless-stopped`)
\* with the file system as it was; of the old processes nothing is left.
Restart ==
    /\ at = "exited"
    /\ at' = "files"
    /\ n' = 1 /\ try' = 0
    /\ lingering' = [t \in Sizes |-> 0]
    /\ moved' = FALSE /\ checked' = Unknown
    /\ cause' = "none"
    /\ UNCHANGED <<disk, set, room, avail, loaded>>

\* What the server's own code does, and the probes, whose results are waited
\* for with a timeout.
OwnStep ==
    \/ CheckFiles \/ PickWorkers \/ CheckRam \/ BuildPool
    \/ StartProbe \/ ProbePasses \/ ProbeFails \/ ProbeIsKilled
    \/ StartThreads \/ ReleaseVad \/ ProcessExits

\* Calls of RKNN and ONNX in this process.
NativeCall ==
    BuildSerial \/ LoadSession \/ LoadDecoder \/ PreloadVad \/ ReleaseModel

\* urlretrieve.
NetworkCall == EnsureVadModel \/ Download

Step == OwnStep \/ NativeCall \/ NetworkCall

Next ==
    \/ Step
    \/ MemoryChanges
    \/ \E t \in Sizes : KilledProbeDies(t)
    \/ StopServing
    \/ Killed
    \/ Restart

Spec == Init /\ [][Next]_vars

\* The startup goes on, and a probe that does not come back is killed.
\* Nothing makes a killed probe die.
FairSpec == Spec /\ WF_vars(OwnStep)

\* Loads and downloads come back.  None of them has a timeout, so this is an
\* assumption of the property that needs it, not of FairSpec.
CallsReturn == WF_vars(NativeCall) /\ WF_vars(NetworkCall)

-----------------------------------------------------------------------------
\* A server that accepts requests has everything they need, and no more
\* workers than dedicated cores or than it was allowed.
ServingIsComplete ==
    at = "serving" =>
        /\ decoder
        /\ set.parallel => vad /\ sessions = try /\ try \in 1..MaxWorkers
        /\ ~set.parallel => sessions = 1

\* Resolving the number a second time, in RKNNModel, asks for the workers the
\* RAM was checked for.
SecondResolutionAgrees == [][at = "build" /\ at' = "probe" => n' = n]_vars

\* The number of workers is one that can be loaded: each has a core of its
\* own, so that the errors at encode_pool.py 86 and 217 are never raised, and
\* what RAM allowed is not refused by the RAM check that follows, unless
\* MemAvailable changed between the two readings.
PickIsUsable ==
    /\ at \in {"check", "build", "probe", "probing", "hanging", "loading"} =>
           n \in 1..Least(set.max, Cores) /\ try <= n
    /\ cause = "ram" /\ n >= 1 =>
           moved \/ ~set.parallel \/ Requested(set.requested) > 0

\* What a probe showed to fit does fit when the server loads it, whatever the
\* killed probes still held when it was shown.
ProbedSessionsFit == cause # "room"

\* What is loaded is never more than what the RAM check looked at, although
\* RKNNModel resolves the number of workers again, with a MemAvailable that
\* may have grown, and the pool loads what the probes left of it
\* (api_server.py 197-216, decode.py 563, encode_pool.py 231-249).
LoadedWasChecked ==
    sessions > 0 /\ checked # Unknown => checked >= Need(sessions)

\* A file is only taken for the model (speech_cut.py 64) when it is, or when
\* an earlier start was killed or cut off after 100 kB of it.  In that case no
\* later start gets past its VAD: nothing replaces the file.
TakenFileIsWhole ==
    at = "session" => file = "whole" \/ (file = "cut" /\ broken)

\* Every startup comes to an end, whatever the probes do and whichever step
\* fails, if loads and downloads come back.
StartupEnds == CallsReturn => (at = "files" ~> at \in {"serving", "exited"})
=============================================================================
