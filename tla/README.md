# TLA+ specifications of whisper-rknn

whisper-rknn is an OpenAI compatible speech-to-text server (FastAPI) for
Rockchip boards.  The Whisper encoder runs on the NPU, one RKNN session and one
thread for each NPU core; the decoder runs on the CPU; long audio is cut into
chunks.  These modules specify the parts of it in which order, concurrency,
failure or boundary arithmetic decide whether a transcript is complete, and
check them with TLC and TLAPS.  `PROJECT.json` lists components, runs, the
source lines each definition models (`map`), hazards, findings and theorems.

## 1. Inventory

| component | source | state it keeps | operations | modelled |
|---|---|---|---|---|
| encoder pool | `app/encode_pool.py` 199-350 | sessions, threads, queue, shutdown event, futures | construct, `submit`, worker loop, `shutdown` | `EncoderPool`, `EncodeService` |
| request serving around the pool | `app/api_server.py` 321-465, `app/decode.py` 621-639, 1178-1338 | `_infer_lock`, the chunks submitted, awaited and decoded | acquire, cut, submit, await, decode, raise, release model | `ParallelDecode`, `TranscriptionService` |
| sequential sliding windows | `app/decode.py` 1067-1159, 1341-1519 | start, end, count of windows, segments | choose window, decode it, next start | `SlidingDecode` |
| VAD span planning | `app/speech_cut.py` 152-279 | start, scan of the frames, longest pause, spans | tail, forced cut, scan, cut | `VoiceSpans` |
| stream windows | `app/decode.py` 704-764, 1162-1175, 1522-1552 | start, spans, texts | slide, merge tail, decode, join | `StreamDecode` |
| token decoding | `app/decode.py` 482-515, 874-986, 1048-1064 | cache rows, offset, answer | feed the prompt, accept a prediction, stop on a repetition, limit, truncation | `TokenDecode` |
| timestamp parsing | `app/decode.py` 802-871 | open segment | pair, drop empty segments, text | `TokenDecode` |
| stitching | `app/decode.py` 767-799 | - | longest word overlap | `StreamDecode` |
| audio loading | `app/decode.py` 245-403 | stream position, temporary file | PyAV, the file, soundfile, ffmpeg, `finally` | `AudioLoad` |
| worker count and NPU probe | `app/encode_pool.py` 40-196, 353-393, `app/system_memory.py` 29-43, 96-160 | workers wanted, probe process | RAM pick, request, probe, kill | `ModelStartup` |
| model startup and release | `app/api_server.py` 142-259, `app/decode.py` 549-602, 621-631 | `_model`, `_encoder_pool`, `_vad_session` | check, build, load, fail, release | `ModelStartup` |
| RAM admission, API handlers | `app/api_server.py` 262-465, `app/system_memory.py` 29-90 | bodies, lock, memory of the board | refuse, read, check RAM, wait, load, decode, answer | `ApiServer` |
| VAD model file and session | `app/speech_cut.py` 47-129 | the file on disk, `_vad_session` | download, broken connection, kill, restart, preload, release | `ModelStartup` |
| features, VAD and ONNX inference, formats, languages, scripts | `app/audio_features.py`, `app/onnx_decoder.py`, `app/openai_response.py`, `app/whisper_languages.py`, `scripts/` | - | numeric, formatting, tables | not modelled: nothing in them for a model checker, see 8 |

How they interact.  A handler coroutine validates a request, reads the upload,
estimates its RAM, and then waits for the asyncio lock `_infer_lock`; under it
an executor thread loads the audio and decodes it.  Audio longer than a chunk
is cut by the VAD (`VoiceSpans`), its features are submitted to the encoder
pool all at once and the results are awaited in span order; everything else
(streaming, short audio, `WHISPER_PARALLEL_ENCODE=0`) goes window by window
(`SlidingDecode`) through `run_encoder`, which is one submit and one wait.  The
pool's workers share a `queue.Queue`; a future carries each result back.  The
lifespan of the application loads the model before the first request and
releases it, with the pool, after the last one.

What is hard here: the interleavings of workers, submitters and `shutdown`
(futures are awaited without a timeout, so a lost job is a hung server); a join
with a timeout followed by an unconditional release; jobs that a failed request
leaves in the pool for the next one; windows pulled back by truncation,
timestamps, overlap and short tails at the same time; clamping of cuts to spans
and frames; memory that is checked long before it is used; files that outlive
the process that wrote them; an answer cut in the middle of a character.
The list with source lines is `hazards` in `PROJECT.json`.

What makes each modelled component correct:

* encoder pool: no job is lost or encoded twice, jobs start in order, no
  inference begins on a released session, every thread finds its sentinel, and
  `shutdown` returns;
* request serving: one request at a time in order of arrival, a successful
  answer holds every chunk once and in order, a failure does not block others,
  nobody waits for a closed pool;
* sliding windows: the loop advances, hears all of the audio, and keeps
  segments in order;
* stream windows: they hear all of the audio, each hears something new, and the
  joined text has every word once and in order;
* token decoding: the cache holds the text so far and no row outside of it is
  written, the loop ends, a stop on a repetition takes out repetitions only,
  the segments are the pairs of timestamps, complete answers are valid text;
* audio loading: no temporary file is forgotten, whatever fails, and an upload
  that some decoder can decode is decoded, all of it;
* admission and handlers: a request that is admitted is answered, and has the
  memory it was admitted for although it was checked before it waited;
* startup: a server that serves has everything it needs and no worker without a
  core, the numbers chosen at different times agree, no more is loaded than RAM
  was checked for, a failure ends the startup, and a file is taken for the
  VAD's model only if it is one;
* span planning: spans partition the audio within the limit and cut in silence.

## 2. Modules

`EncodeService` is the abstract pool: accepted jobs wait in order, at most
`Capacity` run, each started job is answered once, and after the close nothing
has to be started any more.

`EncoderPool` is the class, one action for each step between two points at
which other threads can interfere.

| variable | code |
|---|---|
| `phase`, `done` | where the owner thread is in `__init__` / `shutdown`, and how far its loop over the workers is |
| `session[w]` | `_sessions[w]`: absent, loaded, released |
| `pc[w]`, `held[w]` | where `_worker_loop` of worker `w` is; the item it holds |
| `queue`, `unfinished` | `_queue` and its `unfinished_tasks` |
| `shutdown` | `_shutdown.is_set()` |
| `future[j]` | the state of the `Future` of the call `j` of `submit` |
| `expired` | history: workers whose join ran out |

`LoadSession`/`LoadFails`/`StartThread`/`StartFails` are the constructor (after
a thread that cannot be started the sessions stay loaded and the threads before
it run on), `Submit` is
`submit` (which does not look at the event), `EnterGet`, `SeeShutdown`,
`GetEmpty`, `GetSentinel`, `GetJob`, `FinishJob` are the worker loop,
`BeginShutdown`, `PutSentinel`, `JoinReturns`, `JoinExpires`, `Teardown` are
`shutdown`.  A join can only expire while the worker is in inference: every
other step of a worker lasts at most the 0.25 s of its `get`, and the joined
thread is always running.  A wait that ends by its timeout just before an item
arrives is `GetEmpty` followed by the `Put`.

`TranscriptionService` is what clients see: a line of requests, each cut into
chunks, heard one after the other, answered once.

`ParallelDecode` composes requests with one `EncoderPool` (`INSTANCE`, all its
variables are the composition's).  A job is a pair of request and chunk index.
`step[r]` is where the handler and its executor thread are; every place that
can raise has an action (`RaiseBeforeSubmit`, `TakeError`, `RaiseInDecode`),
and raising leaves the jobs already submitted in the pool, as the code does.
`StopServing` is external: uvicorn stops accepting, and runs the end of the
lifespan (`ReleaseModel`) only when all requests are answered.  A decoded
window that is decoded again after a truncation is one more window of the
serial mode.

`SlidingDecode` is the loop of `decode_utterance`; what the decoder returns
(truncated or not, the largest segment end, a segment start) is arbitrary.

`VoiceSpans` is `iter_voice_aware_spans` with `find_cut_sample`, whose scan is
one action per frame.  The VAD is an arbitrary set of speech frames.

`StreamDecode` is `decode_utterance_stream`: the sliding windows, the merge of a
short tail, the decoding of each and the join of the texts.  A unit of audio is
a word or a pause, so `Heard` is what a decoder that makes no mistake returns,
and the joined text shows what is lost or repeated.  `said[u]` is the word in
unit `u`: the model joins by words, which may recur, and remembers positions,
so that it sees which of two equal words was lost.  Truncated windows are
`SlidingDecode`'s subject; streaming ignores the truncation.

`TokenDecode` is one call of `decode_from_cross_kv` with `build_sot_sequence`,
`resolve_decode_token_limit` and `parse_timestamp_tokens`.

| variable | code |
|---|---|
| `cache[p]`, `offset` | row `p` of `self_kv`, as the token it was computed from; `offset` |
| `idx`, `ans` | the last prediction, the answer |
| `predicted` | history: the answer before a repetition was taken out |
| `repeated`, `truncated` | `stopped_on_repeat`, the truncation flag |
| `segments`, `text`, `invalid` | the result, or `UnicodeDecodeError` |

The network predicts any token at any time.  A token is a word, a timestamp or
half of a character that is spelled with two tokens (`Lead`, `Trail`).
`FeedPrompt` and `Accept` each store one row; `StopOnRepeat` is the n-gram rule;
`Finish` is everything after the loop.  `Pairs` is the parser's scan, a
recursive function; `AreSegments`, its reference, says by positions what the
docstring says.

`AudioLoad` is `load_audio_16k_mono` for an upload: PyAV on the stream, then the
rest of the stream in a temporary file and PyAV, soundfile and ffmpeg on it.
`pos` is where a failed PyAV left the stream, `temp` from where on the file has
the upload, `held` that `finally` will remove the file, `env.can` which decoders
can decode it.  Each can fail; the file system can fail, when the file is
written (`Store`) and when it is removed (`Finally`); the process can be killed
in between.

`ApiServer` composes `AudioLoad` (`INSTANCE`) with the handler: `Refuse` is every
check before the body, `Upload` reads the body and checks its size and RAM,
`Acquire` takes the lock in order of arrival, `Thread` is what the executor does
with it, `KeepSpan` what the parallel decoding keeps, `Leave` what a return or
an exception gives back.  Memory is a number: the board's without the model,
less the bodies, what the lock's holder takes, and other processes, which take
and give back what they want (`OthersChange`).  `Killed` leaves only files.

`ModelStartup` is the way from the environment to a serving process and back:
`_load_model_sync` with one action per step that can fail, the number of
workers (`Resolve` twice, `CheckRam` between), the probe loop, the sessions, the
threads (`StartThreads`), the decoder, the VAD's file and session, and the lifespan's release.
`MemoryChanges` is other processes; a probe passes, fails, or is killed
(`ProbeIsKilled`) and then holds some contexts until the kernel lets go of it
(`KilledProbeDies`).  `file` is the VAD's model on the disk: `Download` lets it
grow in place and may break off, `Killed` and `Restart` are a process killed
anywhere and started again with the same disk.  Sessions are counted here; what
threads and a shutdown do with them is `EncoderPool`.

`...Proofs` hold the theorems of a module, `MC...` the instances for TLC.
What is recursive in the code (`Pairs`, `TextIds`, `Heard`,
`StitchTranscripts`) is a recursive function here, so that it can be reasoned
about: the proofs show once that a function with the definition's equation
exists, and from then on use only the equation.
Definitions whose comment begins with "Variant" are bugs the code could have
had; they are used to show that each property notices a bug.

## 3. Runs

| run | what it asks | bounds, and why they are enough |
|---|---|---|
| `pool` | the bookkeeping of jobs, sessions and sentinels, that `shutdown` returns although inferences hang, and that the pool implements `EncodeService` with its fairness | 2 workers, 4 jobs: both workers can outlive their join while the queue still holds work, behind and before sentinels; no symmetry, which liveness does not allow |
| `requests` | what failed requests leave behind, that every request is answered, that the pool closes last, and that `TranscriptionService` is implemented | 2 requests of up to 3 chunks, 2 workers: one request can leave more jobs than there are workers to the next |
| `windows` | the sliding loop | without timestamps: window 1..6, overlap 0..2, tail limits below and over a window, retry on and off; with them: windows as long as the model's and half of it, every predicted end; audio up to 16 units, some three of the longest windows |
| `windows_cap` | "full utterance" (violated) | the defaults of the sliding path in seconds, 220 s of audio; with `WHISPER_PARALLEL_ENCODE=1`, which is the default, such audio is cut by the VAD instead |
| `startup` | every way through startup, release, kill and restart | 3 cores, an NPU with room for 0 to 3 encoders, requests below, at and over the limits, memory values that make every number of workers the pick, or cannot be read |
| `spans` | the span planning | frames of 2 samples so that samples and frames differ, audio up to 7 frames, every pattern of speech, limits that are and are not whole frames, the limit 0, search ranges longer and shorter than the limit and negative |
| `stream` | the windows of a streamed answer and the joined text | chunks up to 4 words, every overlap, tail limits below and over a chunk, audio up to 9 different words with every pattern of silence, and up to 7 units of two words that recur in every order; joins of up to 2 words, so that overlaps below, at and over that cap occur |
| `stream_overlap` | "drop duplicated overlap" (violated) | the defaults, in words of 0.4 s, on one minute |
| `tokens` | cache, loop, repetition, segments, spelling | a context of 8 rows: with the short prompt it holds groups of 1 to 3 tokens said twice or 1 and 2 said three times; limits on tokens below the prompt, above it, over the context and unset; limits on repeats 0 to 3; one word, two timestamps, both halves of a character |
| `tokens_cut` | a truncated window is heard again (violated) | the defaults, a context of 7 rows: one character is enough |
| `api` | memory, temporary files, answers | 3 requests, so that none, one or two wait while another decodes; bodies below and over the limit; memory that suffices for one request with the upload of another, and not for what two more hold; audio that takes less than was estimated, as much, and more; no decoder or one of them that can decode it, with PyAV and without |
| `api_peak` | "peak host RAM" (violated) | ten minutes with turbo, in MiB |

`CHECK_DEADLOCK FALSE` is set everywhere because each of these systems stops:
a pool that is closed, requests that are answered, a loop that is over.

Between them the runs of a module take every action.  The seconds of
`windows_cap` stand for the real settings; elsewhere a unit is arbitrary and
the proofs remove the bound.

### What the properties say

* `JobsConserved`: the bookkeeping of jobs and queue is exact under every
  interleaving.  `ImplementsService`: jobs start in order, each is answered
  once, and if inferences return, all are answered before a shutdown.
* `ReleasedUnderInference`, `NoInferenceAfterRelease`: the 30 s join may give
  up on a worker, whose session is then released under its inference; it is the
  only way, and the worker never begins another inference.  `SentinelsSuffice`:
  threads leave by the event or by a sentinel, whichever they see first, and
  jobs may be submitted behind the sentinels; from the joins on there is still
  one in the queue for each thread that has not ended, so that the sentinels
  alone would do.  `ShutdownReturns` needs no inference to return.  That every
  thread does leave is not claimed: one may be in an inference that hangs.
* `LeftoversAreAhead`: what failed requests left in the queue is waited for once,
  before the first result; with a LIFO queue jobs of old failures stay below
  new ones.  `EveryRequestAnswered`: no failure keeps the lock.
* `NobodyWaitsForClosedPool`: no thread waits for a future of a pool that was
  told to shut down; it depends on the lifespan being ended after the requests.
* `NextIsAhead`: the guards of `decode.py` 1485-1488 are dead code.
* `SegmentsInOrder`, `WholeAudioHeard`, `NoAudioSkipped`: with the conditions
  under which they hold (`ShortTail`, `SeekInWindow`); what is lost outside of
  them is in section 6.
* `LongestPauseChosen`, `CutsInSilence`, `SpansPartition`: the scan against a
  definition of the longest pause by quantifiers, and the clamping.
  `PlanningEnds` for every positive limit.
* `SpansCover`, `SaidOnce`: no tail limit makes the streamed windows leave a gap
  or hear a window twice over, unlike the sequential loop; a join is exact while
  the overlap is within its cap and no word recurs.  `OnlyEchoesDropped`: if
  words recur, what a join loses is a repetition of a word that stays, fewer
  words away than a join looks at.
* `CacheIsTheText`: the mask lets the decoder see rows up to the offset, so these
  must be the prompt and the accepted tokens; no limit set by the environment
  writes past the context.  `OnlyRepetitionDropped`: the stop takes out
  repetitions of what stays, only it takes out anything, and it takes out
  enough.  `SegmentsAreThePairs`: the scan against positions.
  `OnlyStopsCutCharacters`: an answer that ran to EOT and was spelled correctly
  never fails, although each segment is decoded on its own.  `DecodeEnds`: the
  network need not ever predict EOT.
* `EnoughForTwo`: the RAM check comes before the wait for the lock, when the
  lock's holder may not have taken its share yet.  If the holder takes no more
  than was estimated, and other processes no more than when the requests under
  way were admitted, memory still suffices while at most one upload waits: the
  later of the two was checked with both bodies in memory, and its estimate
  makes up for the holder's if it is the larger one; if not, its body is what
  the holder's estimate counts twice.  With two waiting it does not hold: in the
  run's instance a request of size 3 is one unit short when two of size 2 were
  admitted before it took its samples.  No text of the repository promises that
  case, so it is no finding.
* `TempFilesAccounted`, `LoadsIfAnyCanUnlessRead`, `EveryUploadAnswered`: a file
  is forgotten only when it could not be written or removed or its load was
  killed; a
  fallback gets the whole upload unless PyAV had read from it; an exception
  nobody maps still gives back the lock.
* `PickIsUsable`: no more workers than cores or than allowed, and the RAM check
  after an automatic choice refuses only what became too much in between;
  `SecondResolutionAgrees` says that `RKNNModel`, which resolves the number
  again, cannot choose another one.
* `ProbedSessionsFit`: the answer of the probe still holds when the sessions are
  loaded, whatever killed probes hold.  `LoadedWasChecked`: what is loaded in
  the end needs no more RAM than the check saw, although `RKNNModel` resolves
  the number again with a MemAvailable that may have moved.
* `TakenFileIsWhole`: `ensure_vad_model` takes any file over 100 kB; that is part
  of a model only after a download that was broken off that late, and then no
  later start gets past its VAD.  `StartupEnds`: it may fail, and hangs only if
  a call of RKNN, ONNX or `urlretrieve` does, not because a probe does.

## 4. Fairness

* Worker threads and the owner of the pool are scheduled (`WF` on their steps).
  A worker blocks only in `get(timeout=0.25)`, the owner only in a join with a
  timeout, so neither step can be refused for ever.
* `InferenceReturns` (`WF` on `FinishJob`) says that an RKNN call comes back.
  Nothing in the code guarantees it, so it is no part of `FairSpec`: it is the
  premise of the properties that need it, and `ShutdownReturns` does not.
* Requests: executor threads are scheduled, loading audio and the token loop
  come to an end (both are bounded: finite upload, `n_text_ctx` tokens).
* Startup goes on in the server's own code, and a probe that hangs is killed by
  the loop itself (`WF_vars(OwnStep)`).  A killed probe need never die.  Loads
  in the process and the download have no timeout: that they come back
  (`CallsReturn`) is no part of `FairSpec` but the premise of `StartupEnds`.
* Span planning and the token loop are synchronous: `WF` on their steps.  That
  the decoder returns from each call is assumed, that it ever predicts EOT not.
* Handlers (`ApiServer`): the executor thread and the grant of the lock are
  scheduled (`WF` on `Thread(r)`); loading and decoding come to an end.
* Nothing is assumed of clients: `Submit`, `Arrive`, `StopServing` and
  `BeginShutdown` may never happen, nor may kills, restarts and changes of
  memory.  `ReleaseModel` is fair once enabled: uvicorn runs the end of the
  lifespan.

## 5. Proofs

All of them hold for every value of the constants that satisfies the named
assumptions (`NumWorkersAssumption`, `NoneAssumption`, `MaxChunksAssumption`,
`PoolAssumption`, `SettingsAssumption`, `StreamAssumption`, `TokenAssumption`,
`ApiAssumption`, `EnvironmentsAssumption`, `StartupAssumption`).

* `EncoderPoolProofs`: `TypeCorrect`, `JobsAreConserved`, `SafeRelease`,
  `NoStartAfterRelease`, `EveryThreadHasItsSentinel`.  The safety properties are not inductive:
  the invariant adds what the owner's loop counter says of sessions and threads
  (sessions up to `done` are loaded while loading, all of them from then until
  the teardown, a worker before `done` has left or its join has expired while
  joining), and that once the event is set a worker whose join expired is in
  inference, about to test the event, or gone.  For the sentinels it counts
  the threads that have ended and the sentinels in the queue (`SentinelInv`):
  together they are never fewer than what `shutdown` has put, because a thread
  takes at most one, and ends.  `PoolIsEncodeService` is the
  safety part of the run's `ImplementsService`: `waiting` is the queue without
  its sentinels, which is shown along the positions of the queue, and there is
  room for one more job when a worker takes one, because the workers in
  inference are then a proper subset of all (by cardinalities).
* `ParallelDecodeProofs`: `PoolIsUsedAsMeant`, `LeftoversStayAhead`,
  `NobodyWaits`, `ClientsSeeTranscription`, for any number of requests, spans
  and workers.  The first says that the requests' steps are steps of
  `EncoderPool` or leave it alone, which brings the pool's invariant into the
  composition.  To that its invariant adds whose the lock is and how far the
  holder's loop has got, that the pool is open while anybody needs it, which
  futures of a request exist and which are answered, and the order of the
  queue: no job of another request is behind one of the holder's, and once one
  of the holder's has left the queue, only the holder's are in it.  The last
  theorem is the safety part of the run's `ImplementsTranscription`.
* `SlidingDecodeProofs`: `TypeCorrect`, `AlwaysAdvances`, `OrderedSegments`,
  `NothingSkipped`, `EverySampleHeard`.  The last one needs a measure: without
  timestamps every window advances by at least `hop // 2`, so the number of
  windows never reaches the cap before the end of the audio.
* `VoiceSpansProofs`: `TypeCorrect`, `SpansArePartition`, `SilentCuts`,
  `LongestIsChosen`.  The invariant says that the frames since `gap_start` are silent, that the middle
  of the best pause is a silent frame of the search range, and that a scan runs
  only with a positive limit inside the audio; lemmas about `\div` connect
  samples and frames.  For the last theorem it adds that `gap_start` is where
  the pause began, and that the best pause is the first of the longest among
  those that have ended; the only pause that can end at the scan's frame is
  the one it is in.
* `StreamDecodeProofs`: `WindowsCover`, `WordsAreSaidOnce`,
  `LostWordsAreEchoes`.  For the first, that the windows of a streamed answer
  hear everything whatever the tail limit, the invariant says that every
  window but the last ends before the audio does, and that the next one starts
  a hop after the last.  For the second it says that the texts up to now join
  to the words up to where the last window ends; with words that are all
  different the longest match of a join is the overlap itself.  For the third
  the property is not inductive: a later join may drop words between an echo
  and what it repeats.  The invariant counts the last window's words as well
  (`Echoes`), and says that the joined text keeps the order of the audio in the
  sense that a later word also comes after every earlier one (`Ahead`).
* `TokenDecodeProofs`: `CacheHoldsTheText`, `RepetitionsTakenOut`,
  `WholeAnswersAreText`, `SegmentsArePairs`.  The first is
  inductive with the places of the prompt and the bound of the limit.  For the
  second the invariant says that no prefix of the answer ends in a repetition;
  the group that is taken out is the shortest one, and each of its tokens
  equals the one a group earlier that stays.  The third rests on lemmas about
  spelling: what lies between two timestamps of a valid answer is valid.  The
  fourth goes down the positions of the answer: from each position that is not
  within a segment the scan yields the segments that start from there on.
* `ApiServerProofs`: `TempFilesAreAccounted`, `LoadsWhatCanBeLoaded`,
  `MemoryForTwo`, for any number of requests.  The invariant ties the load to
  what it holds (a file is held exactly from its writing to the last decoder)
  and remembers who has already failed.  The third needs three facts that are
  inductive together: a request under way fitted the memory of the time it was
  admitted (`AdmitInv`); those who wait are exactly those in the queue, and
  nobody else but the holder has a body (`QueueInv`); and the last of the queue
  found room for itself and all bodies there are now (`LastInv`), because bodies
  only go until somebody else is admitted, who is then the last.  What one body
  more or less does to the sum of all is shown along cardinalities.
* `ModelStartupProofs`: `ServesWhenComplete`, `WorkersCanBeLoaded`,
  `ResolvedOnce`, `LoadsOnlyWhatWasChecked`, `FileIsTheModel`,
  `ProbedSizeFits`.  The invariants say for
  each place of the startup what is loaded, how large the number of workers is,
  why RAM sufficed, what the file may be, and that the killed probes and the
  sessions to come fit the NPU together (a sum over probes, which only gets
  smaller).  That `PickEncoderWorkerCount` picks something needs the greatest
  number that fits to exist; it is derived from the least element of a set of
  naturals.

The assumptions ask no more than the code does: at least one worker, finitely
many requests, values that are natural numbers where the code checks or clamps
them, special values that are none of the ordinary ones.

Every invariant and every action property of a passing run is a theorem.  Only
model-checked: what must eventually happen (`ShutdownReturns`,
`EveryRequestAnswered`, `PlanningEnds`, `DecodeEnds`, `StartupEnds`,
`EveryUploadAnswered`) and the fairness in `ImplementsService` and
`ImplementsTranscription`, because the prover handles neither fairness nor
`ENABLED`.

## 6. Findings

1. `windows_cap`: on the sliding path, with timestamps, a window advances by at least `hop // 4`, the
   cap on windows (`decode.py` 1410) assumes `hop // 2`; an utterance with many
   early ends loses its tail silently.
2. `stream_overlap`: a join compares at most 48 words (`decode.py` 787), and the
   full window that replaces a short tail shares far more with the one before
   it; its text is then repeated.
3. `tokens_cut`: a window that fills the context between the two tokens of a
   character raises `UnicodeDecodeError` (`decode.py` 807); the request is
   answered 400, instead of being heard again from an earlier start.
4. `api_peak`: the estimate of the peak counts one span's features, the parallel
   decoding keeps those of all spans and their cross KV (`decode.py` 1229, 1247).

Other disagreements were met that no run is spent on:

* a pool whose threads cannot be started (`encode_pool.py` 296) raises with all
  sessions loaded and threads that keep running, although its loading releases
  what it loaded (283-285); a decoder or VAD that fails leaves the pool
  likewise.  Nobody calls `release` or `shutdown` then, and the sessions are
  held until the process ends, which it does when the lifespan fails;
* with chunks shorter than the tail limit less the overlap, such as 5 s, the
  last full window begins after unheard audio (`decode.py` 1157);
* `WHISPER_MAX_CHUNK_SECONDS=0` makes the planning loop for ever
  (`speech_cut.py` 238), while `decode.py` 686 treats 0 as unset; a limit over
  30 s is not clamped there (218), so the features trim every long span;
* a PyAV that fails has read from the upload, and the file the fallbacks get
  has only the rest (`decode.py` 297): they fail, or decode a part of it;
* `WHISPER_ENCODER_WORKERS=1` does not get past the RAM check (`api_server.py`
  193-197), as the message at `decode.py` 571 says it does;
* a parallel span that fills the context without EOT is not heard again
  (`decode.py` 1262), which `docs/api.md` 157 promises of long windows;
* the deltas of a streamed answer, joined, repeat the overlaps that its last
  event has dropped (`openai_response.py` 139);
* the snap at `decode.py` 750-754 can never happen.

## 7. Plan

What could be added, most important first:

1. Proofs: that the sessions `ModelStartup` counts are those `EncoderPool`
   loads (a refinement of the one by the other); a bound on the steps left
   (a variant) for the loops whose end only TLC checks.
2. A composition of `ParallelDecode` with the memory of `ApiServer`, to bound
   what leftovers of failed requests keep.
3. The events of a streamed answer against the text of its last event.

## 8. Not modelled, and why

Numeric code (features, resampling, VAD and decoder networks), response
formatting, the language table, build and conversion scripts and vendored
libraries have no control worth a state machine; where such code decides
something (is there speech in a frame, what does the decoder return, does an
inference raise) the models let it decide anything.  Queue and future are the
standard library's and taken as atomic.  Wall clock times are not modelled: a
timeout is a choice that the code's own waits allow.
