----------------------------- MODULE AudioLoad -----------------------------
(***************************************************************************)
(* load_audio_16k_mono (app/decode.py): the decoders that are tried on an  *)
(* upload, one after the other, and the temporary file all but the first   *)
(* of them need.  The server hands over the upload as a stream; PyAV       *)
(* reads it, and what has been read by a PyAV that fails is not in the     *)
(* file.  One load runs at a time (ApiServer.tla).                         *)
(*                                                                         *)
(* A decoder that is not installed, or not asked because of the file's     *)
(* suffix, is one that cannot decode.  A decoder may find frames to decode *)
(* in what is left of an upload, but not in an empty file.                 *)
(***************************************************************************)
EXTENDS Naturals

CONSTANTS Environments  \* [av : PyAV is there, can : who can decode the upload]

\* PyAV on the stream and on the file, and the fallbacks.
Decoders == {"stream", "file", "soundfile", "ffmpeg"}

VARIABLES
    env,
    load,       \* what load_audio_16k_mono is doing
    pos,        \* where the stream is
    temp,       \* from where on the temporary file has the upload
    held,       \* temp_path is set: this load will remove its file
    heard,      \* from where on the samples have the upload
    files,      \* temporary files on the disk
    stray       \* history: those that nobody will remove

vars == <<env, load, pos, temp, held, heard, files, stray>>

Positions == {"start", "middle", "end"}

Init ==
    /\ env \in Environments
    /\ load = "idle"
    /\ pos = "start" /\ temp = "start" /\ heard = "start"
    /\ held = FALSE
    /\ files = 0 /\ stray = 0

-----------------------------------------------------------------------------
\* load_audio_16k_mono(io.BytesIO(body)).
Begin ==
    /\ load = "idle"
    /\ env' \in Environments
    /\ load' = IF env'.av THEN "stream" ELSE "store"
    /\ pos' = "start" /\ temp' = "start" /\ heard' = "start"
    /\ UNCHANGED <<held, files, stray>>

\* Probing reads, and seeks, as it likes.
TryStream ==
    /\ load = "stream"
    /\ IF "stream" \in env.can
       THEN load' = "loaded" /\ UNCHANGED pos
       ELSE load' = "store" /\ pos' \in Positions
    /\ UNCHANGED <<env, temp, held, heard, files, stray>>

\* _materialize_source_to_path: source.read(), from where the stream is, goes
\* to a new file; then the stream is rewound.  When the file cannot be made or
\* written, OSError goes through; temp_path is not set yet, so that a file
\* that could not be written stays.
Store ==
    /\ load = "store"
    /\ \/ load' = "error" /\ UNCHANGED <<pos, temp, held, files, stray>>
       \/ /\ load' = "error"
          /\ files' = files + 1 /\ stray' = stray + 1
          /\ UNCHANGED <<pos, temp, held>>
       \/ /\ load' = IF env.av THEN "file" ELSE "soundfile"
          /\ temp' = pos /\ held' = TRUE /\ files' = files + 1
          /\ pos' = "start"
          /\ UNCHANGED stray
    /\ UNCHANGED <<env, heard>>

MaySucceed(decoder) ==
    \/ temp = "start" /\ decoder \in env.can
    \/ temp = "middle"

MayFail(decoder) == ~(temp = "start" /\ decoder \in env.can)

\* Variant: only a load that failed removes its file.
FinallyIfFailed(outcome, from) ==
    /\ held' = FALSE
    /\ load' = outcome /\ heard' = from
    /\ files' = IF outcome = "loaded" THEN files ELSE files - 1
    /\ UNCHANGED stray

\* `finally`: the file is removed, and samples or refusal go out; or unlink
\* raises, the file stays, and that exception goes out instead.
Finally(outcome, from) ==
    /\ held' = FALSE
    /\ \/ load' = outcome /\ heard' = from /\ files' = files - 1
          /\ UNCHANGED stray
       \/ load' = "error" /\ stray' = stray + 1
          /\ UNCHANGED <<heard, files>>

\* An attempt on the file returns, or its exception is noted and the next
\* decoder is tried.
Try(decoder, next) ==
    /\ load = decoder
    /\ \/ MaySucceed(decoder) /\ Finally("loaded", temp)
       \/ MayFail(decoder) /\ next = "refused" /\ Finally("refused", heard)
       \/ MayFail(decoder) /\ next # "refused" /\ load' = next
          /\ UNCHANGED <<held, heard, files, stray>>
    /\ UNCHANGED <<env, pos, temp>>

\* Variant: ffmpeg is the fallback of soundfile only.
TryDecodersButFfmpeg ==
    \/ Try("file", "soundfile")
    \/ Try("soundfile", "refused")

TryDecoders ==
    \/ Try("file", "soundfile")
    \/ Try("soundfile", "ffmpeg")
    \/ Try("ffmpeg", "refused")

Step == TryStream \/ Store \/ TryDecoders

\* The caller takes the samples or the exception.
Take ==
    /\ load \in {"loaded", "refused", "error"}
    /\ load' = "idle" /\ pos' = "start" /\ temp' = "start" /\ heard' = "start"
    /\ UNCHANGED <<env, held, files, stray>>

\* The process is killed; its temporary file is not.
Kill ==
    /\ load' = "idle" /\ pos' = "start" /\ temp' = "start" /\ heard' = "start"
    /\ held' = FALSE
    /\ stray' = IF held THEN stray + 1 ELSE stray
    /\ UNCHANGED <<env, files>>

-----------------------------------------------------------------------------
\* An upload that one of the decoders can decode is decoded, all of it, and
\* one that none of them can is refused (decode.py 355-356).
LoadsIfAnyCan ==
    /\ load = "loaded" => heard = "start"
    /\ load = "refused" => env.can = {}
=============================================================================
