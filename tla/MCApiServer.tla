---------------------------- MODULE MCApiServer ----------------------------
(* Small instances of ApiServer for TLC. *)
EXTENDS ApiServer

\* With and without PyAV, no decoder or one of them able to decode the upload.
EachDecoder ==
    [av : {TRUE}, can : {{}, {"stream"}, {"file"}, {"soundfile"}, {"ffmpeg"}}]
    \cup
    [av : {FALSE}, can : {{}, {"soundfile"}, {"ffmpeg"}}]

\* Audio that PyAV decodes.
EasyAudio == [av : {TRUE}, can : {{"stream"}}]
=============================================================================
