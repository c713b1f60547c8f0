----------------------- MODULE TranscriptionService -----------------------
(***************************************************************************)
(* What a client of the server relies on, without pool, threads or         *)
(* futures: requests are served one at a time in the order they asked, the *)
(* audio of the request being served is cut into some number of chunks,    *)
(* its transcript grows by the next chunk, and it is answered once: with   *)
(* success only when every chunk has been heard.                           *)
(*                                                                         *)
(* ParallelDecode.tla is shown to implement this specification.            *)
(***************************************************************************)
EXTENDS Naturals, Sequences

CONSTANTS Requests, MaxChunks

VARIABLES line,     \* requests that have not been answered, oldest first
          cut,      \* the number of chunks of a request's audio, 0 if unknown
          heard,    \* the chunks in the transcript of a request, in order
          reply     \* "none", "ok" or "failed"

vars == <<line, cut, heard, reply>>

Init ==
    /\ line = <<>>
    /\ cut = [r \in Requests |-> 0]
    /\ heard = [r \in Requests |-> <<>>]
    /\ reply = [r \in Requests |-> "none"]

InLine(r) == \E i \in 1..Len(line) : line[i] = r

Served(r) == line # <<>> /\ Head(line) = r

Ask(r) ==
    /\ reply[r] = "none"
    /\ ~InLine(r)
    /\ line' = Append(line, r)
    /\ UNCHANGED <<cut, heard, reply>>

Cut(r) ==
    /\ Served(r)
    /\ cut[r] = 0
    /\ \E k \in 1..MaxChunks : cut' = [cut EXCEPT ![r] = k]
    /\ UNCHANGED <<line, heard, reply>>

Hear(r) == heard' = [heard EXCEPT ![r] = Append(@, Len(@) + 1)]

\* A chunk that is not the last one is transcribed.
Continue(r) ==
    /\ Served(r)
    /\ Len(heard[r]) + 1 < cut[r]
    /\ Hear(r)
    /\ UNCHANGED <<line, cut, reply>>

\* The last chunk is transcribed and the request is answered.
Complete(r) ==
    /\ Served(r)
    /\ Len(heard[r]) + 1 = cut[r]
    /\ Hear(r)
    /\ reply' = [reply EXCEPT ![r] = "ok"]
    /\ line' = Tail(line)
    /\ UNCHANGED cut

\* There was nothing to transcribe.
Empty(r) ==
    /\ Served(r)
    /\ cut[r] = 0
    /\ reply' = [reply EXCEPT ![r] = "ok"]
    /\ line' = Tail(line)
    /\ UNCHANGED <<cut, heard>>

Fail(r) ==
    /\ Served(r)
    /\ reply' = [reply EXCEPT ![r] = "failed"]
    /\ line' = Tail(line)
    /\ UNCHANGED <<cut, heard>>

Serve(r) == Cut(r) \/ Continue(r) \/ Complete(r) \/ Empty(r) \/ Fail(r)

Next == \E r \in Requests : Ask(r) \/ Serve(r)

\* The request at the head of the line is served to its end.
Fairness == \A r \in Requests : WF_vars(Serve(r))

Spec == Init /\ [][Next]_vars /\ Fairness
=============================================================================
