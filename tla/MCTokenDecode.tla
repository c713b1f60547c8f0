---------------------------- MODULE MCTokenDecode ----------------------------
(* Small instances of TokenDecode for TLC. *)
EXTENDS TokenDecode

\* The short prompts of an English model leave room for long answers; with the
\* long ones the limit is below the prompt, above it, and over the context.
SmallSettings ==
    [stamps : BOOLEAN, english : {TRUE}, limit : {0}, repeats : {2, 3}] \cup
    [stamps : BOOLEAN, english : BOOLEAN, limit : {2, 5, 9}, repeats : {0, 1}] \cup
    [stamps : BOOLEAN, english : {FALSE}, limit : {2, 5, 9}, repeats : {2, 3}]

\* The defaults, with a multilingual model.
DefaultSettings ==
    [stamps : BOOLEAN, english : {FALSE}, limit : {0}, repeats : {6}]
=============================================================================
