--------------------------- MODULE MCModelStartup ---------------------------
(* Small instances of ModelStartup for TLC. *)
EXTENDS ModelStartup

AllSettings ==
    [parallel : BOOLEAN, requested : {-1, 0, 1, 2, 5}, max : {1, 3, 8}]

UpToThree == 0..3

\* One, two and three encoders with the decoder need 4, 7 and 10.
SomeMemory == {3, 4, 8, 10}
=============================================================================
