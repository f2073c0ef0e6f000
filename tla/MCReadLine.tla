----------------------------- MODULE MCReadLine -----------------------------
(***************************************************************************)
(* Instances of ReadLine for TLC.  With a first buffer of two bytes every  *)
(* line of two bytes makes the buffer grow, and every short one makes the  *)
(* next line slide.                                                        *)
(***************************************************************************)
EXTENDS ReadLine, SequencesExt

CONSTANTS MaxLen, WithEmpty  \* bounds of this instance: the files that exist

MCBytes == {"a", "lf", "nul"}
MCFiles == {f \in BoundedSeq(MCBytes, MaxLen) : WithEmpty \/ f # <<>>}

\* From one character to all of the first buffer and more.
MCChunks == {<<"lf">>, <<"lf", "a">>, <<"nul", "lf", "a">>}
=============================================================================
