------------------------------- MODULE MCGuts -------------------------------
(***************************************************************************)
(* Small instances of Guts: two mock functions whose instances differ in   *)
(* size, in an arena of a few blocks.                                      *)
(***************************************************************************)
EXTENDS Guts, TLC

CONSTANTS f, g

MCRoots == {f, g}

\* Spans of 4 and 6 bytes with 2-byte alignment: blocks of one test start in
\* the middle of blocks of the test before it.
MCInstanceSize == (f :> 1) @@ (g :> 3)
=============================================================================
