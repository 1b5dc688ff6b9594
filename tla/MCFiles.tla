------------------------------ MODULE MCFiles ------------------------------
(***************************************************************************)
(* A small instance of FileWriter: three runs of CMock in one directory.   *)
(***************************************************************************)
EXTENDS FileWriter, TLC

CONSTANTS p, q, r, header, source, other, skeleton

\* p and q generate one mock, q also updates a skeleton; r, which may be killed,
\* generates a mock of its own, header first.
MCWork ==
    (p :> <<header>>) @@
    (q :> <<header, skeleton>>) @@
    (r :> <<other, source>>)
=============================================================================
