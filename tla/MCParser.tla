------------------------------ MODULE MCParser ------------------------------
(***************************************************************************)
(* HeaderParser for headers with conditionals and scopes three deep, and   *)
(* functions of a few arguments, some names alike.                         *)
(***************************************************************************)
EXTENDS HeaderParser
=============================================================================
