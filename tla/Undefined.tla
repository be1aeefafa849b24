----------------------------- MODULE Undefined -----------------------------
(***************************************************************************)
(* JavaScript's undefined, for the modules that share it.                  *)
(***************************************************************************)
CONSTANT None
=============================================================================
