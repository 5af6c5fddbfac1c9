----------------------------- MODULE MCSession -----------------------------
(* Small instances of Session. *)
EXTENDS SessionProperties
CONSTANTS x1, x2
=============================================================================
