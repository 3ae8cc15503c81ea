------------------------------ MODULE MCStrict ------------------------------
(* Small instances of StrictMode for TLC. *)
EXTENDS StrictMode, TLC
=============================================================================
