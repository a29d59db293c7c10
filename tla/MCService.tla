----------------------------- MODULE MCService -----------------------------
(* Two init commands and one serve over three paths, with two handlers.    *)
EXTENDS Service, TLC
=============================================================================
