----------------------------- MODULE MCRecovery -----------------------------
(***************************************************************************)
(* Instances of Recovery for TLC.                                          *)
(***************************************************************************)
EXTENDS Recovery

CONSTANTS f1, f2

\* Two firmware files, so that one may take the place of the other.
MCImage == {f1, f2}
=============================================================================
