---------------------------- MODULE MCReconnect ----------------------------
(***************************************************************************)
(* Instances of Reconnect for TLC.                                         *)
(***************************************************************************)
EXTENDS Reconnect

CONSTANTS A, B, home

\* Two serial ports, so that a second M1 may be taken by mistake; one address,
\* for no property tells addresses apart.
MCPort == {A, B}
MCAddr == {home}
=============================================================================
