------------------------------- MODULE MCServer -------------------------------
(***************************************************************************)
(* Server for TLC: three clients for two permits.                          *)
(***************************************************************************)
EXTENDS Server
=============================================================================
