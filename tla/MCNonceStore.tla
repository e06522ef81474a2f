----------------------------- MODULE MCNonceStore -----------------------------
(***************************************************************************)
(* NonceStore for TLC: the constants are in NonceStore.cfg.  No symmetry,  *)
(* because the run checks liveness.                                        *)
(***************************************************************************)
EXTENDS NonceStore
=============================================================================
