------------------------------ MODULE MCStartup ------------------------------
(* Startup for TLC: two processes, two adapters with a method each. *)
EXTENDS Startup, TLC

MCMethodOf == "a" :> "fido2" @@ "b" :> "otp"
=============================================================================
