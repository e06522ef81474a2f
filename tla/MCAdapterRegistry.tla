--------------------------- MODULE MCAdapterRegistry ---------------------------
(***************************************************************************)
(* AdapterRegistry for TLC: two adapters, one of which serves two methods. *)
(***************************************************************************)
EXTENDS AdapterRegistry

CONSTANTS a1, a2

TwoClients == <<a1, a2>>
ThreeMethods == <<"fido2", "libfprint", "pin">>
ThreeOwners == [m \in Range(ThreeMethods) |-> IF m = "pin" THEN a2 ELSE a1]

OneClient == <<a1>>
OneMethod == <<"fido2">>
OneOwner == [m \in Range(OneMethod) |-> a1]
=============================================================================
