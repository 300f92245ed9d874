--------------------------- MODULE MCBusIdentity ---------------------------
(* Three units, one of them without a serial number, on two addresses.     *)
EXTENDS BusIdentity, TLC

CONSTANTS radar, vane, log, u1, u2, u3, s1, s2, s3, a1, a2, claim, product, wind

MCUniqueOf == (radar :> u1) @@ (vane :> u2) @@ (log :> u3)
MCSerialOf == (radar :> s1) @@ (vane :> s2) @@ (log :> None)

=============================================================================
