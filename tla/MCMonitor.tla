----------------------------- MODULE MCMonitor -----------------------------
(***************************************************************************)
(* Small instances of Monitor for TLC.  k1 is a TCP connection whose local *)
(* end is the low one, k2 a UDP flow whose local end is the high one, k3 a *)
(* UDP flow between two local addresses.                                   *)
(***************************************************************************)
EXTENDS Monitor

CONSTANTS k1, k2, k3

MCLocalSide == [k \in Keys |-> IF k = k1 THEN "low"
                               ELSE IF k = k2 THEN "high" ELSE "both"]
=============================================================================
