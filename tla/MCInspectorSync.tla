-------------------------- MODULE MCInspectorSync --------------------------
(***************************************************************************)
(* A small instance of InspectorSync for TLC: an inspector that starts,    *)
(* works and quits at any time, beside one that was suspended.             *)
(***************************************************************************)
EXTENDS InspectorSync

CONSTANTS i1, i2
=============================================================================
