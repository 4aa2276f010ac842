----------------------------- MODULE MCTracking -----------------------------
(***************************************************************************)
(* A small instance of SegmentTracker for TLC: segments of a stream of     *)
(* more than two laps of the space, each within half of it from the next,  *)
(* and one of the first bytes cut in another way.                          *)
(***************************************************************************)
EXTENDS SegmentTracker

Sending(off, len) == [off |-> off, len |-> len]

MCSendings ==
    {Sending(0, 2), Sending(1, 3), Sending(12, 4), Sending(26, 4), Sending(40, 4),
     Sending(54, 4), Sending(66, 4)}
=============================================================================
