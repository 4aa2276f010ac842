---------------------------- MODULE Conversation ----------------------------
(***************************************************************************)
(* One direction of a captured TCP conversation, whose payload the stream  *)
(* view puts back together (Reassembly, called by build_stream in          *)
(* rust-shark-app/src/tui/views.rs for the segments in the ring, in the    *)
(* order of capture).                                                      *)
(*                                                                         *)
(* The capture sees the sender's segments in any order, repeated, cut in   *)
(* other ways when they are sent again, or not at all, and may see some    *)
(* whose sequence number makes no sense.                                   *)
(***************************************************************************)
EXTENDS Reassembly

CONSTANTS
    Segments,    \* [off, len] of the sender's stream, and strays
    MaxCaptures  \* bound of the model: segments captured

ASSUME CaptureAssumption ==
    /\ \A s \in Segments : s.off \in Nat /\ s.len \in Nat \ {0}
    /\ MaxCaptures \in Nat

\* Numbers name positions: what is captured spans less than three quarters of the
\* space, so that no number is taken for one ahead, in the gap limit, of the next lap.
ASSUME LapAssumption == \A s, t \in Segments : End(s) < t.off + SeqSpan - MaxGap

Unsent(i) == \A s \in Segments : i \notin s.off..(End(s) - 1)

\* "So it never rejects a legitimate in-window segment" (MAX_FORWARD_GAP): the
\* stream without its strays is no longer than the gap limit, what is farther
\* ahead lies behind bytes that are never sent.  And a segment is short.
ASSUME GapAssumption ==
    /\ \A s, t \in Segments : s.off > t.off + MaxGap => \E i \in t.off..s.off : Unsent(i)
    /\ \A s \in Segments : s.len + MaxGap <= SeqSpan \div 2

VARIABLES
    captured,    \* segments captured so far (history variable)
    first,       \* the first of them (history variable)
    count        \* captures so far

vars == <<bufferVars, captured, first, count>>

NoSegment == [off |-> 0, len |-> 0]

Init ==
    /\ BufferInit
    /\ captured = {} /\ first = NoSegment /\ count = 0

\* The bytes of a segment, as positions in the stream.
Payload(s) == [i \in 1..s.len |-> s.off + i - 1]

Capture(s) ==
    /\ count < MaxCaptures
    /\ count' = count + 1
    /\ InsertSegment(SeqAt(s.off), Payload(s))
    /\ captured' = captured \cup {s}
    /\ first' = IF captured = {} THEN s ELSE first

Read == Drain /\ UNCHANGED <<captured, first, count>>

Next ==
    \/ \E s \in Segments : Capture(s)
    \/ Read

Spec == Init /\ [][Next]_vars

-----------------------------------------------------------------------------
(***************************************************************************)
(* Properties.                                                             *)
(***************************************************************************)
ConversationTypeOK ==
    /\ nextSeq \in SeqNums /\ DOMAIN held \subseteq SeqNums
    /\ total \in Nat /\ capped \in BOOLEAN /\ begun \in BOOLEAN

\* Positions captured.
Bytes == UNION {s.off..(End(s) - 1) : s \in captured}

\* End of the run of captured bytes that begins where the stream does.
Reach ==
    IF captured = {} THEN 0
    ELSE CHOOSE n \in {End(s) : s \in captured} :
             /\ first.off..(n - 1) \subseteq Bytes
             /\ n >= End(first) /\ n \notin Bytes

\* What is handed out is the sender's stream from its first captured byte on:
\* no byte is missing, doubled or out of place, across the 2^32 boundary too
\* (ReassemblyBuffer: "segments that may arrive out of order, duplicated, or
\* overlapping").
StreamExact ==
    LET out == drained \o pending
    IN  out = [i \in 1..Len(out) |-> first.off + i - 1]

\* total_buffered is what is stored and not handed out, within the cap; it
\* never goes below zero, where the subtraction in try_drain would panic.
BufferAccounted == total = Len(pending) + HeldBytes /\ total <= MaxBuffer

\* Types, and the buffer's accounts.
BufferInv == ConversationTypeOK /\ BufferAccounted

\* A sender that cuts its stream in one way gets it through: whatever was
\* repeated or came out of order, once a gap is filled everything up to the
\* next one is handed out.
CleanStreamFlows ==
    /\ ~capped
    /\ \A s, t \in captured : s # t => End(s) <= t.off \/ End(t) <= s.off
    => first.off + Len(drained \o pending) = Reach

-----------------------------------------------------------------------------
(***************************************************************************)
(* What comments of the code claim and the code does not do.               *)
(***************************************************************************)
\* "arrive out of order, duplicated, or overlapping" (ReassemblyBuffer): what
\* was captured without a gap is handed out.
NothingStranded ==
    ~capped => first.off + Len(drained \o pending) = Reach

=============================================================================
