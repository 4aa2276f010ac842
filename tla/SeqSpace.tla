------------------------------ MODULE SeqSpace ------------------------------
(***************************************************************************)
(* TCP sequence numbers: positions in a byte stream modulo SeqSpan (2^32 in *)
(* the code), compared by serial-number arithmetic: of two numbers, the    *)
(* one less than half the space ahead of the other is the later one.       *)
(***************************************************************************)
EXTENDS Naturals

CONSTANTS
    SeqSpan,      \* sequence numbers there are
    Isn          \* the number of the stream's byte 0

ASSUME SeqAssumption ==
    /\ SeqSpan \in Nat /\ SeqSpan > 1 /\ SeqSpan % 2 = 0
    /\ Isn \in 0..(SeqSpan - 1)

SeqNums == 0..(SeqSpan - 1)

\* The position behind the last byte of a segment, a record of off and len.
End(s) == s.off + s.len

\* The sequence number of byte i of the stream.
SeqAt(i) == (Isn + i) % SeqSpan

\* wrapping_add, wrapping_sub
Plus(a, n) == (a + n) % SeqSpan
Minus(a, b) == (a + SeqSpan - b) % SeqSpan

\* a.wrapping_sub(b) as i32 < 0
SeqLt(a, b) == Minus(a, b) >= SeqSpan \div 2

\* Faulty variant: plain comparison.
PlainLeq(a, b) == a <= b

\* a.wrapping_sub(b) as i32 <= 0
SeqLeq(a, b) == Minus(a, b) = 0 \/ Minus(a, b) >= SeqSpan \div 2
=============================================================================
