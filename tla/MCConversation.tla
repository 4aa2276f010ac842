--------------------------- MODULE MCConversation ---------------------------
(***************************************************************************)
(* A small instance of Conversation for TLC: six bytes that cross the end  *)
(* of the sequence space, sent in three segments, sent again cut in other  *)
(* ways, and a stray.                                                      *)
(***************************************************************************)
EXTENDS Conversation

Seg(off, len) == [off |-> off, len |-> len]

MCSegments == {Seg(0, 2), Seg(2, 2), Seg(4, 2), Seg(1, 4), Seg(0, 4), Seg(11, 2)}
=============================================================================
