------------------------------ MODULE MCHttp2 ------------------------------
(***************************************************************************)
(* A small instance of Http2 for TLC: a static table of one entry, and     *)
(* fields that share texts with it and with each other, Huffman-coded,     *)
(* with an octet that is not UTF-8, or neither.                            *)
(***************************************************************************)
EXTENDS Http2

StaticHere == <<<<"k", "v">>>>
LossyHere == [s \in {"o"} |-> "<o>"]
LengthHere ==
    [s \in {"k", "v", "w", "o", "<o>", "<h>"} |-> IF s \in {"<o>", "<h>"} THEN 3 ELSE 1]
StringHere(text, huffman) == [text |-> text, huffman |-> huffman]

PlainFieldsHere ==
    {<<StringHere("k", FALSE), StringHere("w", FALSE)>>,
     <<StringHere("w", FALSE), StringHere("o", FALSE)>>}

FieldsHere == PlainFieldsHere \cup {<<StringHere("w", FALSE), StringHere("k", TRUE)>>}
=============================================================================
