-------------------------------- MODULE Http2 --------------------------------
(***************************************************************************)
(* What decode/http2.rs reads out of a cleartext HTTP/2 stream: frame by   *)
(* frame, with the HPACK table that both ends of the compression must keep *)
(* in step.                                                                *)
(*                                                                         *)
(* The encoder is the sender's (RFC 7541).  It adds one representation     *)
(* after another to a header block and then sends the block, whole, padded *)
(* or with a priority, or cut in two by a CONTINUATION frame.  A block is  *)
(* a sequence of tokens: the first octet of a representation, the further  *)
(* octets of an integer, a string literal.  Strings are opaque; a Huffman- *)
(* coded one is read as a placeholder, one that is not UTF-8 with          *)
(* replacement characters, both of another length.                         *)
(***************************************************************************)
EXTENDS Integers, Sequences, FiniteSets

LOCAL INSTANCE SequencesExt

CONSTANTS
    Static,      \* STATIC_TABLE
    Fields,      \* header fields it sends: names and values, [text, huffman]
    Length,      \* lengths of the texts, and that of Placeholder
    Placeholder, \* "<huffman:..b>"
    Lossy,       \* what from_utf8_lossy makes of the texts that are not UTF-8
    Limits,      \* table sizes the sender may announce
    MaxFrames,   \* 128
    MaxReps      \* bound of the model: representations written

ASSUME Http2Assumption ==
    /\ \A f \in Fields : \A s \in {f[1], f[2]} :
          s.huffman \in BOOLEAN /\ Length[s.text] \in Nat /\ s.text # Placeholder
    /\ Length[Placeholder] \in Nat
    /\ \A s \in DOMAIN Lossy : Lossy[s] \notin DOMAIN Lossy /\ Length[Lossy[s]] \in Nat
    /\ \A i \in DOMAIN Static : {Static[i][1], Static[i][2]} \cap DOMAIN Lossy = {}
    /\ Limits \subseteq Nat /\ {MaxFrames, MaxReps} \subseteq Nat

VARIABLES
    sent,        \* the encoder's dynamic table, newest first
    limit,       \* the size it keeps to
    block,       \* tokens of the block being written
    meant,       \* the headers it stands for
    growing,     \* what it has done to the table
    dynamic,     \* Hpack::dynamic, newest first
    max_size,    \* Hpack::max_size
    size,        \* Hpack::size
    frames,      \* frames read
    read,        \* what was read of the block just sent, and what was meant
    written,     \* representations so far
    skipped,     \* a block that changes the table was skipped or cut (history)
    squeezed     \* an entry that is read as another text had a part in an
                 \* eviction (history)

http2Vars == <<sent, limit, block, meant, growing, dynamic, max_size, size, frames, read,
              written, skipped, squeezed>>

-----------------------------------------------------------------------------
(***************************************************************************)
(* Strings and table entries.  A sent string is [text, huffman].           *)
(***************************************************************************)
Shown(s) == CASE s.huffman -> Placeholder
              [] ~s.huffman /\ s.text \in DOMAIN Lossy -> Lossy[s.text]
              [] OTHER -> s.text
ShownHeader(h) == <<Shown(h[1]), Shown(h[2])>>
ShownAll(hs) == [i \in DOMAIN hs |-> ShownHeader(hs[i])]

Plain(s) == [text |-> s, huffman |-> FALSE]
\* The size of an entry: both lengths and 32.
SentSize(h) == Length[h[1].text] + Length[h[2].text] + 32
EntrySize(e) == Length[e[1]] + Length[e[2]] + 32

SentTotal(t) == FoldLeft(LAMBDA n, h : n + SentSize(h), 0, t)
Total(t) == FoldLeft(LAMBDA n, e : n + EntrySize(e), 0, t)

\* The encoder's table after entries were dropped from its end.
Fitting(t, bound) ==
    LET n == CHOOSE n \in 0..Len(t) :
                /\ SentTotal(SubSeq(t, 1, n)) <= bound
                /\ n < Len(t) => SentTotal(SubSeq(t, 1, n + 1)) > bound
    IN  SubSeq(t, 1, n)

\* Entry number i in the tables of the encoder.
SentEntry(i) ==
    IF i <= Len(Static) THEN <<Plain(Static[i][1]), Plain(Static[i][2])>>
    ELSE sent[i - Len(Static)]
SentIndexes == 1..(Len(Static) + Len(sent))

\* An integer with the given prefix: a first octet and the groups of seven
\* bits behind it.
Groups[n \in Nat] == IF n < 128 THEN <<n>> ELSE <<128 + (n % 128)>> \o Groups[n \div 128]

Octet(n) == [rep |-> "more", n |-> n]
Encoded(rep, n, mask) ==
    IF n < mask THEN <<[rep |-> rep, n |-> n]>>
    ELSE <<[rep |-> rep, n |-> mask]>>
         \o [i \in DOMAIN Groups[n - mask] |-> Octet(Groups[n - mask][i])]
Text(s) == <<[rep |-> "text", text |-> s]>>

-----------------------------------------------------------------------------
(***************************************************************************)
(* Reading a block.                                                        *)
(***************************************************************************)
None == <<>>

\* decode_int: at most five octets behind the first.  <<value, next position>>
decode_int(buf, pos, mask) ==
    IF pos > Len(buf) THEN None
    ELSE IF buf[pos].n < mask THEN <<buf[pos].n, pos + 1>>
    ELSE LET ends == {k \in 1..5 :
                         /\ pos + k <= Len(buf)
                         /\ \A j \in 1..(k - 1) : buf[pos + j].n >= 128
                         /\ buf[pos + k].n < 128}
         IN  IF ends = {} THEN None
             ELSE LET k == CHOOSE k \in ends : TRUE
                  IN  <<FoldLeft(LAMBDA v, j : v + (buf[pos + j].n % 128) * 128 ^ (j - 1),
                                 mask, [j \in 1..k |-> j]),
                        pos + k + 1>>

\* decode_str: <<string, next position>>
decode_str(buf, pos) ==
    IF pos > Len(buf) THEN None ELSE <<Shown(buf[pos].text), pos + 1>>

\* What decode works on: the table with its accounts, the headers, where it is.
\* indexed: a static entry, one of the dynamic table, or none.
Entry(st, i) ==
    IF i = 0 THEN None
    ELSE IF i <= Len(Static) THEN Static[i]
    ELSE IF i - Len(Static) <= Len(st.table) THEN st.table[i - Len(Static)] ELSE None

\* Faulty variant: the size is not given back.
EvictKeepingSize(st) ==
    LET n == CHOOSE n \in 0..Len(st.table) :
                /\ st.size - Total(SubSeq(st.table, Len(st.table) - n + 1, Len(st.table))) <= st.max
                   \/ n = Len(st.table)
                /\ \A m \in 0..(n - 1) :
                     st.size - Total(SubSeq(st.table, Len(st.table) - m + 1, Len(st.table))) > st.max
    IN  [st EXCEPT !.table = SubSeq(st.table, 1, Len(st.table) - n)]

\* evict: entries leave at the back while the size exceeds the limit.
Evict(st) ==
    LET Oldest(n) == SubSeq(st.table, Len(st.table) - n + 1, Len(st.table))
        n == CHOOSE n \in 0..Len(st.table) :
                /\ st.size - Total(Oldest(n)) <= st.max \/ n = Len(st.table)
                /\ \A m \in 0..(n - 1) : st.size - Total(Oldest(m)) > st.max
    IN  [st EXCEPT !.table = SubSeq(@, 1, Len(@) - n), !.size = @ - Total(Oldest(n))]

\* insert
Inserted(st, e) ==
    Evict([st EXCEPT !.table = <<e>> \o @, !.size = @ + EntrySize(e)])

\* literal: a name by number or in full, a value.  <<name, value, next position>>
literal(st, mask) ==
    LET int == decode_int(st.block, st.i, mask)
    IN  IF int = None THEN None
        ELSE LET name == IF int[1] = 0 THEN decode_str(st.block, int[2])
                         ELSE IF Entry(st, int[1]) = None THEN None
                         ELSE <<Entry(st, int[1])[1], int[2]>>
                 value == decode_str(st.block, name[2])
             IN  IF name = None \/ value = None THEN None
                 ELSE <<name[1], value[1], value[2]>>

Halted(st) == [st EXCEPT !.halted = TRUE]
Moved(st, i) == [st EXCEPT !.i = i]
With(st, h) == [st EXCEPT !.headers = Append(@, h)]

\* One round of the loop in decode.
ReadIndexed(st) ==
    LET int == decode_int(st.block, st.i, 127)
    IN  IF int = None \/ int[1] = 0 THEN Halted(st)
        ELSE IF Entry(st, int[1]) = None THEN Moved(st, int[2])
        ELSE With(Moved(st, int[2]), Entry(st, int[1]))

ReadLiteral(st) ==
    LET lit == literal(st, 63)
    IN  IF lit = None THEN Halted(st)
        ELSE With(Inserted(Moved(st, lit[3]), <<lit[1], lit[2]>>), <<lit[1], lit[2]>>)

ReadResize(st) ==
    LET int == decode_int(st.block, st.i, 31)
    IN  IF int = None THEN Halted(st)
        ELSE Evict([Moved(st, int[2]) EXCEPT !.max = int[1]])

ReadPlain(st) ==
    LET lit == literal(st, 15)
    IN  IF lit = None THEN Halted(st) ELSE With(Moved(st, lit[3]), <<lit[1], lit[2]>>)

ReadOne(st) ==
    IF st.halted \/ st.i > Len(st.block) THEN st
    ELSE CASE st.block[st.i].rep = "indexed" -> ReadIndexed(st)
           [] st.block[st.i].rep = "literal" -> ReadLiteral(st)
           [] st.block[st.i].rep = "resize" -> ReadResize(st)
           [] st.block[st.i].rep = "plain" -> ReadPlain(st)

Decoding(b) ==
    FoldLeft(LAMBDA st, k : ReadOne(st),
             [table |-> dynamic, max |-> max_size, size |-> size,
              headers |-> <<>>, i |-> 1, halted |-> FALSE, block |-> b], b)

-----------------------------------------------------------------------------
(***************************************************************************)
(* The sender.                                                             *)
(***************************************************************************)
NoRead == [headers |-> <<>>, meant |-> <<>>, whole |-> TRUE]

Http2Init ==
    /\ sent = <<>> /\ limit = 4096
    /\ block = <<>> /\ meant = <<>> /\ growing = [inserts |-> FALSE, squeezes |-> FALSE]
    /\ dynamic = <<>> /\ max_size = 4096 /\ size = 0
    /\ frames = 0 /\ read = NoRead
    /\ written = 0 /\ skipped = FALSE /\ squeezed = FALSE

Write ==
    /\ written < MaxReps
    /\ written' = written + 1
    /\ read' = NoRead
    /\ UNCHANGED <<dynamic, max_size, size, frames, skipped, squeezed>>

Altered(t) == \E i \in DOMAIN t : Shown(t[i][1]) # t[i][1].text \/ Shown(t[i][2]) # t[i][2].text

\* The encoder's table becomes t, cut to bound.  With entries that are read as
\* other texts it has another size for the reader: both must fit without a cut.
Keeps(t, bound) ==
    /\ sent' = Fitting(t, bound)
    /\ growing' = [inserts |-> TRUE,
                   squeezes |-> \/ growing.squeezes
                                \/ Altered(t) /\ SentTotal(t) > bound
                                \/ Altered(t) /\ Total(ShownAll(t)) > bound]

WriteIndexed(i) ==
    /\ Write
    /\ block' = block \o Encoded("indexed", i, 127)
    /\ meant' = Append(meant, SentEntry(i))
    /\ UNCHANGED <<sent, limit, growing>>

\* Where the encoder may take the name of a field from: 0 for nowhere.
NameIndexes(f) == {0} \cup {i \in SentIndexes : SentEntry(i)[1].text = f[1].text}

Named(f, i) == IF i = 0 THEN f ELSE <<SentEntry(i)[1], f[2]>>

Literal(rep, mask, f, i) ==
    /\ block' = block \o Encoded(rep, i, mask) \o (IF i = 0 THEN Text(f[1]) ELSE <<>>) \o Text(f[2])
    /\ meant' = Append(meant, Named(f, i))

WriteLiteral(f, i) ==
    /\ Write
    /\ Literal("literal", 63, f, i)
    /\ Keeps(<<Named(f, i)>> \o sent, limit)
    /\ UNCHANGED limit

WritePlain(f, i) ==
    /\ Write
    /\ Literal("plain", 15, f, i)
    /\ UNCHANGED <<sent, limit, growing>>

\* At the beginning of a block only.
WriteResize(bound) ==
    /\ Write /\ block = <<>>
    /\ block' = Encoded("resize", bound, 31)
    /\ limit' = bound
    /\ Keeps(sent, bound)
    /\ UNCHANGED meant

Ended == block' = <<>> /\ meant' = <<>> /\ growing' = [inserts |-> FALSE, squeezes |-> FALSE]

\* A HEADERS frame with the first n tokens of the block; the rest follows in a
\* CONTINUATION frame, which is not looked at.
SendHeaders(n) ==
    /\ block # <<>> /\ frames < MaxFrames
    /\ LET st == Decoding(SubSeq(block, 1, n))
       IN  /\ dynamic' = st.table /\ max_size' = st.max /\ size' = st.size
           /\ read' = [headers |-> st.headers, meant |-> meant, whole |-> n = Len(block)]
    /\ frames' = frames + 1
    /\ skipped' = (skipped \/ (n < Len(block) /\ growing.inserts))
    /\ squeezed' = (squeezed \/ growing.squeezes)
    /\ UNCHANGED <<sent, limit, written>> /\ Ended

\* With padding or a priority, or behind the last frame that is read, the
\* block is skipped.
SkipHeaders ==
    /\ block # <<>>
    /\ frames' = IF frames < MaxFrames THEN frames + 1 ELSE frames
    /\ skipped' = (skipped \/ growing.inserts)
    /\ UNCHANGED <<sent, limit, dynamic, max_size, size, read, written, squeezed>> /\ Ended

Http2Next ==
    \/ \E i \in SentIndexes : WriteIndexed(i)
    \/ \E f \in Fields : \E i \in NameIndexes(f) : WriteLiteral(f, i) \/ WritePlain(f, i)
    \/ \E bound \in Limits : WriteResize(bound)
    \/ \E n \in 1..Len(block) : SendHeaders(n)
    \/ SkipHeaders

Http2Spec == Http2Init /\ [][Http2Next]_http2Vars

-----------------------------------------------------------------------------
(***************************************************************************)
(* Properties.                                                             *)
(***************************************************************************)
\* The size is that of the entries and within the limit, whatever is sent: the
\* subtraction in evict never goes below zero.
SizeAccounted == size = Total(dynamic) /\ size <= max_size

\* As long as no block that changes the table was skipped or cut, and no entry
\* that is read as another text (Huffman-coded, or not UTF-8) had a part in an
\* eviction, both tables have the same entries in the same places and the
\* headers of a frame are those sent.  Of a block that was cut the headers read
\* are a beginning.
TablesInStep ==
    ~skipped /\ ~squeezed =>
        /\ block = <<>> => dynamic = ShownAll(sent) /\ max_size = limit
        /\ IsPrefix(read.headers, ShownAll(read.meant))
        /\ read.whole => read.headers = ShownAll(read.meant)

HeadersExact == SizeAccounted /\ TablesInStep

\* "Indexed and non-Huffman literals decode fully" (http2.rs): where nothing is
\* Huffman-coded and no block is skipped or cut, a frame has the headers sent.
DecodesFully ==
    /\ ~skipped /\ read.whole
    /\ \A f \in Fields : ~f[1].huffman /\ ~f[2].huffman
    => read.headers = ShownAll(read.meant)
=============================================================================
