----------------------------- MODULE DnsMessage -----------------------------
(***************************************************************************)
(* The parser of DNS messages (rust-shark-core/src/decode/dns.rs): the     *)
(* questions and records of a message, with names that may be compressed.  *)
(*                                                                         *)
(* data holds octets and is counted from 0, as in the code; the message    *)
(* begins at Base.  Class and time to live are zero, the data of addresses *)
(* and of other records is not looked at.  The sender (RFC 1035) writes    *)
(* one question, then records; of a name it writes some labels and, in     *)
(* place of the rest, a pointer to any place where the rest stands         *)
(* already.  On the way to the parser the message may be cut short or have *)
(* an octet changed.                                                       *)
(***************************************************************************)
EXTENDS Integers, Sequences, FiniteSets

LOCAL INSTANCE SequencesExt

CONSTANTS
    Base,        \* offset of the message in the packet
    DomainNames, \* names: sequences of labels, labels are sequences of octets
    RecordTypes, \* record types in use
    Noise,       \* octets that may appear in place of others
    MaxDepth,    \* 128
    MaxRecords,  \* bounds of the model: records written,
    MaxChanged   \* and records in a message with an octet changed

ASSUME DnsAssumption ==
    /\ Base \in Nat /\ MaxDepth \in Nat /\ MaxRecords \in Nat /\ MaxChanged \in Nat
    /\ Noise \subseteq 0..255
    /\ \A n \in DomainNames : \A i \in DOMAIN n : Len(n[i]) \in 1..63

VARIABLES
    data,
    places,      \* [rest of a name, offset of it in the message]
    asked,       \* the name in question (history)
    records,     \* records written: [name, type, section, target] (history)
    fate         \* "writing", then what became of it: "whole", "cut", "changed"

dnsVars == <<data, places, asked, records, fate>>

-----------------------------------------------------------------------------
(***************************************************************************)
(* The parser.  None, or the value.                                        *)
(***************************************************************************)
Nothing == <<>>
At(i) == data[i + 1]
Size == Len(data)
Word(i) == At(i) * 256 + At(i + 1)

IsPointer(b) == b >= 192

\* Faulty variant: a pointer is resolved in the packet, not in the message.
FollowAbsolute(i) == (At(i) % 64) * 256 + At(i + 1)

\* Where the pointer at i leads.
Follow(i) == Base + (At(i) % 64) * 256 + At(i + 1)

\* parse_dns_name: labels and the position behind the name.  The labels of a
\* pointer's target are one more part, which leaves a dot if there are none.
Name[i \in Nat, depth \in Nat] ==
    IF depth > MaxDepth \/ i >= Size THEN Nothing
    ELSE IF At(i) = 0 THEN <<<<>>, i + 1>>
    ELSE IF IsPointer(At(i))
    THEN IF i + 1 >= Size THEN Nothing
         ELSE LET there == Name[Follow(i), depth + 1]
              IN  IF there = Nothing THEN Nothing ELSE <<there[1], i + 2>>
    ELSE LET j == i + 1 + At(i)
         IN  IF j > Size THEN Nothing
             ELSE LET rest == Name[j, depth]
                  IN  IF rest = Nothing THEN Nothing
                      ELSE <<<<SubSeq(data, i + 2, j)>>
                               \o (IF rest[1] = <<>> /\ IsPointer(At(j)) THEN <<<<>>>> ELSE rest[1]),
                             rest[2]>>

\* The names in the data of a record, as far as they can be read; the data is
\* taken as it is if one cannot.  A name may read beyond the record's end.
TwoNames(i) ==
    LET first == Name[i, 0]
        second == Name[first[2], 0]
    IN  IF first = Nothing \/ second = Nothing THEN Nothing
        ELSE IF second[2] + 20 > Size THEN Nothing
        ELSE <<first[1], second[1]>>

OneName(i) ==
    LET name == Name[i, 0] IN IF name = Nothing THEN Nothing ELSE <<name[1]>>

\* parse_rdata
Rdata(i, n, type) ==
    CASE type \in {2, 5, 12} -> OneName(i)
      [] type = 15 /\ n >= 3 -> OneName(i + 2)
      [] type = 33 /\ n >= 6 -> OneName(i + 6)
      [] type = 6 -> TwoNames(i)
      [] OTHER -> Nothing

\* parse_rr at i: [name, type, target, from, to]
Record(i) ==
    LET name == Name[i, 0]
        p == name[2]
    IN  IF name = Nothing THEN Nothing
        ELSE IF p + 10 > Size THEN Nothing
        ELSE IF p + 10 + Word(p + 8) > Size THEN Nothing
        ELSE [name |-> name[1], type |-> Word(p), from |-> i, to |-> p + 10 + Word(p + 8),
              target |-> Rdata(p + 10, Word(p + 8), Word(p))]

\* parse_records: up to n records, no more once one cannot be read.  (A record
\* takes more than ten octets.)
Records(st, n) ==
    FoldLeft(LAMBDA s, k :
                LET r == IF s.stuck THEN Nothing ELSE Record(s.pos)
                IN  IF r = Nothing THEN [s EXCEPT !.stuck = TRUE]
                    ELSE [s EXCEPT !.pos = r.to, !.out = Append(@, r)],
             [pos |-> st.pos, out |-> <<>>, stuck |-> FALSE],
             [k \in 1..(IF n < Size THEN n ELSE Size) |-> k])

Questions(n) ==
    FoldLeft(LAMBDA s, k :
                IF s.over THEN s
                ELSE LET q == Name[s.pos, 0]
                     IN  IF q = Nothing THEN [s EXCEPT !.over = TRUE, !.failed = TRUE]
                         ELSE IF q[2] + 4 > Size THEN [s EXCEPT !.over = TRUE, !.pos = q[2]]
                         ELSE [s EXCEPT !.pos = q[2] + 4, !.out = Append(@, q[1])],
             [pos |-> Base + 12, out |-> <<>>, over |-> FALSE, failed |-> FALSE],
             [k \in 1..n |-> k])

try_decode_dns ==
    IF Size - Base < 12 THEN Nothing
    ELSE IF \/ Word(Base + 4) > 100
            \/ \E i \in {6, 8, 10} : Word(Base + i) > 4096 THEN Nothing
    ELSE LET q == Questions(Word(Base + 4))
             an == Records(q, Word(Base + 6))
             ns == Records(an, Word(Base + 8))
             ar == Records(ns, Word(Base + 10))
         IN  IF q.failed \/ q.out = <<>> THEN Nothing
             ELSE [questions |-> q.out, sections |-> <<an.out, ns.out, ar.out>>,
                   end |-> IF ar.pos < Size THEN ar.pos ELSE Size]

-----------------------------------------------------------------------------
(***************************************************************************)
(* The sender.                                                             *)
(***************************************************************************)
Octets(n) == <<n \div 256, n % 256>>
Zeros(n) == [i \in 1..n |-> 0]
Labels(name) == FlattenSeq([i \in DOMAIN name |-> <<Len(name[i])>> \o name[i]])
Rest(name, k) == SubSeq(name, k + 1, Len(name))

\* The ways to write a name: in full, or k labels and a pointer.
Writings(name) ==
    {Labels(name) \o <<0>>} \cup
    {Labels(SubSeq(name, 1, k)) \o <<192 + (at \div 256), at % 256>> :
        <<k, at>> \in {x \in (0..(Len(name) - 1)) \X {p[2] : p \in places} :
                          <<Rest(name, x[1]), x[2]>> \in places}}

\* The places a name written at message offset at gives, for its own labels.
Given(name, text, at) ==
    {<<Rest(name, k), at + Len(Labels(SubSeq(name, 1, k)))>> :
        k \in {k \in 0..(Len(name) - 1) : Len(Labels(SubSeq(name, 1, k))) < Len(text) - 1}}

\* One more in section s (1 to 3) of the counts.
Counted(d, s) == [d EXCEPT ![Base + 6 + 2 * s] = @ + 1]

DnsInit ==
    /\ data = Zeros(Base) \o Zeros(5) \o <<1>> \o Zeros(6)
    /\ places = {} /\ asked = <<>> /\ records = <<>> /\ fate = "writing"

Writing == fate = "writing" /\ UNCHANGED fate

WriteQuestion(name) ==
    /\ Writing /\ asked = <<>>
    /\ LET text == Labels(name) \o <<0>>
       IN  /\ data' = data \o text \o <<0, 1, 0, 1>>
           /\ places' = places \cup Given(name, text, 12)
    /\ asked' = name
    /\ UNCHANGED records

\* A record of section s about name, with the names its type asks for.
Prefix(type) == CASE type = 15 -> Zeros(2) [] type = 33 -> Zeros(6) [] OTHER -> <<>>
Suffix(type) == CASE type = 6 -> Zeros(20) [] type = 1 -> Zeros(4) [] OTHER -> <<>>
NamesAsked(type) == CASE type \in {2, 5, 12, 15, 33} -> 1 [] type = 6 -> 2 [] OTHER -> 0

WriteRecord(s, name, type, target) ==
    /\ Writing /\ asked # <<>> /\ Len(records) < MaxRecords
    /\ records # <<>> => Last(records).section <= s
    /\ \E text \in Writings(name), to \in Writings(target) :
          LET body == Prefix(type)
                      \o FlattenSeq([i \in 1..NamesAsked(type) |-> to])
                      \o Suffix(type)
          IN  /\ data' = Counted(data, s) \o text \o Octets(type) \o Zeros(6)
                         \o Octets(Len(body)) \o body
              /\ places' = places \cup Given(name, text, Size - Base)
    /\ records' = Append(records,
                         [name |-> name, type |-> type, section |-> s,
                          target |-> [i \in 1..NamesAsked(type) |-> target]])
    /\ UNCHANGED asked

Send ==
    /\ fate = "writing" /\ asked # <<>>
    /\ fate' = "whole"
    /\ UNCHANGED <<data, places, asked, records>>

Cut(n) ==
    /\ fate = "writing" /\ asked # <<>>
    /\ data' = SubSeq(data, 1, n)
    /\ fate' = "cut"
    /\ UNCHANGED <<places, asked, records>>

Change(i, b) ==
    /\ fate = "writing" /\ asked # <<>> /\ Len(records) <= MaxChanged
    /\ data' = [data EXCEPT ![i] = b]
    /\ fate' = "changed"
    /\ UNCHANGED <<places, asked, records>>

DnsNext ==
    \/ \E name \in DomainNames : WriteQuestion(name)
    \/ \E s \in 1..3, name, target \in DomainNames, type \in RecordTypes :
          WriteRecord(s, name, type, target)
    \/ Send
    \/ \E n \in Base..(Size - 1) : Cut(n)
    \/ \E i \in (Base + 1)..Size, b \in Noise : Change(i, b)

DnsSpec == DnsInit /\ [][DnsNext]_dnsVars

-----------------------------------------------------------------------------
(***************************************************************************)
(* Properties.                                                             *)
(***************************************************************************)
\* Record r as it was read says what was written.
SaysRecord(r, w) == r.name = w.name /\ r.type = w.type /\ r.target = w.target

\* A whole message is read as it was written, each record in its section, up
\* to its last octet.
WholeExact(got) ==
    fate = "whole" =>
        /\ got # Nothing
        /\ got.questions = <<asked>> /\ got.end = Size
        /\ \A s \in 1..3 :
              LET sent == SelectSeq(records, LAMBDA w : w.section = s)
              IN  /\ Len(got.sections[s]) = Len(sent)
                  /\ \A i \in DOMAIN sent : SaysRecord(got.sections[s][i], sent[i])

\* Of a message that was cut short (by the snapshot length), the records read
\* are a beginning of those written.
CutIsPrefix(got) ==
    fate = "cut" /\ got # Nothing =>
        LET found == FlattenSeq(got.sections)
        IN  /\ got.questions = <<asked>>
            /\ Len(found) <= Len(records)
            /\ \A i \in DOMAIN found :
                  found[i].name = records[i].name /\ found[i].type = records[i].type

\* Whatever an octet was changed to, pointers in circles and lengths beyond the
\* end included: records follow one another and stay within the packet.
RecordsAdvance(got) ==
    got # Nothing =>
        LET found == FlattenSeq(got.sections)
        IN  /\ got.end <= Size
            /\ \A i \in DOMAIN found :
                  /\ found[i].from + 11 <= found[i].to /\ found[i].to <= got.end
                  /\ i > 1 => found[i].from = found[i - 1].to

\* What try_decode_dns makes of a message is what was sent, as far as it came.
MessagesExact ==
    fate # "writing" =>
        \E got \in {try_decode_dns} :
            WholeExact(got) /\ CutIsPrefix(got) /\ RecordsAdvance(got)
=============================================================================
