------------------------------ MODULE TlsHello ------------------------------
(***************************************************************************)
(* The parser of TLS handshake records (rust-shark-core/src/decode/tls.rs) *)
(* and the fingerprints of a ClientHello (decode/ja.rs).                   *)
(*                                                                         *)
(* Sequences of octets are counted from 0 in the code and from 1 here.     *)
(* The sender (RFC 8446, 5246) writes one message and lays it out in       *)
(* records: it may span two, or be followed by more, in its record or      *)
(* behind it.  On the way to the parser the packet may be cut short or     *)
(* have an octet changed.  A hash stands for what is hashed.               *)
(***************************************************************************)
EXTENDS Integers, Sequences, FiniteSets, TLC

LOCAL INSTANCE SequencesExt

CONSTANTS
    Prelude,       \* 34: octets of version and random
    Hellos,        \* messages without their extensions
    Extensions,    \* extensions: [type, value]
    MaxExtensions, \* bound of the model: extensions of a message
    Tails,         \* octets that may follow the message in its record
    Garble         \* octets that may appear in place of others

ASSUME HelloAssumption ==
    /\ Prelude >= 2 /\ MaxExtensions \in Nat /\ Garble \subseteq 0..255
    /\ \A h \in Hellos : h.kind \in {"client", "server", "certificate"}

VARIABLES
    hello,         \* the message written: one of Hellos, with extensions
    state,         \* "writing", then "whole", "split", "cut", "changed"
    wire           \* the payload of the packet

helloVars == <<hello, state, wire>>

-----------------------------------------------------------------------------
(***************************************************************************)
(* The parser.  Absent, or the value.                                      *)
(***************************************************************************)
Absent == <<>>
Smaller(a, b) == IF a < b THEN a ELSE b
U16(s, i) == s[i + 1] * 256 + s[i + 2]
U24(s, i) == s[i + 1] * 65536 + s[i + 2] * 256 + s[i + 3]
Behind(s, i) == SubSeq(s, i + 1, Len(s))

\* Faulty variant: a message may go on behind its record.
BodyEndBleeding(s) == Smaller(9 + U24(s, 6), Len(s))

\* Where the message's octets in this record end.
BodyEnd(s) == Smaller(9 + U24(s, 6), 5 + U16(s, 3))

parse_tls_record(s) ==
    IF Len(s) < 6 THEN Absent
    ELSE IF s[1] # 22 \/ Len(s) < 5 + U16(s, 3) \/ U16(s, 3) < 4 THEN Absent
    ELSE <<[type |-> s[6], body |-> SubSeq(s, 10, BodyEnd(s)), end |-> BodyEnd(s)]>>

\* parse_extensions: up to the first that is not there as a whole.
parse_extensions(s) ==
    LET From[p \in Nat] ==
            IF p + 4 > Len(s) THEN <<>>
            ELSE LET end == p + 4 + U16(s, p + 2)
                 IN  IF end > Len(s) THEN <<>>
                     ELSE <<[type |-> U16(s, p), data |-> SubSeq(s, p + 5, end)]>> \o From[end]
    IN  From[0]

\* The extensions of a body whose list of them begins at p.
ExtensionsAt(body, p) ==
    IF p + 2 > Len(body) THEN <<>>
    ELSE parse_extensions(SubSeq(body, p + 3, Smaller(p + 2 + U16(body, p), Len(body))))

\* The first host name; a name that is not UTF-8 (ASCII, here) is none.
parse_sni(s) ==
    LET From[p \in Nat] ==
            IF p + 3 > Len(s) THEN Absent
            ELSE LET end == p + 3 + U16(s, p + 1)
                     name == SubSeq(s, p + 4, end)
                 IN  IF end > Len(s) THEN Absent
                     ELSE IF s[p + 1] # 0 THEN From[end]
                     ELSE IF \A i \in DOMAIN name : name[i] < 128 THEN <<name>> ELSE Absent
    IN  IF Len(s) < 5 THEN Absent ELSE From[2]

parse_alpn(s) ==
    LET From[p \in Nat] ==
            IF p >= Len(s) THEN <<>>
            ELSE LET end == p + 1 + s[p + 1]
                 IN  IF end > Len(s) THEN <<>> ELSE <<SubSeq(s, p + 2, end)>> \o From[end]
    IN  IF Len(s) < 2 THEN <<>> ELSE From[2]

\* parse_u16s, and the loop over the cipher suites.
parse_u16s(s, n) == [k \in 1..(Smaller(n, Len(s)) \div 2) |-> U16(s, 2 * k - 2)]

parse_u16_list_2(s) == IF Len(s) < 2 THEN <<>> ELSE parse_u16s(Behind(s, 2), U16(s, 0))
parse_u16_list_1(s) == IF s = <<>> THEN <<>> ELSE parse_u16s(Tail(s), s[1])
parse_u8_list_1(s) == IF s = <<>> THEN <<>> ELSE SubSeq(s, 2, 1 + Smaller(s[1], Len(s) - 1))

\* The data of the last extension of a type, if any.
DataOf(exts, type) ==
    LET those == SelectSeq(exts, LAMBDA e : e.type = type)
    IN  IF those = <<>> THEN <<>> ELSE Last(those).data

Types(exts) == [i \in DOMAIN exts |-> exts[i].type]

-----------------------------------------------------------------------------
(***************************************************************************)
(* The fingerprints.                                                       *)
(***************************************************************************)
is_grease(v) == v \div 256 = v % 256 /\ v % 16 = 10
Greaseless(s) == SelectSeq(s, LAMBDA v : ~is_grease(v))
Sorted(s) == SortSeq(s, <)

ja3_string(version, ciphers, types, groups, formats) ==
    <<version, Greaseless(ciphers), Greaseless(types), Greaseless(groups), formats>>

VersionCode(v) ==
    IF v \in {772, 771, 770, 769, 768, 65279, 65277} THEN v ELSE "00"

Alphanumeric == (48..57) \cup (65..90) \cup (97..122)

\* First and last octet, or their nibbles in hexadecimal.
ja4_alpn(names) ==
    IF names = <<>> \/ names[1] = <<>> THEN "00"
    ELSE LET a == names[1][1]
             z == Last(names[1])
         IN  IF {a, z} \subseteq Alphanumeric THEN <<"text", a, z>>
             ELSE <<"hex", a \div 16, z % 16>>

\* The printable parts, the sorted ciphers, the sorted extensions with the
\* signature algorithms in their order.
ja4(version, named, ciphers, types, algs, alpn) ==
    <<VersionCode(version), named,
      Smaller(Len(Greaseless(ciphers)), 99), Smaller(Len(Greaseless(types)), 99), ja4_alpn(alpn),
      Sorted(Greaseless(ciphers)),
      Sorted(SelectSeq(Greaseless(types), LAMBDA v : v \notin {0, 16})), algs>>

-----------------------------------------------------------------------------
(***************************************************************************)
(* The messages.                                                           *)
(***************************************************************************)
\* A message whose session, ciphers or compression methods are not there as a
\* whole shows its version only.
MinimalHello(version, end) ==
    [sni |-> Absent, alpn |-> <<>>, ciphers |-> <<>>, types |-> <<>>, groups |-> <<>>,
     formats |-> <<>>, algs |-> <<>>, versions |-> <<>>, version |-> version,
     ja3 |-> Absent, ja4 |-> Absent, end |-> end]

FullHello(version, ciphers, exts, end) ==
    LET types == Types(exts)
        sni == parse_sni(DataOf(exts, 0))
        alpn == parse_alpn(DataOf(exts, 16))
        groups == parse_u16_list_2(DataOf(exts, 10))
        formats == parse_u8_list_1(DataOf(exts, 11))
        algs == parse_u16_list_2(DataOf(exts, 13))
        versions == parse_u16_list_1(DataOf(exts, 43))
        listed == Range(Greaseless(versions))
        offered == IF listed = {} THEN {version} ELSE listed
        best == CHOOSE v \in offered : \A w \in offered : w <= v
    IN  [sni |-> sni, alpn |-> alpn, ciphers |-> ciphers, types |-> types, groups |-> groups,
         formats |-> formats, algs |-> algs, versions |-> versions, version |-> version,
         ja3 |-> <<ja3_string(version, ciphers, types, groups, formats)>>,
         ja4 |-> <<ja4(best, sni # Absent, ciphers, types, algs, alpn)>>, end |-> end]

\* From body[p], behind the session, on.
HelloFrom(body, p, end) ==
    LET version == U16(body, 0)
        q == p + 2 + U16(body, p)
    IN  IF p + 2 > Len(body) THEN MinimalHello(version, end)
        ELSE IF q >= Len(body) THEN MinimalHello(version, end)
        ELSE FullHello(version, parse_u16s(SubSeq(body, p + 3, q), q - p - 2),
                       ExtensionsAt(body, q + 1 + body[q + 1]), end)

try_decode_tls_client_hello(s) ==
    LET rec == parse_tls_record(s)
        body == rec[1].body
    IN  IF rec = Absent THEN Absent
        ELSE IF rec[1].type # 1 THEN Absent
        ELSE IF Len(body) < Prelude THEN <<MinimalHello(0, rec[1].end)>>
        ELSE IF Len(body) = Prelude THEN <<MinimalHello(U16(body, 0), rec[1].end)>>
        ELSE <<HelloFrom(body, Prelude + 1 + body[Prelude + 1], rec[1].end)>>

\* The version is the first that the supported_versions extension lists, as a
\* ClientHello would; a server's holds the version without a length before it.
parse_server_hello(body) ==
    LET p == Prelude + 1 + body[Prelude + 1]
        exts == ExtensionsAt(body, p + 3)
        listed == Greaseless(parse_u16_list_1(DataOf(exts, 43)))
        version == IF Len(body) < Prelude THEN 0 ELSE U16(body, 0)
    IN  IF Len(body) <= Prelude \/ p + 2 > Len(body)
        THEN [version |-> version, cipher |-> 0, alpn |-> <<>>]
        ELSE [version |-> IF listed = <<>> THEN version ELSE listed[1],
              cipher |-> U16(body, p),
              alpn |-> parse_alpn(DataOf(exts, 16))]

count_certs(body) ==
    LET end == Smaller(3 + U24(body, 0), Len(body))
        From[p \in Nat] ==
            IF p + 3 > end THEN 0
            ELSE LET q == p + 3 + U24(body, p) IN IF q > end THEN 0 ELSE 1 + From[q]
    IN  IF Len(body) < 3 THEN 0 ELSE From[3]

try_decode_tls_handshake(s) ==
    LET rec == parse_tls_record(s)
    IN  IF rec = Absent THEN Absent
        ELSE CASE rec[1].type = 1 -> Absent
               [] rec[1].type = 2 -> <<parse_server_hello(rec[1].body)>>
               [] rec[1].type = 11 -> <<[certs |-> count_certs(rec[1].body)]>>
               [] OTHER -> <<[other |-> rec[1].type]>>

-----------------------------------------------------------------------------
(***************************************************************************)
(* The sender.                                                             *)
(***************************************************************************)
Pair(n) == <<n \div 256, n % 256>>
Pairs(s) == FlattenSeq([i \in DOMAIN s |-> Pair(s[i])])
Vec8(s) == <<Len(s)>> \o s
Vec16(s) == Pair(Len(s)) \o s
Vec24(s) == <<0>> \o Vec16(s)
Blank(n) == [i \in 1..n |-> 0]

Content(kind, e) ==
    CASE e.type = 0 -> Vec16(FlattenSeq([i \in DOMAIN e.value |->
                                 <<e.value[i][1]>> \o Vec16(e.value[i][2])]))
      [] e.type = 16 -> Vec16(FlattenSeq([i \in DOMAIN e.value |-> Vec8(e.value[i])]))
      [] e.type \in {10, 13} -> Vec16(Pairs(e.value))
      [] e.type = 43 -> IF kind = "client" THEN Vec8(Pairs(e.value)) ELSE Pair(e.value[1])
      [] OTHER -> Vec8(e.value)

Body(h) ==
    LET begin == Pair(h.version) \o Blank(Prelude - 2) \o Vec8(Blank(h.session))
        exts == Vec16(FlattenSeq([i \in DOMAIN h.exts |->
                                     Pair(h.exts[i].type) \o Vec16(Content(h.kind, h.exts[i]))]))
    IN  CASE h.kind = "client" -> begin \o Vec16(Pairs(h.ciphers)) \o Vec8(<<0>>) \o exts
          [] h.kind = "server" -> begin \o Pair(h.ciphers[1]) \o <<0>> \o exts
          [] h.kind = "certificate" ->
                Vec24(FlattenSeq([i \in DOMAIN h.certs |-> Vec24(Blank(h.certs[i]))]))

Message(h) ==
    <<CASE h.kind = "client" -> 1 [] h.kind = "server" -> 2 [] OTHER -> 11>> \o Vec24(Body(h))

TlsRecord(s) == <<22, 3, 1>> \o Vec16(s)

HelloInit ==
    /\ hello \in {[h EXCEPT !.exts = <<>>] : h \in Hellos}
    /\ state = "writing" /\ wire = <<>>

Extend(e) ==
    /\ state = "writing" /\ hello.kind # "certificate"
    /\ Len(hello.exts) < MaxExtensions /\ e.type \notin Range(Types(hello.exts))
    /\ hello' = [hello EXCEPT !.exts = Append(@, e)]
    /\ UNCHANGED <<state, wire>>

Leave(fate, s) ==
    /\ state = "writing" /\ state' = fate /\ wire' = s
    /\ UNCHANGED hello

\* The message in one record, with tail behind it there and a record behind that.
Ship(tail) == Leave("whole", TlsRecord(Message(hello) \o tail) \o TlsRecord(Message(hello)))

\* The first k octets in one record, the others in another.
Split(k) ==
    Leave("split", TlsRecord(SubSeq(Message(hello), 1, k)) \o TlsRecord(Behind(Message(hello), k)))

Truncate(k) == Leave("cut", SubSeq(TlsRecord(Message(hello)), 1, k))

Garbled(i, b) == Leave("changed", [TlsRecord(Message(hello)) EXCEPT ![i] = b])

HelloNext ==
    \/ \E e \in Extensions : Extend(e)
    \/ \E tail \in Tails : Ship(tail)
    \/ \E k \in 4..(Len(Message(hello)) - 1) : Split(k)
    \/ \E k \in 0..(Len(Message(hello)) + 4) : Truncate(k)
    \/ \E i \in 1..(Len(Message(hello)) + 5), b \in Garble : Garbled(i, b)

HelloSpec == HelloInit /\ [][HelloNext]_helloVars

-----------------------------------------------------------------------------
(***************************************************************************)
(* Properties.                                                             *)
(***************************************************************************)
\* What a message says with its first n extensions.
Says(h, n, type) ==
    LET those == SelectSeq(SubSeq(h.exts, 1, n), LAMBDA e : e.type = type)
    IN  IF those = <<>> THEN <<>> ELSE those[1].value

HostName(h, n) ==
    LET hosts == SelectSeq(Says(h, n, 0), LAMBDA x : x[1] = 0)
    IN  IF hosts = <<>> THEN Absent ELSE <<hosts[1][2]>>

\* A ClientHello was read up to and with its n-th extension.
ReadUpTo(got, h, n) ==
    /\ got.types = SubSeq(Types(h.exts), 1, n)
    /\ got.sni = HostName(h, n)
    /\ got.alpn = Says(h, n, 16) /\ got.groups = Says(h, n, 10)
    /\ got.formats = Says(h, n, 11) /\ got.algs = Says(h, n, 13)
    /\ got.versions = Says(h, n, 43)

\* The same client at its next connection: other extensions first, other
\* values that mean nothing.
Reshuffled(h) ==
    [h EXCEPT !.ciphers = <<2570>> \o Reverse(h.ciphers),
              !.exts = <<[type |-> 6682, value |-> <<>>]>> \o Reverse(h.exts)]

\* A message that lies in one record is read as it was written, whatever
\* stands behind it, and a client keeps its JA4 from connection to connection.
WholeHello ==
    LET client == try_decode_tls_client_hello(wire)
        other == try_decode_tls_handshake(wire)
    IN  CASE hello.kind = "client" ->
                /\ other = Absent /\ client # Absent
                /\ client[1].version = hello.version /\ client[1].ciphers = hello.ciphers
                /\ ReadUpTo(client[1], hello, Len(hello.exts))
                /\ client[1].ja4 =
                     try_decode_tls_client_hello(TlsRecord(Message(Reshuffled(hello))))[1].ja4
          [] hello.kind = "server" ->
                /\ client = Absent
                /\ other = <<[version |-> hello.version, cipher |-> hello.ciphers[1],
                              alpn |-> Says(hello, Len(hello.exts), 16)]>>
          [] hello.kind = "certificate" ->
                client = Absent /\ other = <<[certs |-> Len(hello.certs)]>>

\* Of a message that goes on in another record, what is read was written and
\* in this record: each field is the one that was sent or is empty.
SplitHello ==
    LET client == try_decode_tls_client_hello(wire)
        other == try_decode_tls_handshake(wire)
    IN  CASE hello.kind = "client" ->
                /\ client # Absent
                /\ client[1].version \in {0, hello.version}
                /\ client[1].ciphers \in {<<>>, hello.ciphers}
                /\ \E n \in 0..Len(hello.exts) : ReadUpTo(client[1], hello, n)
          [] hello.kind = "server" ->
                /\ other[1].version \in {0, hello.version}
                /\ other[1].cipher \in {0, hello.ciphers[1]}
                /\ other[1].alpn \in {<<>>, Says(hello, Len(hello.exts), 16)}
          [] hello.kind = "certificate" -> other[1].certs <= Len(hello.certs)

\* A record that was cut short shows nothing; of one that was garbled, nothing
\* is read beyond its end (TLC would find the octet missing).
HelloExact ==
    CASE state = "whole" -> WholeHello
      [] state = "split" -> SplitHello
      [] state = "cut" -> /\ try_decode_tls_client_hello(wire) = Absent
                          /\ try_decode_tls_handshake(wire) = Absent
      [] state = "changed" ->
            /\ Len(try_decode_tls_handshake(wire)) <= 1
            /\ \A got \in Range(try_decode_tls_client_hello(wire)) : got.end <= Len(wire)
      [] OTHER -> TRUE
=============================================================================
