------------------------------ MODULE Filters ------------------------------
(***************************************************************************)
(* The display filter language (src/filter): what a text typed into the    *)
(* filter bar is parsed to, and which packets that keeps.                  *)
(*                                                                         *)
(* A text is a sequence of words, with a space between any two; synonyms   *)
(* ("&&", "||", "!", "alert") are one word here.  A word that only begins  *)
(* like a keyword ("tcpdump") leaves a rest that nothing consumes, as a    *)
(* word the grammar does not know does.                                    *)
(***************************************************************************)
EXTENDS Naturals, Sequences, FiniteSets

CONSTANTS
    Lexicons,    \* <<words, bound>>: a text is made of these words, and of
                 \* at most so many
    Protos,      \* words of protocol_atom
    LayersOf,    \* the kinds of layers each of them stands for
    Dotted,      \* words that field_path takes: identifiers with dots
    Addresses,   \* words that ip_addr_value takes
    Numbers,     \* words that integer_value takes
    Within,      \* <<pattern, string>>: the string contains the pattern
    Packets      \* [layers, threat, says]: says has the texts in the summary

ASSUME FilterAssumption ==
    /\ Addresses \cap Numbers = {}
    /\ DOMAIN LayersOf = Protos
    /\ \A x \in Lexicons : x[2] \in Nat

VARIABLES lexicon, text

filterVars == <<lexicon, text>>

-----------------------------------------------------------------------------
(***************************************************************************)
(* The parser.  A rule, applied at word i of s, gives the expression and   *)
(* the place behind it, or fails: at = 0.                                  *)
(***************************************************************************)
Word(s, i) == IF i \in DOMAIN s THEN s[i] ELSE "end"
Fail == [at |-> 0]
Parsed(e, i) == [at |-> i, e |-> e]

\* A pattern or a value is any word, a keyword too, that is no ")".
IsWord(w) == w \notin {"end", ")"}

\* filter_value: an address, then a number, then any word.
Value(w) ==
    IF w \in Addresses THEN <<"ip", w>>
    ELSE IF w \in Numbers THEN <<"int", w>> ELSE <<"str", w>>

Operand(level) == IF level = "or" THEN "and" ELSE "unary"

RECURSIVE Chain(_, _, _), More(_, _, _), Unary(_, _)

\* What stands between two connectives of a level.
Rule(level, s, i) == IF level = "unary" THEN Unary(s, i) ELSE Chain(level, s, i)

\* many0(preceded(connective, operand)), folded to the left.  A connective
\* without an operand behind it is not consumed.
More(level, s, left) ==
    LET right == Rule(Operand(level), s, left.at + 1)
    IN  IF Word(s, left.at) = level /\ right.at # 0
        THEN More(level, s, Parsed([is |-> level, l |-> left.e, r |-> right.e], right.at))
        ELSE left

\* expr and and_term
Chain(level, s, i) ==
    LET first == Rule(Operand(level), s, i)
    IN  IF first.at = 0 THEN Fail ELSE More(level, s, first)

\* contains_expr, comparison_expr and protocol_atom, in this order
Simple(s, i) ==
    LET w == Word(s, i)
        rel == Word(s, i + 1)
        v == Word(s, i + 2)
    IN  CASE w \in Dotted /\ rel = "contains" /\ IsWord(v) ->
                 Parsed([is |-> "contains", field |-> w, pattern |-> v], i + 3)
          [] w \in Dotted /\ rel \in {"==", "!="} /\ IsWord(v) ->
                 Parsed([is |-> rel, field |-> w, value |-> Value(v)], i + 3)
          [] w \in Protos -> Parsed([is |-> "proto", proto |-> w], i + 1)
          [] OTHER -> Fail

Atom(s, i) ==
    LET inner == Chain("or", s, i + 1)
    IN  CASE Word(s, i) = "(" ->
                 IF inner.at # 0 /\ Word(s, inner.at) = ")"
                 THEN Parsed(inner.e, inner.at + 1) ELSE Fail
          [] Word(s, i) = "threat" -> Parsed([is |-> "threat"], i + 1)
          [] OTHER -> Simple(s, i)

Unary(s, i) ==
    LET inner == Unary(s, i + 1)
    IN  IF Word(s, i) = "not" /\ inner.at # 0
        THEN Parsed([is |-> "not", e |-> inner.e], inner.at)
        ELSE Atom(s, i)

\* parse_filter: what is not an expression to its end is plain text.
ParseFilter(s) ==
    LET whole == Chain("or", s, 1)
    IN  IF whole.at = Len(s) + 1 THEN whole.e ELSE [is |-> "text", text |-> s]

-----------------------------------------------------------------------------
(***************************************************************************)
(* The evaluation.  A layer has a kind and fields; a field may be there    *)
(* without a value (a query without a question).                           *)
(***************************************************************************)
NoValue == <<"none", "none">>

HasProtocol(layers, proto) ==
    \E i \in DOMAIN layers : layers[i].kind \in LayersOf[proto]

\* The first of the layers that were found, in a sequence of at most one.
FirstOf(found) == SubSeq(found, 1, IF found = <<>> THEN 0 ELSE 1)

\* extract_field: the first layer with the field decides, value or not.
ExtractField(layers, field) ==
    LET HasField(l) == field \in DOMAIN l.fields
        l == FirstOf(SelectSeq(layers, HasField))
    IN  IF l = <<>> THEN NoValue ELSE l[1].fields[field]

CompareValues(left, op, right) ==
    IF op = "==" THEN left = right ELSE left # right

\* Faulty variant: one port that differs is enough for "!=".
EitherPort(layers, kind, op, value) ==
    LET OfKind(l) == l.kind = kind
        l == FirstOf(SelectSeq(layers, OfKind))
    IN  l # <<>> /\ \E p \in l[1].ports : CompareValues(p, op, value)

\* match_port_either: "!=" means neither port, "==" either of them.
MatchPort(layers, kind, op, value) ==
    LET OfKind(l) == l.kind = kind
        l == FirstOf(SelectSeq(layers, OfKind))
    IN  /\ l # <<>>
        /\ IF op = "!=" THEN \A p \in l[1].ports : CompareValues(p, op, value)
           ELSE \E p \in l[1].ports : CompareValues(p, op, value)

Compare(layers, field, op, value) ==
    CASE field = "tcp.port" -> MatchPort(layers, "tcp", op, value)
      [] field = "udp.port" -> MatchPort(layers, "udp", op, value)
      [] OTHER -> LET found == ExtractField(layers, field)
                  IN  found # NoValue /\ CompareValues(found, op, value)

RECURSIVE EvalFilter(_, _)
EvalFilter(e, p) ==
    CASE e.is = "proto" -> HasProtocol(p.layers, e.proto)
      [] e.is \in {"==", "!="} -> Compare(p.layers, e.field, e.is, e.value)
      [] e.is = "contains" ->
             LET found == ExtractField(p.layers, e.field)
             IN  found[1] = "str" /\ <<e.pattern, found[2]>> \in Within
      [] e.is = "text" -> e.text \in p.says
      [] e.is = "threat" -> p.threat
      [] e.is = "and" -> EvalFilter(e.l, p) /\ EvalFilter(e.r, p)
      [] e.is = "or" -> EvalFilter(e.l, p) \/ EvalFilter(e.r, p)
      [] e.is = "not" -> ~EvalFilter(e.e, p)

-----------------------------------------------------------------------------
FilterInit == lexicon \in Lexicons /\ text = <<>>

\* One more word in the filter bar.
Type(w) ==
    /\ Len(text) < lexicon[2]
    /\ text' = Append(text, w)
    /\ UNCHANGED lexicon

FilterNext == \E w \in lexicon[1] : Type(w)

-----------------------------------------------------------------------------
(***************************************************************************)
(* Properties.  The reference is the grammar as a reader knows it, without *)
(* a parser: a text means the union of what each way to read it means.     *)
(***************************************************************************)
Upto(s, i) == SubSeq(s, 1, i - 1)
After(s, i) == SubSeq(s, i + 1, Len(s))
At(s, w) == {i \in DOMAIN s : s[i] = w}

\* The values a packet has for a field.
ValuesOf(p, field) ==
    LET kind == IF field = "udp.port" THEN "udp" ELSE "tcp"
        all == {i \in DOMAIN p.layers :
                    IF field \in {"tcp.port", "udp.port"} THEN p.layers[i].kind = kind
                    ELSE field \in DOMAIN p.layers[i].fields}
        outer == {i \in all : \A j \in all : i <= j}
    IN  UNION {IF field \in {"tcp.port", "udp.port"} THEN p.layers[i].ports
               ELSE {p.layers[i].fields[field]} \ {NoValue} : i \in outer}

\* "==": the packet has this value; "!=": it has the field, and not this
\* value; "contains": it has a string with this pattern.
Relates(p, field, rel, w) ==
    LET values == ValuesOf(p, field)
    IN  CASE rel = "==" -> Value(w) \in values
          [] rel = "!=" -> values # {} /\ Value(w) \notin values
          [] rel = "contains" -> \E v \in values : v[1] = "str" /\ <<w, v[2]>> \in Within

RECURSIVE Disjunction(_, _), Conjunction(_, _), Negation(_, _)

\* A disjunction of conjunctions of negations, with parentheses.
Primary(s, p) ==
    (IF Len(s) = 1 /\ s[1] = "threat" THEN {p.threat} ELSE {})
    \cup (IF Len(s) = 1 /\ s[1] \in Protos
          THEN {\E i \in DOMAIN p.layers : p.layers[i].kind \in LayersOf[s[1]]} ELSE {})
    \cup (IF Len(s) = 3 /\ s[1] \in Dotted /\ s[2] \in {"==", "!=", "contains"} /\ s[3] # ")"
          THEN {Relates(p, s[1], s[2], s[3])} ELSE {})
    \cup (IF Len(s) > 2 /\ s[1] = "(" /\ s[Len(s)] = ")"
          THEN Disjunction(SubSeq(s, 2, Len(s) - 1), p) ELSE {})

Negation(s, p) ==
    Primary(s, p)
    \cup (IF s # <<>> /\ s[1] = "not" THEN {~b : b \in Negation(Tail(s), p)} ELSE {})

Conjunction(s, p) ==
    Negation(s, p)
    \cup UNION {{a /\ b : a \in Conjunction(Upto(s, i), p), b \in Conjunction(After(s, i), p)} :
                    i \in At(s, "and")}

Disjunction(s, p) ==
    Conjunction(s, p)
    \cup UNION {{a \/ b : a \in Disjunction(Upto(s, i), p), b \in Disjunction(After(s, i), p)} :
                    i \in At(s, "or")}

\* A text keeps the packets it says, and has one meaning only: "and" binds
\* tighter than "or", "not" tighter than both ("AND binds tighter than OR"),
\* a value may be any word, a comparison needs the field ("`!= N` means the
\* port is absent on both sides"), and what is no filter is looked for as it
\* is ("anything that is not a complete, valid filter expression").
FilterMeans ==
    text # <<>> =>
        LET e == ParseFilter(text)
        IN  \A p \in Packets :
                LET meant == Disjunction(text, p)
                IN  {EvalFilter(e, p)} =
                        IF meant = {} THEN {text \in p.says} ELSE meant
=============================================================================
