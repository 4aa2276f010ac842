--------------------------- MODULE MCAlertEngine ---------------------------
(***************************************************************************)
(* Small instances of AlertEngine for TLC.  The address d1 is only ever    *)
(* known by its owner's name; d2, in another network of the same country,  *)
(* has no known owner and goes by its address.                             *)
(***************************************************************************)
EXTENDS AlertEngine

CONSTANTS p1

MCGeoOf == [d \in Dests |-> IF d = "d1" THEN {"KR"} ELSE {"KR", "AS1"}]

Signed(value, signer, status) ==
    [kind |-> "codesign", value |-> value, signer |-> signer, status |-> status]

\* A signed program, its update by the same signer, another signer's program, one
\* without a signature, and a moment at which the file cannot be read.
MCIdents == {Signed("v1", "s1", "valid"), Signed("v2", "s1", "valid"),
             Signed("v3", "s2", "valid"), Signed("v4", "none", "invalid"),
             Signed("", "none", "unreadable")}

FlowTo(dest, out, ident, spike) ==
    [proc |-> p1, dest |-> dest, label |-> IF dest = "d1" THEN "owner" ELSE "address",
     out |-> out, ident |-> ident, spike |-> spike]

\* Flows of one process: in and out, to both destinations, a volume spike, and
\* every identity on the way out and one on the way in; and a flow that belongs to
\* nobody.
MCFlows ==
    {FlowTo("d1", TRUE, NoIdent, FALSE), FlowTo("d1", FALSE, NoIdent, FALSE),
     FlowTo("d2", TRUE, NoIdent, FALSE), FlowTo("d1", FALSE, NoIdent, TRUE),
     FlowTo("d1", FALSE, Signed("v3", "s2", "valid"), FALSE),
     [FlowTo("d1", TRUE, NoIdent, FALSE) EXCEPT !.proc = NoProc]}
    \cup {FlowTo("d1", TRUE, i, FALSE) : i \in MCIdents}
=============================================================================
