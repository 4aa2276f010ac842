------------------------------- MODULE Ledger -------------------------------
(***************************************************************************)
(* What the monitor promises about connections: a book of accounts.  Every *)
(* packet is credited to the one open account of its 5-tuple; an account   *)
(* is closed because its connection ended or because there was no room,    *)
(* and never touched again; a closed account is entered in the history     *)
(* once, with all that was credited to it, unless the store fails          *)
(* (FlowTracker: a snapshot is emitted "so the daemon never loses a        *)
(* connection's totals").                                                  *)
(*                                                                         *)
(* Monitor, with its flow table, metas, queue and store calls, implements  *)
(* this module.                                                            *)
(***************************************************************************)
EXTENDS Naturals, Sequences, FiniteSets

CONSTANTS
    Keys,        \* normalised 5-tuples
    Sizes,       \* wire lengths a packet may have
    LocalSide,   \* which ends of a key are local addresses
    MaxFlows     \* accounts that may be open at a time

VARIABLES
    accounts,    \* the account of each connection id: key and bytes each way
    open,        \* ids of open accounts
    history,     \* entries, in order
    missing      \* ids whose entry failed

ledgerVars == <<accounts, open, history, missing>>

Ids == DOMAIN accounts
Entered == {history[i].id : i \in DOMAIN history}

Init == accounts = <<>> /\ open = {} /\ history = <<>> /\ missing = {}

\* id is the account a packet of k is credited to.
AccountOf(k, id) ==
    \/ id \in open /\ accounts[id].key = k
    \/ id = Len(accounts) + 1 /\ \A i \in open : accounts[i].key # k

Credit(a, dir, size) ==
    [key |-> a.key,
     lh  |-> IF dir = "lh" THEN a.lh + size ELSE a.lh,
     hl  |-> IF dir = "hl" THEN a.hl + size ELSE a.hl]

\* A packet may end its own connection; a new one makes one other leave a full
\* book, and only then.
Full == Cardinality(open) = MaxFlows
Keeping(id, kept) ==
    /\ kept \subseteq open \cup {id}
    /\ IF id \notin open /\ Full
       THEN \E i \in open : open \ kept = {i}
       ELSE open \ kept \subseteq {id}

Observe(k, dir, size) ==
    \E id \in open \cup {Len(accounts) + 1}, kept \in SUBSET (open \cup {Len(accounts) + 1}) :
        /\ AccountOf(k, id)
        /\ accounts' = IF id \in open THEN [accounts EXCEPT ![id] = Credit(@, dir, size)]
                       ELSE Append(accounts, Credit([key |-> k, lh |-> 0, hl |-> 0], dir, size))
        /\ Keeping(id, kept) /\ open' = kept
        /\ UNCHANGED <<history, missing>>

\* A closed account whose entry is due.
Due(id) == id \in Ids /\ id \notin open \cup Entered \cup missing

\* What the history states of an account: bytes from and to the local end.
Entry(id) ==
    LET a == accounts[id]
        high == LocalSide[a.key] = "high"
    IN  [id |-> id, key |-> a.key,
         up |-> IF high THEN a.hl ELSE a.lh, down |-> IF high THEN a.lh ELSE a.hl]

Enter(id) ==
    /\ Due(id)
    /\ history' = Append(history, Entry(id))
    /\ UNCHANGED <<accounts, open, missing>>

Miss(id) ==
    /\ Due(id)
    /\ missing' = missing \cup {id}
    /\ UNCHANGED <<accounts, open, history>>

Next ==
    \/ \E k \in Keys, dir \in {"lh", "hl"}, size \in Sizes : Observe(k, dir, size)
    \/ \E id \in Ids : Enter(id) \/ Miss(id)

Spec == Init /\ [][Next]_ledgerVars
=============================================================================
