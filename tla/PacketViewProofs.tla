-------------------------- MODULE PacketViewProofs --------------------------
(***************************************************************************)
(* The packet list shows what it is meant to show, for a ring and a screen *)
(* of any size, any number of packets and whatever keys are pressed while  *)
(* they arrive.                                                            *)
(***************************************************************************)
EXTENDS PacketView, SequenceTheorems, WellFoundedInduction, TLAPS

\* s lists the positions S in ascending order.
Lists(s, S) ==
    /\ s \in Seq(Nat)
    /\ {s[k] : k \in DOMAIN s} = S
    /\ \A k, l \in DOMAIN s : k < l => s[k] < s[l]

\* Ring positions that pass the filters.
Passed == {i \in 0..(Len(ring) - 1) : Passes(ring[i + 1])}

-----------------------------------------------------------------------------
(***************************************************************************)
(* The loops over positions.                                               *)
(***************************************************************************)

LEMMA LeastOf ==
    ASSUME NEW T \in SUBSET Nat, T # {}
    PROVE  \E n \in T : \A m \in T : n <= m
<1>1. PICK n \in T : \A m \in T : ~(<<m, n>> \in OpToRel(<, Nat))
  BY NatLessThanWellFounded, WFMin
<1>2. \A m \in T : ~(m < n)
  BY <1>1 DEF OpToRel
<1> QED BY <1>2

Step(S, f, i) ==
    IF i = 0 THEN <<>> ELSE IF i - 1 \in S THEN Append(f[i - 1], i - 1) ELSE f[i - 1]

IsLoop(f, S, n) == f = [i \in 0..n |-> f[i]] /\ \A i \in 0..n : f[i] = Step(S, f, i)

\* The loop of Ascending comes to its end.
LEMMA LoopExists ==
    ASSUME NEW S, NEW n \in Nat
    PROVE  \E f : IsLoop(f, S, n)
<1> DEFINE Bad == {k \in Nat : ~\E f : IsLoop(f, S, k)}
<1> SUFFICES ASSUME n \in Bad PROVE FALSE
  OBVIOUS
<1>1. PICK k \in Bad : \A m \in Bad : k <= m
  BY LeastOf
<1>2. CASE k = 0
  <2> DEFINE f == [i \in 0..0 |-> <<>>]
  <2>1. \A i \in 0..0 : i = 0
    OBVIOUS
  <2>2. \A i \in 0..0 : f[i] = Step(S, f, i)
    BY <2>1 DEF Step
  <2>3. f = [i \in 0..0 |-> f[i]]
    OBVIOUS
  <2> HIDE DEF f
  <2> QED BY <1>1, <1>2, <2>2, <2>3 DEF IsLoop
<1>3. CASE k # 0
  <2>1. k \in Nat /\ k - 1 \in Nat /\ k - 1 \notin Bad
    BY <1>1, <1>3
  <2>2. PICK g : IsLoop(g, S, k - 1)
    BY <2>1
  <2> DEFINE f == [i \in 0..k |-> IF i = k THEN Step(S, g, k) ELSE g[i]]
  <2>3. \A i \in 0..(k - 1) : f[i] = g[i] /\ g[i] = Step(S, g, i)
    BY <2>1, <2>2 DEF IsLoop
  <2>4. \A i \in 0..k : f[i] = Step(S, f, i)
    <3> TAKE i \in 0..k
    <3>1. CASE i = 0
      <4>0. 0 \in 0..(k - 1)
        BY <2>1
      <4>1. f[0] = g[0] /\ g[0] = Step(S, g, 0)
        BY <2>3, <4>0
      <4> QED BY <3>1, <4>1 DEF Step
    <3>2. CASE i # 0
      <4>1. i - 1 \in 0..(k - 1) /\ f[i - 1] = g[i - 1]
        BY <2>1, <2>3, <3>2
      <4>2. Step(S, f, i) = Step(S, g, i)
        BY <4>1 DEF Step
      <4>3. f[i] = Step(S, g, i)
        <5>1. i = k \/ i \in 0..(k - 1)
          BY <2>1
        <5> QED BY <2>1, <2>3, <5>1
      <4> QED BY <4>2, <4>3
    <3> QED BY <3>1, <3>2
  <2>5. f = [i \in 0..k |-> f[i]]
    OBVIOUS
  <2> HIDE DEF f
  <2> QED BY <1>1, <2>4, <2>5 DEF IsLoop
<1> QED BY <1>2, <1>3

LEMMA AscendingLoop ==
    ASSUME NEW S, NEW n \in Nat
    PROVE  \E f : IsLoop(f, S, n) /\ Ascending(S, n) = f[n]
<1> DEFINE P(f) == f = [i \in 0..n |->
            IF i = 0 THEN <<>>
            ELSE IF i - 1 \in S THEN Append(f[i - 1], i - 1) ELSE f[i - 1]]
<1>1. PICK g : IsLoop(g, S, n)
  BY LoopExists
<1>2. P(g)
  BY <1>1, Zenon DEF IsLoop, Step
<1>3. P(CHOOSE f : P(f))
  BY <1>2, Zenon
<1>4. Ascending(S, n) = (CHOOSE f : P(f))[n]
  BY Zenon DEF Ascending
<1> DEFINE h == CHOOSE f : P(f)
<1>5. P(h)
  BY <1>3
<1> HIDE DEF h
<1>6. IsLoop(h, S, n)
  BY <1>5 DEF IsLoop, Step
<1> QED BY <1>4, <1>6 DEF h

LEMMA ListsNothing == Lists(<<>>, {})
<1>1. <<>> \in Seq(Nat) /\ DOMAIN <<>> = {}
  OBVIOUS
<1> QED BY <1>1 DEF Lists

LEMMA ListsNext ==
    ASSUME NEW s, NEW S, Lists(s, S), NEW n \in Nat, \A i \in S : i < n
    PROVE  Lists(Append(s, n), S \cup {n})
<1> DEFINE k == Len(s)
<1> DEFINE t == Append(s, n)
<1>1. s \in Seq(Nat)
  BY DEF Lists
<1>2. /\ k \in Nat /\ DOMAIN s = 1..k /\ t \in Seq(Nat) /\ DOMAIN t = 1..(k + 1)
      /\ \A j \in 1..k : t[j] = s[j] /\ s[j] \in S
      /\ t[k + 1] = n
  BY <1>1, AppendProperties, LenProperties DEF Lists
<1> HIDE DEF k, t
<1>3. {t[j] : j \in DOMAIN t} = S \cup {n}
  <2>1. ASSUME NEW j \in DOMAIN t PROVE t[j] \in S \cup {n}
    BY <1>2
  <2>2. ASSUME NEW i \in S PROVE \E j \in DOMAIN t : t[j] = i
    <3>1. PICK j \in DOMAIN s : s[j] = i
      BY DEF Lists
    <3> QED BY <1>2, <3>1
  <2>3. \E j \in DOMAIN t : t[j] = n
    BY <1>2
  <2> QED BY <2>1, <2>2, <2>3
<1>4. ASSUME NEW i \in DOMAIN t, NEW j \in DOMAIN t, i < j PROVE t[i] < t[j]
  <2>1. i \in 1..k
    BY <1>2, <1>4
  <2>2. CASE j = k + 1
    BY <1>2, <2>1, <2>2
  <2>3. CASE j # k + 1
    <3>1. j \in 1..k
      BY <1>2, <2>3
    <3>2. s[i] < s[j]
      BY <1>2, <1>4, <2>1, <3>1 DEF Lists
    <3> QED BY <1>2, <2>1, <3>1, <3>2
  <2> QED BY <2>2, <2>3
<1> QED BY <1>2, <1>3, <1>4 DEF Lists, t

\* The loop keeps the positions of S below n, and its place if it keeps all.
LEMMA AscendingLists ==
    ASSUME NEW S, NEW n \in Nat
    PROVE  /\ Lists(Ascending(S, n), {i \in 0..(n - 1) : i \in S})
           /\ (\A i \in 0..(n - 1) : i \in S) =>
                /\ Len(Ascending(S, n)) = n
                /\ \A k \in 1..n : Ascending(S, n)[k] = k - 1
<1>1. PICK f : IsLoop(f, S, n) /\ Ascending(S, n) = f[n]
  BY AscendingLoop
<1> DEFINE Below(k) == {i \in 0..(k - 1) : i \in S}
<1> DEFINE Good(k) == /\ Lists(f[k], Below(k))
                      /\ (\A i \in 0..(k - 1) : i \in S) =>
                           /\ Len(f[k]) = k
                           /\ \A j \in 1..k : f[k][j] = j - 1
<1> DEFINE Bad == {k \in 0..n : ~Good(k)}
<1> SUFFICES ASSUME Bad # {} PROVE FALSE
  <2>1. n \in 0..n
    OBVIOUS
  <2> QED BY <1>1, <2>1
<1>2. PICK k \in Bad : \A m \in Bad : k <= m
  <2>1. Bad \in SUBSET Nat
    OBVIOUS
  <2> HIDE DEF Bad
  <2> QED BY <2>1, LeastOf
<1>3. k \in 0..n /\ ~Good(k) /\ f[k] = Step(S, f, k) /\ k \in Nat
  BY <1>1, <1>2 DEF IsLoop
<1>4. CASE k = 0
  <2>1. f[k] = <<>> /\ Below(k) = {} /\ Len(<<>>) = 0 /\ 1..0 = {}
    BY <1>3, <1>4 DEF Step
  <2>2. Good(k)
    BY <1>4, <2>1, ListsNothing
  <2> QED BY <1>3, <2>2
<1>5. CASE k # 0
  <2> DEFINE m == k - 1
  <2>1. m \in Nat /\ m \in 0..n /\ m \notin Bad /\ k = m + 1
    <3>1. m \in Nat /\ m \in 0..n /\ k = m + 1 /\ ~(k <= m)
      BY <1>3, <1>5
    <3> HIDE DEF Bad, m
    <3>2. m \notin Bad
      BY <1>2, <3>1
    <3> QED BY <3>1, <3>2
  <2>2. Good(m)
    BY <2>1
  <2>3. f[k] = IF m \in S THEN Append(f[m], m) ELSE f[m]
    BY <1>3, <1>5 DEF Step
  <2> HIDE DEF m
  <2>4. Lists(f[m], Below(m)) /\ f[m] \in Seq(Nat)
    BY <2>2 DEF Lists
  <2>5. \A i \in Below(m) : i < m
    BY <2>1
  <2>6. Lists(f[k], Below(k))
    <3>1. CASE m \in S
      <4>1. Below(k) = Below(m) \cup {m}
        BY <2>1, <3>1
      <4>2. Lists(Append(f[m], m), Below(m) \cup {m})
        BY <2>1, <2>4, <2>5, ListsNext
      <4> QED BY <2>3, <3>1, <4>1, <4>2
    <3>2. CASE m \notin S
      <4>1. Below(k) = Below(m)
        BY <2>1, <3>2
      <4> QED BY <2>3, <2>4, <3>2, <4>1
    <3> QED BY <3>1, <3>2
  <2>7. ASSUME \A i \in 0..(k - 1) : i \in S
        PROVE  Len(f[k]) = k /\ \A j \in 1..k : f[k][j] = j - 1
    <3>1. m \in S /\ \A i \in 0..(m - 1) : i \in S
      BY <2>1, <2>7
    <3>2. Len(f[m]) = m /\ \A j \in 1..m : f[m][j] = j - 1
      BY <2>2, <3>1
    <3>3. f[k] = Append(f[m], m)
      BY <2>3, <3>1
    <3>4. /\ Len(Append(f[m], m)) = m + 1 /\ Append(f[m], m)[m + 1] = m
          /\ \A j \in 1..m : Append(f[m], m)[j] = f[m][j]
      BY <2>1, <2>4, <3>2, AppendProperties
    <3> QED BY <2>1, <3>2, <3>3, <3>4
  <2> QED BY <1>3, <2>6, <2>7
<1> QED BY <1>4, <1>5

\* The index moves down with the ring.
LEMMA ShiftedLists ==
    ASSUME NEW s, NEW S, Lists(s, S)
    PROVE  /\ Lists(ShiftedIndex(s), {i \in Nat : i + 1 \in S})
           /\ 0 \notin S => /\ Len(ShiftedIndex(s)) = Len(s)
                            /\ \A k \in 1..Len(s) : ShiftedIndex(s)[k] = s[k] - 1
<1> DEFINE K == {i \in 0..(Len(s) - 1) : s[i + 1] # 0}
<1> DEFINE kept == Ascending(K, Len(s))
<1> DEFINE t == [i \in 1..Len(kept) |-> s[kept[i] + 1] - 1]
<1>1. t = ShiftedIndex(s)
  BY DEF ShiftedIndex
<1>2. /\ s \in Seq(Nat) /\ Len(s) \in Nat /\ DOMAIN s = 1..Len(s)
      /\ \A k \in 1..Len(s) : s[k] \in Nat
  BY LenProperties, ElementOfSeq DEF Lists
<1>3. /\ Lists(kept, {i \in 0..(Len(s) - 1) : i \in K})
      /\ (\A i \in 0..(Len(s) - 1) : i \in K) =>
           /\ Len(kept) = Len(s)
           /\ \A k \in 1..Len(s) : kept[k] = k - 1
  BY <1>2, AscendingLists
<1>4. {i \in 0..(Len(s) - 1) : i \in K} = K
  OBVIOUS
<1>5. Lists(kept, K)
  BY <1>3, <1>4
<1> HIDE DEF kept
<1>6. /\ Len(kept) \in Nat /\ DOMAIN kept = 1..Len(kept)
      /\ \A k \in 1..Len(kept) : kept[k] \in K
      /\ \A i \in K : \E k \in 1..Len(kept) : kept[k] = i
      /\ \A k, l \in 1..Len(kept) : k < l => kept[k] < kept[l]
  BY <1>5, LenProperties DEF Lists
<1>7. \A k \in 1..Len(kept) :
        /\ kept[k] + 1 \in 1..Len(s) /\ s[kept[k] + 1] # 0 /\ s[kept[k] + 1] \in Nat
        /\ kept[k] \in Nat
  BY <1>2, <1>6
<1>8. t \in [1..Len(kept) -> Nat]
  BY <1>7
<1>9. t \in Seq(Nat) /\ Len(t) = Len(kept) /\ DOMAIN t = 1..Len(kept)
  <2>1. t \in Seq(Nat)
    BY <1>6, <1>8, SeqDef
  <2> QED BY <1>6, <1>8, <2>1, LenProperties
<1>10. {t[k] : k \in DOMAIN t} = {i \in Nat : i + 1 \in S}
  <2>1. ASSUME NEW k \in 1..Len(kept) PROVE t[k] \in Nat /\ t[k] + 1 \in S
    <3>1. t[k] + 1 = s[kept[k] + 1] /\ t[k] \in Nat
      BY <1>7
    <3> QED BY <1>2, <1>7, <3>1 DEF Lists
  <2>2. ASSUME NEW i \in Nat, i + 1 \in S PROVE \E k \in 1..Len(kept) : t[k] = i
    <3>1. PICK j \in 1..Len(s) : s[j] = i + 1
      BY <1>2, <2>2 DEF Lists
    <3>2. j - 1 \in K
      BY <1>2, <3>1
    <3>3. PICK k \in 1..Len(kept) : kept[k] = j - 1
      BY <1>6, <3>2
    <3>4. kept[k] + 1 = j
      BY <3>1, <3>3
    <3> QED BY <3>1, <3>4
  <2> QED BY <1>9, <2>1, <2>2
<1>11. \A k, l \in DOMAIN t : k < l => t[k] < t[l]
  <2> SUFFICES ASSUME NEW k \in 1..Len(kept), NEW l \in 1..Len(kept), k < l
               PROVE  t[k] < t[l]
    BY <1>9
  <2>1. kept[k] < kept[l]
    BY <1>6
  <2>2. s[kept[k] + 1] < s[kept[l] + 1]
    <3>1. kept[k] + 1 < kept[l] + 1
      BY <1>7, <2>1
    <3> QED BY <1>2, <1>7, <3>1 DEF Lists
  <2> QED BY <1>7, <2>2
<1>12. ASSUME 0 \notin S
       PROVE  Len(t) = Len(s) /\ \A k \in 1..Len(s) : t[k] = s[k] - 1
  <2>1. \A i \in 0..(Len(s) - 1) : i \in K
    <3> TAKE i \in 0..(Len(s) - 1)
    <3>1. i + 1 \in 1..Len(s)
      BY <1>2
    <3>2. s[i + 1] \in S
      BY <1>2, <3>1 DEF Lists
    <3> QED BY <1>12, <3>2
  <2>2. Len(kept) = Len(s) /\ \A k \in 1..Len(s) : kept[k] = k - 1
    BY <1>3, <2>1
  <2>3. \A k \in 1..Len(s) : t[k] = s[k - 1 + 1] - 1 /\ k - 1 + 1 = k
    BY <1>2, <2>2
  <2> QED BY <1>9, <2>2, <2>3
<1> HIDE DEF t
<1>13. Lists(t, {i \in Nat : i + 1 \in S})
  BY <1>9, <1>10, <1>11 DEF Lists
<1> QED BY <1>1, <1>12, <1>13

-----------------------------------------------------------------------------
(***************************************************************************)
(* The inductive invariant: at every point of a frame the index lists the  *)
(* positions that pass, and the packet chosen in BROWSE mode is selected;  *)
(* when a frame is drawn the selection is in the list, and at its end in   *)
(* LIVE mode.                                                              *)
(***************************************************************************)
ListInv ==
    /\ indices = <<>> <=> active = "none" /\ dirFilter = "none"
    /\ indices # <<>> => Lists(indices[1], Passed)

SelInv ==
    /\ SelectedInList
    /\ pc = "draw" /\ follow /\ ~paused /\ Count > 0 => selected = Count - 1
    /\ ~follow /\ chosen # 0 /\ ~shifted => NumAt(selected) = chosen

ChannelInv == \A n \in DOMAIN rx : rx[n].num = received + n

Inv == ViewTypeOK /\ shifted \in BOOLEAN /\ ChannelInv /\ RingExact /\ ListInv /\ SelInv

LEMMA VisibleLists ==
    ASSUME ViewTypeOK, ListInv
    PROVE  /\ Lists(Visible, Passed)
           /\ Visible \in Seq(Nat) /\ Count \in Nat /\ DOMAIN Visible = 1..Count
           /\ \A k \in 1..Count : Visible[k] + 1 \in 1..Len(ring)
<1>1. ring \in Seq(Packet) /\ Len(ring) \in Nat /\ DOMAIN ring = 1..Len(ring)
  BY LenProperties DEF ViewTypeOK
<1>2. Lists(Visible, Passed)
  <2>1. CASE indices # <<>>
    BY <2>1 DEF Visible, ListInv
  <2>2. CASE indices = <<>>
    <3> DEFINE s == [i \in 1..Len(ring) |-> i - 1]
    <3>1. Visible = s
      BY <2>2 DEF Visible
    <3>2. active = "none" /\ dirFilter = "none"
      BY <2>2 DEF ListInv
    <3>3. s \in [1..Len(ring) -> Nat]
      BY <1>1
    <3>4. s \in Seq(Nat) /\ DOMAIN s = 1..Len(ring)
      BY <1>1, <3>3, SeqDef
    <3>5. Passed = 0..(Len(ring) - 1)
      BY <3>2 DEF Passed, Passes
    <3>6. {s[k] : k \in 1..Len(ring)} = 0..(Len(ring) - 1)
      <4>1. ASSUME NEW k \in 1..Len(ring) PROVE s[k] \in 0..(Len(ring) - 1)
        BY <1>1
      <4>2. ASSUME NEW i \in 0..(Len(ring) - 1) PROVE \E k \in 1..Len(ring) : s[k] = i
        <5>1. i + 1 \in 1..Len(ring)
          BY <1>1
        <5>2. s[i + 1] = i
          BY <1>1, <5>1
        <5> QED BY <5>1, <5>2
      <4> QED BY <4>1, <4>2
    <3>7. \A k, l \in 1..Len(ring) : k < l => s[k] < s[l]
      BY <1>1
    <3> HIDE DEF s
    <3> QED BY <3>1, <3>4, <3>5, <3>6, <3>7 DEF Lists
  <2> QED BY <2>1, <2>2
<1>3. Visible \in Seq(Nat) /\ Count \in Nat /\ DOMAIN Visible = 1..Count
  BY <1>2, LenProperties DEF Lists, Count
<1>4. \A k \in 1..Count : Visible[k] \in Passed
  BY <1>2, <1>3 DEF Lists
<1>5. \A k \in 1..Count : Visible[k] + 1 \in 1..Len(ring)
  BY <1>1, <1>4 DEF Passed
<1> QED BY <1>2, <1>3, <1>5

LEMMA ViewInit == ListInit => Inv
<1> SUFFICES ASSUME ListInit PROVE Inv
  OBVIOUS
<1>1. ViewTypeOK
  <2>1. <<>> \in Seq(Packet) /\ Len(<<>>) = 0 /\ Capacity \in Nat /\ MaxPackets \in Nat
    BY ViewAssumption
  <2>2. /\ rx \in Seq(Packet) /\ ring \in Seq(Packet) /\ Len(ring) <= Capacity
        /\ received \in 0..MaxPackets /\ received + Len(rx) <= MaxPackets
    BY <2>1 DEF ListInit
  <2> QED BY <2>2 DEF ListInit, ViewTypeOK
<1>2. ChannelInv /\ RingExact /\ ListInv
  BY ViewAssumption DEF ListInit, ChannelInv, RingExact, ListInv, AtMost
<1>3. Count = 0
  BY DEF ListInit, Count, Visible
<1>4. SelInv
  BY <1>3 DEF ListInit, SelInv, SelectedInList
<1> QED BY <1>1, <1>2, <1>4 DEF ListInit, Inv

\* A key or a click moves nothing but the selection.
LEMMA ListKept ==
    ASSUME Inv, UNCHANGED <<feedVars, filterVars>>,
           pc' = "quit" \/ (pc = "draw" /\ (pc' = IF paused' THEN "draw" ELSE "drain")),
           mode' \in {"normal", "filter", "search"}, paused' \in BOOLEAN,
           overlay' \in BOOLEAN, dragging' \in BOOLEAN,
           search' \in Texts \cup {"none", "any"},
           selected' \in Nat, follow' \in BOOLEAN, shifted' \in BOOLEAN,
           pc = "draw" /\ Count > 0 => selected' < Count,
           chosen' = NumAt(selected') \/ UNCHANGED <<selected, follow, chosen, shifted>>
    PROVE  Inv'
<1>1. UNCHANGED <<rx, ring, received, active, dirFilter, indices>>
  BY DEF feedVars, filterVars
<1>2. ViewTypeOK'
  BY <1>1 DEF Inv, ViewTypeOK
<1>3. ChannelInv' /\ RingExact'
  BY <1>1 DEF Inv, ChannelInv, RingExact
<1>4. ListInv'
  BY <1>1 DEF Inv, ListInv, Passed, Passes
<1>5. Visible' = Visible /\ Count' = Count
  BY <1>1 DEF Visible, Count
<1>6. NumAt(selected)' = NumAt(selected')
  BY <1>1, <1>5 DEF NumAt, PacketAt
<1>7. SelInv'
  <2>1. SelectedInList'
    BY <1>5 DEF SelectedInList
  <2>2. ~(pc' = "draw" /\ ~paused')
    OBVIOUS
  <2>3. ~follow' /\ chosen' # 0 /\ ~shifted' => NumAt(selected)' = chosen'
    BY <1>6 DEF Inv, SelInv
  <2> QED BY <2>1, <2>2, <2>3 DEF SelInv
<1> QED BY <1>2, <1>3, <1>4, <1>7 DEF Inv

\* The selection goes somewhere in the list, or stays.
Moved ==
    /\ selected' \in Nat /\ follow' \in BOOLEAN /\ shifted' \in BOOLEAN
    /\ Count > 0 => selected' < Count
    /\ chosen' = NumAt(selected')

LEMMA MovesKeep ==
    ASSUME Inv, Moved \/ Stay, Handled, UNCHANGED <<feedVars, filterVars>>,
           mode' \in {"normal", "filter", "search"}, paused' \in BOOLEAN,
           overlay' \in BOOLEAN, dragging' \in BOOLEAN,
           search' \in Texts \cup {"none", "any"}
    PROVE  Inv'
<1>1. CASE Moved
  BY <1>1, ListKept DEF Moved, Handled
<1>2. CASE Stay
  <2>1. UNCHANGED <<selected, follow, chosen, shifted>>
    BY <1>2 DEF Stay, selVars
  <2>2. pc = "draw" /\ (Count > 0 => selected < Count)
    BY DEF Inv, SelInv, SelectedInList, Handled
  <2>3. selected' \in Nat /\ follow' \in BOOLEAN /\ shifted' \in BOOLEAN
    BY <2>1 DEF Inv, ViewTypeOK
  <2> QED BY <2>1, <2>2, <2>3, ListKept DEF Handled
<1> QED BY <1>1, <1>2

LEMMA KeysMove ==
    ASSUME Inv, KeyDown \/ KeyUp \/ KeyEnd \/ KeyHome \/ KeyPageDown \/ KeyPageUp
    PROVE  Inv'
<1>1. /\ selected \in Nat /\ follow \in BOOLEAN /\ Count \in Nat /\ Page \in Nat
      /\ mode \in {"normal", "filter", "search"} /\ paused \in BOOLEAN
      /\ overlay \in BOOLEAN /\ dragging \in BOOLEAN /\ search \in Texts \cup {"none", "any"}
  BY VisibleLists, ViewAssumption DEF Inv, ViewTypeOK
<1>2. Handled /\ UNCHANGED <<feedVars, filterVars, paused, mode, search, overlay, dragging>>
  BY DEF KeyDown, KeyUp, KeyEnd, KeyHome, KeyPageDown, KeyPageUp, InList, Normal
<1>3. Count > 0 => selected < Count
  BY <1>2 DEF Inv, SelInv, SelectedInList, Handled
<1>4. ASSUME NEW to \in Nat, NEW live \in BOOLEAN, Count > 0 => to < Count, Select(to, live)
      PROVE  Moved
  BY <1>4 DEF Select, Moved
<1>5. CASE KeyDown
  <2>1. Stay \/ (Select(selected + 1, follow \/ selected + 2 >= Count) /\ selected + 1 < Count)
    BY <1>1, <1>5 DEF KeyDown
  <2>2. (follow \/ selected + 2 >= Count) \in BOOLEAN /\ selected + 1 \in Nat
    BY <1>1
  <2> QED BY <1>1, <1>2, <1>4, <2>1, <2>2, MovesKeep
<1>6. CASE KeyUp
  <2>1. Stay \/ (Select(selected - 1, FALSE) /\ selected > 0)
    BY <1>6 DEF KeyUp
  <2>2. selected > 0 => selected - 1 \in Nat /\ (Count > 0 => selected - 1 < Count)
    BY <1>1, <1>3
  <2> QED BY <1>1, <1>2, <1>4, <2>1, <2>2, MovesKeep
<1>7. CASE KeyEnd
  <2>1. Stay \/ (Select(Count - 1, TRUE) /\ Count > 0)
    BY <1>7 DEF KeyEnd
  <2>2. Count > 0 => Count - 1 \in Nat /\ Count - 1 < Count
    BY <1>1
  <2> QED BY <1>1, <1>2, <1>4, <2>1, <2>2, MovesKeep
<1>8. CASE KeyHome
  <2>1. Select(0, FALSE)
    BY <1>8 DEF KeyHome
  <2> QED BY <1>1, <1>2, <1>4, <2>1, MovesKeep
<1>9. CASE KeyPageDown
  <2> DEFINE to == AtMost(selected + Page, LastPos)
  <2>1. Select(to, follow \/ to + 1 >= Count)
    BY <1>9 DEF KeyPageDown
  <2>2. to \in Nat /\ (Count > 0 => to < Count)
    BY <1>1 DEF AtMost, LastPos, AtLeast0
  <2> HIDE DEF to
  <2>3. (follow \/ to + 1 >= Count) \in BOOLEAN
    BY <1>1
  <2> QED BY <1>1, <1>2, <1>4, <2>1, <2>2, <2>3, MovesKeep
<1>10. CASE KeyPageUp
  <2> DEFINE to == AtLeast0(selected - Page)
  <2>1. Select(to, FALSE)
    BY <1>10 DEF KeyPageUp
  <2>2. to \in Nat /\ (Count > 0 => to < Count)
    BY <1>1, <1>3 DEF AtLeast0
  <2> HIDE DEF to
  <2> QED BY <1>1, <1>2, <1>4, <2>1, <2>2, MovesKeep
<1> QED BY <1>5, <1>6, <1>7, <1>8, <1>9, <1>10

\* A row of the scrollbar is a place in the list.
LEMMA TrackInList ==
    ASSUME NEW r \in Nat, Count \in Nat, Count > 0
    PROVE  TrackPos(r) \in Nat /\ TrackPos(r) < Count
<1> DEFINE a == r * (Count - 1)
<1> DEFINE d == a \div Height
<1>1. a \in Nat /\ Height \in Nat \ {0}
  BY ViewAssumption
<1> HIDE DEF a
<1>2. d \in Nat
  BY <1>1
<1>3. TrackPos(r) = AtMost(d, Count - 1)
  BY DEF TrackPos, a
<1> HIDE DEF d
<1> QED BY <1>2, <1>3 DEF AtMost

LEMMA MouseMoves ==
    ASSUME Inv, WheelDown \/ WheelUp \/ Release \/ (\E r \in 0..Height : ClickRow(r) \/ ScrollTo(r))
    PROVE  Inv'
<1>1. /\ selected \in Nat /\ follow \in BOOLEAN /\ Count \in Nat /\ Height \in Nat \ {0}
      /\ mode \in {"normal", "filter", "search"} /\ paused \in BOOLEAN
      /\ overlay \in BOOLEAN /\ dragging \in BOOLEAN /\ search \in Texts \cup {"none", "any"}
  BY VisibleLists, ViewAssumption DEF Inv, ViewTypeOK
<1>2. /\ Handled /\ UNCHANGED <<feedVars, filterVars, paused, mode, search, overlay>>
      /\ dragging' \in BOOLEAN
  BY <1>1 DEF WheelDown, WheelUp, Release, ClickRow, ScrollTo, Mouse
<1>3. Count > 0 => selected < Count
  BY <1>2 DEF Inv, SelInv, SelectedInList, Handled
<1>4. ASSUME NEW to \in Nat, NEW live \in BOOLEAN, Count > 0 => to < Count, Select(to, live)
      PROVE  Moved
  BY <1>4 DEF Select, Moved
<1>5. CASE WheelDown
  <2> DEFINE to == AtMost(selected + 3, Count - 1)
  <2>1. Stay \/ (Select(to, follow \/ to + 1 >= Count) /\ Count > 0)
    BY <1>5 DEF WheelDown
  <2>2. Count > 0 => to \in Nat /\ to < Count
    BY <1>1 DEF AtMost
  <2> HIDE DEF to
  <2>3. (follow \/ to + 1 >= Count) \in BOOLEAN
    BY <1>1
  <2> QED BY <1>1, <1>2, <1>4, <2>1, <2>2, <2>3, MovesKeep
<1>6. CASE WheelUp
  <2> DEFINE to == AtLeast0(selected - 3)
  <2>1. Select(to, FALSE)
    BY <1>6 DEF WheelUp
  <2>2. to \in Nat /\ (Count > 0 => to < Count)
    BY <1>1, <1>3 DEF AtLeast0
  <2> HIDE DEF to
  <2> QED BY <1>1, <1>2, <1>4, <2>1, <2>2, MovesKeep
<1>7. CASE Release
  BY <1>1, <1>2, <1>7, MovesKeep DEF Release
<1>8. ASSUME NEW r \in 0..Height, ClickRow(r) \/ ScrollTo(r)
      PROVE  Inv'
  <2>1. Offset \in Nat
    BY <1>1 DEF Offset
  <2>2. CASE ClickRow(r)
    <3>1. Stay \/ (Select(Offset + r, FALSE) /\ Offset + r < Count)
      BY <2>2 DEF ClickRow
    <3>2. Offset + r \in Nat
      BY <1>1, <2>1
    <3> QED BY <1>1, <1>2, <1>4, <3>1, <3>2, MovesKeep
  <2>3. CASE ScrollTo(r)
    <3>1. Stay \/ (Select(TrackPos(r), FALSE) /\ Count > 0)
      BY <2>3 DEF ScrollTo
    <3>2. Count > 0 => TrackPos(r) \in Nat /\ TrackPos(r) < Count
      BY <1>1, TrackInList
    <3> QED BY <1>1, <1>2, <1>4, <3>1, <3>2, MovesKeep
  <2> QED BY <1>8, <2>2, <2>3
<1> QED BY <1>5, <1>6, <1>7, <1>8

\* The next match is in the list.
LEMMA JumpMoves ==
    ASSUME Inv, NEW t, Jump(t)
    PROVE  Moved \/ Stay
<1>1. selected \in Nat /\ follow \in BOOLEAN /\ Count \in Nat
  BY VisibleLists DEF Inv, ViewTypeOK
<1>2. CASE t = "none" \/ Matches(t) = {}
  BY <1>2 DEF Jump, Stay
<1>3. CASE ~(t = "none" \/ Matches(t) = {})
  <2> DEFINE off == CHOOSE o \in Matches(t) : \A n \in Matches(t) : o <= n
  <2> DEFINE to == (selected + off) % Count
  <2>1. selected' = to /\ chosen' = NumAt(to) /\ shifted' = FALSE /\ follow' = follow
    BY <1>3 DEF Jump
  <2>2. Matches(t) \in SUBSET Nat /\ Matches(t) # {} /\ Matches(t) \subseteq 1..Count
    BY <1>1, <1>3 DEF Matches
  <2>3. off \in Matches(t)
    BY <2>2, LeastOf
  <2> HIDE DEF off
  <2>4. off \in 1..Count
    BY <2>2, <2>3
  <2>5. to \in Nat /\ to < Count
    BY <1>1, <2>4
  <2> HIDE DEF to
  <2> QED BY <1>1, <2>1, <2>5 DEF Moved
<1> QED BY <1>2, <1>3

LEMMA OtherKeysKeep ==
    ASSUME Inv,
           \/ NoEvent \/ KeySlash \/ LeaveFilter \/ KeyNext \/ KeySearch
           \/ (\E t \in Texts \cup {"any"} : EnterSearch(t))
           \/ (\E old \in BOOLEAN : LeaveSearch(old))
           \/ (\E o \in BOOLEAN : SetOverlay(o))
           \/ KeyPause \/ Quit
    PROVE  Inv'
<1>1. /\ selected \in Nat /\ follow \in BOOLEAN /\ shifted \in BOOLEAN
      /\ mode \in {"normal", "filter", "search"} /\ paused \in BOOLEAN
      /\ overlay \in BOOLEAN /\ dragging \in BOOLEAN /\ search \in Texts \cup {"none", "any"}
  BY DEF Inv, ViewTypeOK
<1>2. CASE Quit
  <2>1. /\ pc = "draw" /\ pc' = "quit"
        /\ UNCHANGED <<feedVars, filterVars, paused, mode, overlay, search, dragging>>
        /\ UNCHANGED <<selected, follow, chosen, shifted>>
    BY <1>2 DEF Quit, uiVars, selVars
  <2>2. Count > 0 => selected < Count
    BY <2>1 DEF Inv, SelInv, SelectedInList
  <2> QED BY <1>1, <2>1, <2>2, ListKept
<1>3. CASE NoEvent
  BY <1>1, <1>3, MovesKeep DEF NoEvent, uiVars, Stay
<1>4. CASE KeySlash \/ LeaveFilter \/ KeySearch \/ KeyPause
  <2>1. /\ Stay /\ Handled /\ UNCHANGED <<feedVars, filterVars, overlay, search, dragging>>
        /\ mode' \in {"normal", "filter", "search"} /\ paused' \in BOOLEAN
    BY <1>1, <1>4 DEF KeySlash, LeaveFilter, KeySearch, KeyPause
  <2> QED BY <1>1, <2>1, MovesKeep
<1>5. CASE KeyNext
  <2>1. /\ Jump(search) /\ Handled
        /\ UNCHANGED <<feedVars, filterVars, paused, mode, overlay, search, dragging>>
    BY <1>5 DEF KeyNext, Normal
  <2> QED BY <1>1, <2>1, JumpMoves, MovesKeep
<1>6. ASSUME NEW t \in Texts \cup {"any"}, EnterSearch(t) PROVE Inv'
  <2>1. /\ Jump(t) /\ Handled /\ mode' = "normal" /\ search' = t
        /\ UNCHANGED <<feedVars, filterVars, paused, overlay, dragging>>
    BY <1>6 DEF EnterSearch
  <2>2. Moved \/ Stay
    BY <2>1, JumpMoves
  <2> QED BY <1>1, <2>1, <2>2, MovesKeep
<1>7. ASSUME NEW old \in BOOLEAN, LeaveSearch(old) PROVE Inv'
  <2>1. /\ Stay /\ Handled /\ mode' = "normal" /\ search' \in {search, "none"}
        /\ UNCHANGED <<feedVars, filterVars, paused, overlay, dragging>>
    BY <1>7 DEF LeaveSearch
  <2> QED BY <1>1, <2>1, MovesKeep
<1>8. ASSUME NEW o \in BOOLEAN, SetOverlay(o) PROVE Inv'
  <2>1. /\ Stay /\ Handled /\ overlay' = o
        /\ UNCHANGED <<feedVars, filterVars, paused, mode, search, dragging>>
    BY <1>8 DEF SetOverlay, Normal
  <2> QED BY <1>1, <2>1, MovesKeep
<1> QED BY <1>2, <1>3, <1>4, <1>5, <1>6, <1>7, <1>8

-----------------------------------------------------------------------------
(***************************************************************************)
(* A filter key: the index is rebuilt, the selection goes to the top.      *)
(***************************************************************************)
LEMMA RebuiltLists ==
    ASSUME ring' \in Seq(Packet), UNCHANGED ring, indices' = Rebuilt(active', dirFilter')
    PROVE  /\ ListInv'
           /\ indices' = <<>> \/ (Len(indices') = 1 /\ indices'[1] \in Seq(Nat))
<1> DEFINE n == Len(ring)
<1> DEFINE S == {i \in 0..(n - 1) : /\ active' \in {"none", ring[i + 1].text}
                                    /\ dirFilter' \in {"none", ring[i + 1].dir}}
<1>1. n \in Nat
  BY LenProperties
<1>2. Passed' = S
  BY DEF Passed, Passes
<1>3. {i \in 0..(n - 1) : i \in S} = S
  OBVIOUS
<1>4. indices' = IF active' = "none" /\ dirFilter' = "none" THEN <<>> ELSE <<Ascending(S, n)>>
  BY DEF Rebuilt
<1> HIDE DEF n, S
<1>5. Lists(Ascending(S, n), S)
  BY <1>1, <1>3, AscendingLists
<1>6. Ascending(S, n) \in Seq(Nat)
  BY <1>5 DEF Lists
<1> DEFINE s == Ascending(S, n)
<1>7. <<s>> # <<>> /\ Len(<<s>>) = 1 /\ <<s>>[1] = s
  OBVIOUS
<1> HIDE DEF s
<1>8. ListInv'
  BY <1>2, <1>4, <1>5, <1>7 DEF ListInv, s
<1>9. indices' = <<>> \/ (Len(indices') = 1 /\ indices'[1] \in Seq(Nat))
  BY <1>4, <1>6, <1>7 DEF s
<1> QED BY <1>8, <1>9

LEMMA FiltersKeep ==
    ASSUME Inv,
           \/ \E d \in {"in", "out"} : KeyDirection(d)
           \/ \E f \in Texts \cup {"none"} : EnterFilter(f)
    PROVE  Inv'
<1>1. /\ UNCHANGED <<rx, ring, received, paused, overlay, search, dragging>>
      /\ mode' \in {"normal", "filter", "search"}
      /\ active' \in Texts \cup {"none"} /\ dirFilter' \in {"in", "out", "none"}
      /\ ToTop /\ Handled
  <2>1. ASSUME NEW d \in {"in", "out"}, KeyDirection(d) PROVE <1>1!:
    BY <2>1 DEF Inv, ViewTypeOK, KeyDirection, Normal, feedVars
  <2>2. ASSUME NEW f \in Texts \cup {"none"}, EnterFilter(f) PROVE <1>1!:
    BY <2>2 DEF Inv, ViewTypeOK, EnterFilter
  <2> QED BY <2>1, <2>2
<1>2. /\ indices' = Rebuilt(active', dirFilter') /\ selected' = 0 /\ chosen' = NumAt(0)'
      /\ shifted' = FALSE /\ follow' = follow
  BY <1>1 DEF ToTop
<1>3. ring \in Seq(Packet) /\ ring' \in Seq(Packet)
  BY <1>1 DEF Inv, ViewTypeOK
<1>4. ListInv' /\ (indices' = <<>> \/ (Len(indices') = 1 /\ indices'[1] \in Seq(Nat)))
  BY <1>1, <1>2, <1>3, RebuiltLists
<1>5. pc = "draw" /\ pc' = (IF paused' THEN "draw" ELSE "drain")
  BY <1>1 DEF Handled
<1>6. ViewTypeOK'
  BY <1>1, <1>2, <1>4, <1>5 DEF Inv, ViewTypeOK
<1>7. ChannelInv' /\ RingExact'
  BY <1>1 DEF Inv, ChannelInv, RingExact
<1>8. SelInv'
  <2>1. SelectedInList'
    BY <1>2 DEF SelectedInList
  <2>2. ~(pc' = "draw" /\ ~paused')
    BY <1>5
  <2>3. NumAt(selected)' = chosen'
    BY <1>2 DEF NumAt, PacketAt
  <2> QED BY <2>1, <2>2, <2>3 DEF SelInv
<1> QED BY <1>2, <1>4, <1>6, <1>7, <1>8 DEF Inv

-----------------------------------------------------------------------------
(***************************************************************************)
(* Packets arrive and are drained.                                         *)
(***************************************************************************)
LEMMA ArriveKeeps ==
    ASSUME Inv, NEW k \in Kinds, PacketArrives(k)
    PROVE  Inv'
<1> DEFINE p == [num |-> received + Len(rx) + 1, text |-> k.text, dir |-> k.dir]
<1>1. /\ received + Len(rx) < MaxPackets /\ rx' = Append(rx, p)
      /\ UNCHANGED <<ring, received, active, dirFilter, indices, selected, follow, chosen, shifted>>
      /\ UNCHANGED <<paused, mode, overlay, search, dragging, pc>>
  BY DEF PacketArrives, filterVars, selVars, uiVars
<1>2. rx \in Seq(Packet) /\ received \in Nat /\ Len(rx) \in Nat /\ DOMAIN rx = 1..Len(rx)
  BY LenProperties, ViewAssumption DEF Inv, ViewTypeOK
<1>3. p \in Packet /\ p.num = received + Len(rx) + 1
  <2>1. k.text \in Texts /\ k.dir \in Directions
    BY ViewAssumption
  <2> QED BY <1>2, <2>1 DEF Packet
<1> HIDE DEF p
<1>4. /\ rx' \in Seq(Packet) /\ Len(rx') = Len(rx) + 1 /\ DOMAIN rx' = 1..(Len(rx) + 1)
      /\ rx'[Len(rx) + 1] = p /\ \A n \in 1..Len(rx) : rx'[n] = rx[n]
  BY <1>1, <1>2, <1>3, AppendProperties, LenProperties
<1>5. ViewTypeOK'
  <2>1. received + Len(rx') <= MaxPackets
    BY <1>1, <1>2, <1>4, ViewAssumption
  <2> QED BY <1>1, <1>4, <2>1 DEF Inv, ViewTypeOK
<1>6. ChannelInv'
  <2>1. \A n \in 1..(Len(rx) + 1) : rx'[n].num = received + n
    <3> TAKE n \in 1..(Len(rx) + 1)
    <3>1. CASE n = Len(rx) + 1
      <4>1. rx'[n].num = received + Len(rx) + 1
        BY <1>3, <1>4, <3>1
      <4> QED BY <1>2, <3>1, <4>1
    <3>2. CASE n # Len(rx) + 1
      <4>1. n \in 1..Len(rx)
        BY <1>2, <3>2
      <4> QED BY <1>2, <1>4, <4>1 DEF Inv, ChannelInv
    <3> QED BY <3>1, <3>2
  <2> QED BY <1>1, <1>4, <2>1 DEF ChannelInv
<1>7. RingExact' /\ ListInv'
  BY <1>1 DEF Inv, RingExact, ListInv, Passed, Passes
<1>8. SelInv'
  BY <1>1 DEF Inv, SelInv, SelectedInList, NumAt, PacketAt, Count, Visible
<1> QED BY <1>1, <1>5, <1>6, <1>7, <1>8 DEF Inv

LEMMA SettleKeeps ==
    ASSUME Inv, Settle
    PROVE  Inv'
<1>1. /\ pc = "drain" /\ pc' = "draw"
      /\ selected' = IF follow THEN (IF Count > 0 THEN Count - 1 ELSE selected)
                     ELSE AtMost(selected, LastPos)
      /\ UNCHANGED <<rx, ring, received, active, dirFilter, indices, follow, chosen, shifted>>
      /\ UNCHANGED <<paused, mode, overlay, search, dragging>>
  BY DEF Settle, feedVars, filterVars, uiVars
<1>2. selected \in Nat /\ Count \in Nat /\ follow \in BOOLEAN
  BY VisibleLists DEF Inv, ViewTypeOK
<1>3. /\ selected' \in Nat /\ (Count > 0 => selected' < Count)
      /\ follow /\ Count > 0 => selected' = Count - 1
      /\ ~follow /\ selected < Count => selected' = selected
  BY <1>1, <1>2 DEF AtMost, LastPos, AtLeast0
<1>4. ViewTypeOK'
  BY <1>1, <1>3 DEF Inv, ViewTypeOK
<1>5. ChannelInv' /\ RingExact' /\ ListInv'
  BY <1>1 DEF Inv, ChannelInv, RingExact, ListInv, Passed, Passes
<1>6. Visible' = Visible /\ Count' = Count
  BY <1>1 DEF Visible, Count
<1>7. SelInv'
  <2>1. ~follow /\ chosen # 0 /\ ~shifted => selected' = selected
    BY <1>2, <1>3 DEF Inv, SelInv, NumAt
  <2>2. selected' = selected => NumAt(selected)' = NumAt(selected)
    BY <1>1, <1>6 DEF NumAt, PacketAt
  <2>3. ~follow' /\ chosen' # 0 /\ ~shifted' => NumAt(selected)' = chosen'
    BY <1>1, <2>1, <2>2 DEF Inv, SelInv
  <2> QED BY <1>1, <1>3, <1>6, <2>3 DEF SelInv, SelectedInList
<1> QED BY <1>1, <1>4, <1>5, <1>7 DEF Inv

\* What the ring keeps when a packet is pushed, and how far it moves.
Kept == IF Full THEN Tail(ring) ELSE ring
Lost == IF Full THEN 1 ELSE 0

LEMMA DrainRing ==
    ASSUME Inv, DrainOne
    PROVE  /\ Len(Kept) \in Nat /\ Len(Kept) = Len(ring) - Lost
           /\ rx # <<>> /\ Head(rx) \in Packet /\ Head(rx).num = received + 1
           /\ ring' \in Seq(Packet) /\ Len(ring') = Len(Kept) + 1
           /\ ring'[Len(Kept) + 1] = Head(rx)
           /\ \A i \in 1..Len(Kept) : ring'[i] = ring[i + Lost] /\ i + Lost \in 1..Len(ring)
           /\ Full => Len(ring) = Capacity /\ Capacity > 0
<1>1. /\ ring \in Seq(Packet) /\ Len(ring) \in Nat /\ Len(ring) <= Capacity
      /\ DOMAIN ring = 1..Len(ring) /\ Capacity \in Nat \ {0}
      /\ rx \in Seq(Packet) /\ received \in Nat
  BY ViewAssumption, LenProperties DEF Inv, ViewTypeOK
<1>2. rx # <<>> /\ ring' = Append(Kept, Head(rx))
  BY DEF DrainOne, Kept
<1>3. Head(rx) \in Packet /\ Head(rx).num = received + 1
  <2>1. Len(rx) \in Nat /\ Len(rx) > 0 /\ DOMAIN rx = 1..Len(rx)
    BY <1>1, <1>2, EmptySeq, LenProperties
  <2>2. 1 \in DOMAIN rx /\ Head(rx) = rx[1]
    BY <1>1, <1>2, <2>1, HeadTailProperties
  <2>3. rx[1] \in Packet /\ rx[1].num = received + 1
    BY <1>1, <2>1, <2>2, ElementOfSeq DEF Inv, ChannelInv
  <2> QED BY <2>2, <2>3
<1>4. Full => Len(ring) = Capacity /\ Capacity > 0
  <2> DEFINE n == Len(ring)
  <2>1. n \in Nat /\ n <= Capacity /\ Capacity \in Nat \ {0} /\ (Full <=> n >= Capacity)
    BY <1>1 DEF Full
  <2> HIDE DEF n
  <2>2. n >= Capacity => n = Capacity /\ Capacity > 0
    BY <2>1
  <2> QED BY <2>1, <2>2 DEF n
<1>5. /\ Kept \in Seq(Packet) /\ Len(Kept) = Len(ring) - Lost /\ Len(Kept) \in Nat
      /\ \A i \in 1..Len(Kept) : Kept[i] = ring[i + Lost] /\ i + Lost \in 1..Len(ring)
  <2>1. CASE Full
    <3>1. ring # <<>>
      BY <1>1, <1>4, <2>1, EmptySeq
    <3>2. /\ Tail(ring) \in Seq(Packet) /\ Len(Tail(ring)) = Len(ring) - 1
          /\ \A i \in 1..Len(Tail(ring)) : Tail(ring)[i] = ring[i + 1]
      BY <1>1, <3>1, HeadTailProperties
    <3>3. Kept = Tail(ring) /\ Lost = 1
      BY <2>1 DEF Kept, Lost
    <3> QED BY <1>1, <1>4, <2>1, <3>2, <3>3
  <2>2. CASE ~Full
    <3>1. Kept = ring /\ Lost = 0
      BY <2>2 DEF Kept, Lost
    <3> QED BY <1>1, <3>1
  <2> QED BY <2>1, <2>2
<1> DEFINE p == Head(rx)
<1> HIDE DEF p
<1>6. p \in Packet /\ ring' = Append(Kept, p)
  BY <1>2, <1>3 DEF p
<1>7. /\ ring' \in Seq(Packet) /\ Len(ring') = Len(Kept) + 1 /\ ring'[Len(Kept) + 1] = p
      /\ \A i \in 1..Len(Kept) : ring'[i] = Kept[i]
  BY <1>5, <1>6, AppendProperties
<1> QED BY <1>2, <1>3, <1>4, <1>5, <1>7 DEF p

\* Where the packets that pass are afterwards.
LEMMA DrainPassed ==
    ASSUME Inv, DrainOne
    PROVE  /\ Passed' = {i \in Nat : i + Lost \in Passed}
                         \cup (IF Passes(Head(rx)) THEN {Len(Kept)} ELSE {})
           /\ \A i \in {j \in Nat : j + Lost \in Passed} : i < Len(Kept)
<1> DEFINE m == Len(Kept)
<1> DEFINE p == Head(rx)
<1> DEFINE Old == {i \in Nat : i + Lost \in Passed}
<1>1. /\ m \in Nat /\ m = Len(ring) - Lost /\ Len(ring') = m + 1 /\ ring'[m + 1] = p
      /\ \A i \in 1..m : ring'[i] = ring[i + Lost] /\ i + Lost \in 1..Len(ring)
  BY DrainRing
<1>2. UNCHANGED <<active, dirFilter>> /\ Lost \in {0, 1} /\ Len(ring) \in Nat
  BY LenProperties DEF DrainOne, Lost, Inv, ViewTypeOK
<1> HIDE DEF m, p
<1>3. \A i \in 0..m : i \in Passed' <=> Passes(ring'[i + 1])
  BY <1>1, <1>2 DEF Passed, Passes
<1>4. \A i \in 0..(m - 1) : i \in Passed' <=> i \in Old
  <2> TAKE i \in 0..(m - 1)
  <2>1. /\ i \in Nat /\ i \in 0..m /\ i + 1 \in 1..m /\ i + 1 + Lost = i + Lost + 1
        /\ i + Lost \in 0..(Len(ring) - 1)
    BY <1>1, <1>2
  <2>2. ring'[i + 1] = ring[i + Lost + 1]
    BY <1>1, <2>1
  <2>3. i + Lost \in Passed <=> Passes(ring[i + Lost + 1])
    BY <2>1 DEF Passed
  <2> QED BY <1>3, <2>1, <2>2, <2>3
<1>5. m \in Passed' <=> Passes(p)
  BY <1>1, <1>3
<1>6. \A i \in Old : i \in 0..(m - 1)
  BY <1>1, <1>2 DEF Passed
<1>7. \A i \in Passed' : i \in 0..m
  BY <1>1 DEF Passed
<1>8. Passed' = Old \cup (IF Passes(p) THEN {m} ELSE {})
  <2>1. \A i \in 0..m : i = m \/ i \in 0..(m - 1)
    BY <1>1
  <2> QED BY <1>1, <1>4, <1>5, <1>6, <1>7, <2>1
<1> QED BY <1>1, <1>6, <1>8 DEF m, p

\* The index after the ring has moved, before the packet is added.
Moving == IF Full THEN ShiftedIndex(indices[1]) ELSE indices[1]

LEMMA DrainList ==
    ASSUME Inv, DrainOne
    PROVE  /\ ListInv'
           /\ indices' = <<>> \/ (Len(indices') = 1 /\ indices'[1] \in Seq(Nat))
           /\ indices # <<>> /\ ~(Full /\ Passes(ring[1])) =>
                /\ Count' >= Count
                /\ \A k \in 1..Count : Visible'[k] = Visible[k] - Lost
<1> DEFINE m == Len(Kept)
<1> DEFINE p == Head(rx)
<1> DEFINE old == Moving
<1> DEFINE Old == {i \in Nat : i + Lost \in Passed}
<1>1. /\ UNCHANGED <<active, dirFilter>>
      /\ indices' = IF indices = <<>> THEN <<>>
                    ELSE IF Passes(p) THEN <<Append(old, m)>> ELSE <<old>>
  BY DEF DrainOne, Moving, Kept
<1>2. /\ m \in Nat /\ Passed' = Old \cup (IF Passes(p) THEN {m} ELSE {})
      /\ \A i \in Old : i < m
  BY DrainRing, DrainPassed
<1>3. CASE indices = <<>>
  BY <1>1, <1>3 DEF Inv, ListInv
<1>4. CASE indices # <<>>
  <2> DEFINE s == indices[1]
  <2>1. Lists(s, Passed)
    BY <1>4 DEF Inv, ListInv
  <2>2. s \in Seq(Nat) /\ Len(s) \in Nat
    BY <2>1, LenProperties DEF Lists
  <2>3. /\ Lists(old, Old)
        /\ ~(Full /\ Passes(ring[1])) =>
             Len(old) = Len(s) /\ \A k \in 1..Len(s) : old[k] = s[k] - Lost
    <3>1. CASE Full
      <4>1. old = ShiftedIndex(s) /\ Lost = 1
        BY <3>1 DEF Moving, Lost
      <4>2. Old = {i \in Nat : i + 1 \in Passed}
        BY <4>1
      <4>3. ~Passes(ring[1]) => 0 \notin Passed
        BY DEF Passed
      <4> HIDE DEF s, old, Old
      <4>4. /\ Lists(ShiftedIndex(s), {i \in Nat : i + 1 \in Passed})
            /\ 0 \notin Passed => /\ Len(ShiftedIndex(s)) = Len(s)
                                  /\ \A k \in 1..Len(s) : ShiftedIndex(s)[k] = s[k] - 1
        BY <2>1, ShiftedLists
      <4> QED BY <3>1, <4>1, <4>2, <4>3, <4>4
    <3>2. CASE ~Full
      <4>1. old = s /\ Lost = 0
        BY <3>2 DEF Moving, Lost
      <4>2. Old = Passed
        BY <4>1 DEF Passed
      <4>3. \A k \in 1..Len(s) : s[k] - 0 = s[k]
        BY <2>2, ElementOfSeq
      <4> HIDE DEF s, old, Old
      <4> QED BY <2>1, <4>1, <4>2, <4>3
    <3> QED BY <3>1, <3>2
  <2> DEFINE t == IF Passes(p) THEN Append(old, m) ELSE old
  <2>4. Lists(t, Passed')
    <3> HIDE DEF old, Old, m, p
    <3>1. CASE Passes(p)
      <4>1. Lists(Append(old, m), Old \cup {m})
        BY <1>2, <2>3, ListsNext
      <4> QED BY <1>2, <3>1, <4>1
    <3>2. CASE ~Passes(p)
      BY <1>2, <2>3, <3>2
    <3> QED BY <3>1, <3>2
  <2>5. indices' = <<t>>
    BY <1>1, <1>4
  <2>6. old \in Seq(Nat)
    BY <2>3 DEF Lists
  <2>7. Len(t) >= Len(old) /\ \A k \in 1..Len(old) : t[k] = old[k]
    <3> HIDE DEF old, m, p
    <3>1. /\ Len(old) \in Nat /\ Len(Append(old, m)) = Len(old) + 1
          /\ \A k \in 1..Len(old) : Append(old, m)[k] = old[k]
      BY <1>2, <2>6, AppendProperties, LenProperties
    <3> QED BY <3>1
  <2> HIDE DEF t, old, Old, m, p
  <2>8. t \in Seq(Nat) /\ <<t>> # <<>> /\ Len(<<t>>) = 1 /\ <<t>>[1] = t
    BY <2>4 DEF Lists
  <2>9. ListInv'
    BY <1>1, <1>4, <2>4, <2>5, <2>8 DEF Inv, ListInv
  <2>10. Visible = s /\ Visible' = t
    BY <1>4, <2>5, <2>8 DEF Visible
  <2>11. Count = Len(s) /\ Count' = Len(t)
    BY <2>10 DEF Count
  <2> HIDE DEF s
  <2> QED BY <2>3, <2>5, <2>7, <2>8, <2>9, <2>10, <2>11
<1> QED BY <1>3, <1>4

LEMMA DrainKeeps ==
    ASSUME Inv, DrainOne
    PROVE  Inv'
<1> DEFINE m == Len(Kept)
<1> DEFINE n == Len(ring)
<1>1. /\ rx' = Tail(rx) /\ received' = received + 1 /\ pc = "drain"
      /\ shifted' = (shifted \/ (Full /\ Passes(ring[1])))
      /\ UNCHANGED <<active, dirFilter, selected, follow, chosen, pc>>
      /\ UNCHANGED <<paused, mode, overlay, search, dragging>>
  BY DEF DrainOne, uiVars
<1>2. /\ rx \in Seq(Packet) /\ rx # <<>> /\ received \in Nat /\ Capacity \in Nat \ {0}
      /\ received + Len(rx) <= MaxPackets /\ n <= Capacity /\ n \in Nat /\ MaxPackets \in Nat
      /\ DOMAIN rx = 1..Len(rx) /\ DOMAIN ring = 1..n /\ Lost \in {0, 1}
  BY DrainRing, ViewAssumption, LenProperties DEF Inv, ViewTypeOK, Lost
<1>3. /\ m \in Nat /\ m = n - Lost /\ Head(rx).num = received + 1
      /\ ring' \in Seq(Packet) /\ Len(ring') = m + 1 /\ ring'[m + 1] = Head(rx)
      /\ \A i \in 1..m : ring'[i] = ring[i + Lost] /\ i + Lost \in 1..n
      /\ Full => n = Capacity
  BY DrainRing
<1>4. Full <=> n >= Capacity
  BY DEF Full
<1>5. /\ Tail(rx) \in Seq(Packet) /\ Len(Tail(rx)) = Len(rx) - 1 /\ Len(rx) \in Nat
      /\ DOMAIN Tail(rx) = 1..(Len(rx) - 1)
      /\ \A i \in 1..(Len(rx) - 1) : Tail(rx)[i] = rx[i + 1]
  BY <1>2, HeadTailProperties, LenProperties
<1>6. Len(ring') <= Capacity
  <2>1. Full => Lost = 1
    BY DEF Lost
  <2> HIDE DEF m, n
  <2> QED BY <1>2, <1>3, <1>4, <2>1
<1>7. ViewTypeOK'
  <2>1. received' + Len(rx') <= MaxPackets /\ received' \in 0..MaxPackets
    <3> DEFINE l == Len(rx)
    <3>1. l \in Nat /\ l > 0 /\ received + l <= MaxPackets /\ Len(rx') = l - 1
      BY <1>1, <1>2, <1>5, EmptySeq
    <3> HIDE DEF l
    <3> QED BY <1>1, <1>2, <3>1
  <2>2. indices' = <<>> \/ (Len(indices') = 1 /\ indices'[1] \in Seq(Nat))
    BY DrainList
  <2> QED BY <1>1, <1>3, <1>5, <1>6, <2>1, <2>2 DEF Inv, ViewTypeOK
<1>8. ChannelInv'
  <2>1. \A i \in 1..(Len(rx) - 1) : Tail(rx)[i].num = received + 1 + i
    <3> TAKE i \in 1..(Len(rx) - 1)
    <3>1. i + 1 \in 1..Len(rx) /\ i \in Nat
      BY <1>5
    <3>2. rx[i + 1].num = received + (i + 1)
      BY <1>2, <3>1 DEF Inv, ChannelInv
    <3> QED BY <1>2, <1>5, <3>1, <3>2
  <2> QED BY <1>1, <1>5, <2>1 DEF ChannelInv
<1>9. RingExact'
  <2>1. n = AtMost(received, Capacity) /\ \A i \in 1..n : ring[i].num = received - n + i
    BY <1>2 DEF Inv, RingExact
  <2>2. Lost = IF n >= Capacity THEN 1 ELSE 0
    BY <1>4 DEF Lost
  <2> HIDE DEF m, n
  <2>3. m + 1 = AtMost(received + 1, Capacity)
    BY <1>2, <1>3, <2>1, <2>2 DEF AtMost
  <2>4. \A i \in 1..(m + 1) : ring'[i].num = received + 1 - (m + 1) + i
    <3> TAKE i \in 1..(m + 1)
    <3>1. CASE i = m + 1
      <4>1. ring'[i].num = received + 1
        BY <1>3, <3>1
      <4> QED BY <1>2, <1>3, <3>1, <4>1
    <3>2. CASE i # m + 1
      <4>1. i \in 1..m
        BY <1>3, <3>2
      <4>2. ring'[i] = ring[i + Lost] /\ i + Lost \in 1..n
        BY <1>3, <4>1
      <4>3. ring[i + Lost].num = received - n + (i + Lost)
        BY <2>1, <4>2
      <4>4. received - n + (i + Lost) = received + 1 - (m + 1) + i
        BY <1>2, <1>3, <4>1
      <4> QED BY <4>2, <4>3, <4>4
    <3> QED BY <3>1, <3>2
  <2>5. DOMAIN ring' = 1..(m + 1) /\ Len(ring') = m + 1 /\ received' = received + 1
    BY <1>1, <1>3, LenProperties
  <2>6. Len(ring') = AtMost(received', Capacity)
    BY <2>3, <2>5 DEF AtMost
  <2>7. \A i \in 1..(m + 1) : ring'[i].num = received' - Len(ring') + i
    <3> TAKE i \in 1..(m + 1)
    <3>1. ring'[i].num = received + 1 - (m + 1) + i
      BY <2>4
    <3>2. received + 1 - (m + 1) = received' - Len(ring')
      BY <1>2, <1>3, <2>5
    <3> QED BY <3>1, <3>2
  <2> QED BY <2>5, <2>6, <2>7 DEF RingExact, AtMost
<1>10. SelInv'
  <2> SUFFICES ASSUME ~follow, chosen # 0, ~shifted' PROVE NumAt(selected)' = chosen
    BY <1>1 DEF SelInv, SelectedInList
  <2>1. ~shifted /\ ~(Full /\ Passes(ring[1]))
    BY <1>1
  <2>2. NumAt(selected) = chosen /\ selected < Count /\ selected \in Nat
    BY <2>1 DEF Inv, SelInv, NumAt, ViewTypeOK
  <2>3. Visible \in Seq(Nat) /\ Count \in Nat /\ \A k \in 1..Count : Visible[k] + 1 \in 1..n
    BY VisibleLists DEF Inv
  <2>4. /\ Count' \in Nat /\ Count' >= Count
        /\ \A k \in 1..Count : Visible'[k] = Visible[k] - Lost /\ Visible[k] - Lost \in Nat
    <3>1. CASE indices # <<>>
      <4>1. Count' >= Count /\ \A k \in 1..Count : Visible'[k] = Visible[k] - Lost
        BY <2>1, <3>1, DrainList
      <4>2. Visible' \in Seq(Nat) /\ Count' \in Nat /\ DOMAIN Visible' = 1..Count'
        <5>1. indices' # <<>>
          BY <3>1 DEF DrainOne
        <5>2. Visible' = indices'[1] /\ indices'[1] \in Seq(Nat)
          BY <1>7, <5>1 DEF Visible, ViewTypeOK
        <5> QED BY <5>2, LenProperties DEF Count
      <4>3. \A k \in 1..Count : k \in 1..Count' /\ Visible'[k] \in Nat
        <5>1. \A k \in 1..Count : k \in 1..Count'
          BY <2>3, <4>1, <4>2
        <5> QED BY <4>2, <5>1
      <4> QED BY <4>1, <4>2, <4>3
    <3>2. CASE indices = <<>>
      <4>1. indices' = <<>> /\ \A q : Passes(q)
        BY <3>2 DEF Inv, ListInv, DrainOne, Passes
      <4>2. Lost = 0 /\ m = n
        BY <1>3, <2>1, <4>1 DEF Lost
      <4>3. Visible = [i \in 1..n |-> i - 1] /\ Visible' = [i \in 1..(n + 1) |-> i - 1]
        BY <1>3, <3>2, <4>1, <4>2 DEF Visible
      <4>4. Count = n /\ Count' = n + 1
        <5>1. Len([i \in 1..n |-> i - 1]) = n /\ Len([i \in 1..(n + 1) |-> i - 1]) = n + 1
          BY <1>2
        <5> QED BY <4>3, <5>1 DEF Count
      <4> HIDE DEF n, m
      <4>5. \A k \in 1..n : Visible[k] = k - 1 /\ Visible'[k] = k - 1 /\ k - 1 - 0 = k - 1 /\ k - 1 \in Nat
        BY <1>2, <4>3
      <4> QED BY <1>2, <4>2, <4>4, <4>5
    <3> QED BY <3>1, <3>2
  <2> DEFINE v == Visible[selected + 1]
  <2>5. selected + 1 \in 1..Count /\ v \in Nat /\ v + 1 \in 1..n /\ v - Lost \in Nat
        /\ Visible'[selected + 1] = v - Lost
    <3>1. selected + 1 \in 1..Count
      BY <2>2, <2>3
    <3>2. v \in Nat
      BY <2>3, <3>1, ElementOfSeq DEF Count
    <3> QED BY <2>3, <2>4, <3>1, <3>2
  <2>6. ring'[v - Lost + 1] = ring[v + 1]
    <3> HIDE DEF v, m, n
    <3>1. v - Lost + 1 \in 1..m /\ v - Lost + 1 + Lost = v + 1
      BY <1>2, <1>3, <2>5
    <3>2. ring'[v - Lost + 1] = ring[v - Lost + 1 + Lost]
      BY <1>3, <3>1
    <3> QED BY <3>1, <3>2
  <2>7. NumAt(selected) = ring[v + 1].num
    BY <2>2 DEF NumAt, PacketAt
  <2>8. selected < Count' /\ selected' = selected
    BY <1>1, <2>2, <2>3, <2>4
  <2>9. NumAt(selected)' = ring'[v - Lost + 1].num
    BY <2>5, <2>8 DEF NumAt, PacketAt
  <2> QED BY <2>2, <2>6, <2>7, <2>9
<1>11. shifted' \in BOOLEAN
  BY <1>1 DEF Inv
<1>12. ListInv'
  BY DrainList
<1> QED BY <1>7, <1>8, <1>9, <1>10, <1>11, <1>12 DEF Inv

-----------------------------------------------------------------------------
(***************************************************************************)
(* The theorems.                                                           *)
(***************************************************************************)
LEMMA ViewNext == Inv /\ [ListNext]_listVars => Inv'
<1> SUFFICES ASSUME Inv, [ListNext]_listVars PROVE Inv'
  OBVIOUS
<1>1. CASE \E k \in Kinds : PacketArrives(k)
  BY <1>1, ArriveKeeps
<1>2. CASE NoEvent
  BY <1>2, OtherKeysKeep
<1>3. CASE Keyboard
  BY <1>3, KeysMove, FiltersKeep, OtherKeysKeep DEF Keyboard
<1>4. CASE MouseEvent
  BY <1>4, MouseMoves DEF MouseEvent
<1>5. CASE DrainOne
  BY <1>5, DrainKeeps
<1>6. CASE Settle
  BY <1>6, SettleKeeps
<1>7. CASE UNCHANGED listVars
  <2>1. /\ UNCHANGED <<rx, ring, received, active, dirFilter, indices, selected, follow>>
        /\ UNCHANGED <<chosen, shifted, paused, mode, overlay, search, dragging, pc>>
    BY <1>7 DEF listVars, feedVars, filterVars, selVars, uiVars
  <2>2. ViewTypeOK' /\ shifted' \in BOOLEAN
    BY <2>1 DEF Inv, ViewTypeOK
  <2>3. ChannelInv' /\ RingExact'
    BY <2>1 DEF Inv, ChannelInv, RingExact
  <2>4. ListInv'
    BY <2>1 DEF Inv, ListInv, Passed, Passes
  <2>5. SelInv'
    BY <2>1 DEF Inv, SelInv, SelectedInList, NumAt, PacketAt, Count, Visible
  <2> QED BY <2>2, <2>3, <2>4, <2>5 DEF Inv
<1> QED BY <1>1, <1>2, <1>3, <1>4, <1>5, <1>6, <1>7 DEF ListNext

\* Ring, index and selection stay consistent (drain_packets,
\* rebuild_filter_indices and the keys of handle_key_event).
THEOREM ViewInvariant == ListSpec => []Inv
<1> QED BY ViewInit, ViewNext, PTL DEF ListSpec

LEMMA InvListsExactly == Inv => IndexExact
<1> SUFFICES ASSUME Inv PROVE IndexExact
  OBVIOUS
<1>1. Lists(Visible, Passed)
  BY VisibleLists DEF Inv
<1>2. ring \in Seq(Packet) /\ Len(ring) \in Nat /\ DOMAIN ring = 1..Len(ring)
  BY LenProperties DEF Inv, ViewTypeOK
<1>3. {i + 1 : i \in Passed} = Passing
  <2>1. ASSUME NEW i \in Passed PROVE i + 1 \in Passing
    BY <1>2 DEF Passed, Passing
  <2>2. ASSUME NEW n \in Passing PROVE n - 1 \in Passed /\ n - 1 + 1 = n
    <3>1. n \in 1..Len(ring) /\ Passes(ring[n])
      BY <1>2 DEF Passing
    <3>2. n - 1 \in 0..(Len(ring) - 1) /\ n - 1 + 1 = n
      BY <1>2, <3>1
    <3> QED BY <3>1, <3>2 DEF Passed
  <2> QED BY <2>1, <2>2
<1> QED BY <1>1, <1>3 DEF IndexExact, Lists, Inv, ListInv

\* What the list shows is exactly what the filters let through of the newest
\* packets that fit in the ring, in order, and a drawn frame has its selection
\* in the list.
THEOREM ListIsExact == ListSpec => []ViewInv
<1>1. Inv => ViewInv
  BY InvListsExactly DEF Inv, ViewInv, SelInv
<1> QED BY <1>1, ViewInvariant, PTL

\* The selected packet is the newest one shown in LIVE mode and the chosen one
\* in BROWSE mode, whenever a frame is drawn.
THEOREM SelectionIsExact == ListSpec => []SelectionExact
<1>1. Inv => SelectionExact
  <2> SUFFICES ASSUME Inv PROVE SelectionExact
    OBVIOUS
  <2>1. BrowseStays
    BY DEF Inv, SelInv, BrowseStays
  <2>2. ASSUME pc = "draw", follow, ~paused, Passing # {}
        PROVE  \E n \in Passing : /\ \A i \in Passing : i <= n
                                  /\ NumAt(selected) = ring[n].num
    <3> DEFINE c == Count
    <3>1. /\ Visible \in Seq(Nat) /\ c \in Nat /\ DOMAIN Visible = 1..c
          /\ \A k \in 1..c : Visible[k] \in Nat
      BY VisibleLists, ElementOfSeq DEF Inv
    <3>2. /\ {i + 1 : i \in {Visible[k] : k \in 1..c}} = Passing
          /\ \A k, l \in 1..c : k < l => Visible[k] < Visible[l]
      BY <3>1, InvListsExactly DEF IndexExact
    <3>3. PICK j \in 1..c : TRUE
      BY <2>2, <3>2
    <3>4. c \in 1..c /\ c > 0
      BY <3>1, <3>3
    <3>5. selected = c - 1 /\ NumAt(selected) = ring[Visible[c] + 1].num
      <4>1. selected = c - 1
        BY <2>2, <3>4 DEF Inv, SelInv
      <4>2. selected < Count /\ selected + 1 = c
        BY <3>1, <3>4, <4>1
      <4> QED BY <4>1, <4>2 DEF NumAt, PacketAt
    <3> HIDE DEF c
    <3>6. Visible[c] + 1 \in Passing
      BY <3>2, <3>4
    <3>7. \A i \in Passing : i <= Visible[c] + 1
      <4> TAKE i \in Passing
      <4>1. PICK k \in 1..c : i = Visible[k] + 1
        BY <3>2
      <4>2. k = c \/ k < c
        BY <3>1
      <4>3. k < c => Visible[k] < Visible[c]
        BY <3>2, <3>4
      <4> QED BY <3>1, <3>4, <4>1, <4>2, <4>3
    <3> QED BY <3>5, <3>6, <3>7
  <2>3. LiveShowsNewest
    BY <2>2 DEF LiveShowsNewest
  <2> QED BY <2>1, <2>3 DEF SelectionExact
<1> QED BY <1>1, ViewInvariant, PTL
=============================================================================
