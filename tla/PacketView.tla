----------------------------- MODULE PacketView -----------------------------
(***************************************************************************)
(* The packet list of the capture UI (rust-shark-app/src/tui/mod.rs): the  *)
(* ring of captured packets (src/storage/ring.rs), the index of those that *)
(* pass the filters, the selection, and the keys and mouse events that     *)
(* move them while packets keep arriving.                                  *)
(*                                                                         *)
(* One frame of run_tui is: draw, handle at most one event, then, unless   *)
(* the view is paused, drain the channel and settle the selection.         *)
(* Positions count from 0, as in the code.  A packet is what filters and   *)
(* searches tell apart of it: its text and its direction.  Colours,        *)
(* scrolling inside panes, the columns, the bookmarks, the statistics and  *)
(* the log file change nothing here and are left out.                      *)
(***************************************************************************)
EXTENDS Integers, Sequences

CONSTANTS
    Capacity,    \* buffer_size of the ring
    Height,      \* rows of the list on the screen
    Page,        \* rows PageUp and PageDown move (20)
    Texts,       \* what a text filter or a search can match
    Kinds,       \* packets that arrive: [text : Texts, dir : Directions]
    MaxPackets   \* bound of the model: packets that arrive

Directions == {"in", "out", "unknown"}

ASSUME ViewAssumption ==
    /\ Capacity \in Nat \ {0} /\ Height \in Nat \ {0} /\ Page \in Nat \ {0}
    /\ Texts \cap {"none", "any"} = {}
    /\ Kinds \subseteq [text : Texts, dir : Directions]
    /\ MaxPackets \in Nat

VARIABLES
    rx,          \* decoded packets waiting in the channel
    ring,        \* PacketRing
    received,    \* total_received
    active,      \* active_filter, "none" when there is none
    dirFilter,   \* dir_filter, "none" when there is none
    indices,     \* filtered_indices: <<>> for None, <<s>> for Some(s)
    selected,
    follow,      \* LIVE mode
    paused,
    mode,        \* InputMode
    overlay,     \* an overlay covers the list
    search,      \* search_re, "none" when there is none; "any" finds any packet
    dragging,    \* scrollbar_drag
    pc,          \* where run_tui is in its frame
    chosen,      \* number of the packet selected last (history variable)
    shifted      \* a listed packet was evicted since (history variable)

feedVars == <<rx, ring, received>>
filterVars == <<active, dirFilter, indices>>
selVars == <<selected, follow, chosen, shifted>>
uiVars == <<paused, mode, overlay, search, dragging>>
listVars == <<feedVars, filterVars, selVars, uiVars, pc>>

Packet == [num : Nat, text : Texts, dir : Directions]

\* App::passes
Passes(p) == active \in {"none", p.text} /\ dirFilter \in {"none", p.dir}

\* Ring positions the list shows, in order.
Visible ==
    IF indices = <<>> THEN [i \in 1..Len(ring) |-> i - 1] ELSE indices[1]

Count == Len(Visible)

\* visible_packet(i), for i below Count.
PacketAt(i) == ring[Visible[i + 1] + 1]

NumAt(i) == IF i < Count THEN PacketAt(i).num ELSE 0

AtMost(i, n) == IF i <= n THEN i ELSE n
AtLeast0(i) == IF i >= 0 THEN i ELSE 0

\* The last position, 0 in an empty list.
LastPos == AtLeast0(Count - 1)

-----------------------------------------------------------------------------
ListInit ==
    /\ rx = <<>> /\ ring = <<>> /\ received = 0
    /\ active = "none" /\ dirFilter = "none" /\ indices = <<>>
    /\ selected = 0 /\ follow = TRUE
    /\ paused = FALSE /\ mode = "normal" /\ overlay = FALSE /\ search = "none"
    /\ dragging = FALSE
    /\ pc = "draw"
    /\ chosen = 0 /\ shifted = FALSE

\* The decode thread sends a packet.
PacketArrives(k) ==
    /\ received + Len(rx) < MaxPackets
    /\ rx' = Append(rx, [num |-> received + Len(rx) + 1, text |-> k.text, dir |-> k.dir])
    /\ UNCHANGED <<ring, received, filterVars, selVars, uiVars, pc>>

\* The frame is drawn and an event, if any, handled: packets are drained next.
Handled == pc = "draw" /\ pc' = IF paused' THEN "draw" ELSE "drain"

Normal == mode = "normal" /\ UNCHANGED <<feedVars, paused, mode, search>>
InList == Normal /\ ~overlay /\ UNCHANGED <<filterVars, overlay>>

\* The user moves the selection to position i; live re-enters or leaves LIVE.
Select(i, live) ==
    /\ selected' = i
    /\ follow' = live
    /\ chosen' = NumAt(i)
    /\ shifted' = FALSE

Stay == UNCHANGED selVars

(***************************************************************************)
(* Keys that navigate (handle_key_event).                                  *)
(***************************************************************************)
NoEvent ==
    /\ UNCHANGED <<feedVars, filterVars, selVars, uiVars>>
    /\ Handled

KeyDown ==
    /\ InList
    /\ IF Count > 0 /\ selected < Count - 1
       THEN Select(selected + 1, follow \/ selected + 2 >= Count)
       ELSE Stay
    /\ UNCHANGED dragging
    /\ Handled

KeyUp ==
    /\ InList
    /\ IF selected > 0 THEN Select(selected - 1, FALSE) ELSE Stay
    /\ UNCHANGED dragging
    /\ Handled

\* End and Home work under an overlay as well, and so do the page keys.
KeyEnd ==
    /\ Normal
    /\ IF Count > 0 THEN Select(Count - 1, TRUE) ELSE Stay
    /\ UNCHANGED <<filterVars, overlay, dragging>>
    /\ Handled

KeyHome ==
    /\ Normal
    /\ Select(0, FALSE)
    /\ UNCHANGED <<filterVars, overlay, dragging>>
    /\ Handled

KeyPageDown ==
    /\ Normal
    /\ LET to == AtMost(selected + Page, LastPos)
       IN  Select(to, follow \/ to + 1 >= Count)
    /\ UNCHANGED <<filterVars, overlay, dragging>>
    /\ Handled

KeyPageUp ==
    /\ Normal
    /\ Select(AtLeast0(selected - Page), FALSE)
    /\ UNCHANGED <<filterVars, overlay, dragging>>
    /\ Handled

(***************************************************************************)
(* Mouse (handle_mouse_event), in every mode.                              *)
(***************************************************************************)
Mouse == UNCHANGED <<feedVars, filterVars, paused, mode, overlay, search>>

WheelDown ==
    /\ Mouse /\ ~overlay
    /\ IF Count > 0
       THEN LET to == AtMost(selected + 3, Count - 1)
            IN  Select(to, follow \/ to + 1 >= Count)
       ELSE Stay
    /\ UNCHANGED dragging
    /\ Handled

WheelUp ==
    /\ Mouse /\ ~overlay
    /\ Select(AtLeast0(selected - 3), FALSE)
    /\ UNCHANGED dragging
    /\ Handled

\* The first position on the screen: what render_packet_list draws, and what
\* select_row_by_mouse assumes.
Offset == IF selected >= Height THEN selected - Height + 1 ELSE 0

\* A press or a drag on row r of the list; row Height is its bottom border,
\* which the test of the list's rectangle lets through.
ClickRow(r) ==
    /\ Mouse /\ ~overlay
    /\ IF Offset + r < Count THEN Select(Offset + r, FALSE) ELSE Stay
    /\ UNCHANGED dragging
    /\ Handled

\* scroll_to_row: row r of the scrollbar's track, which has Height + 1 cells.
TrackPos(r) == AtMost((r * (Count - 1)) \div Height, Count - 1)

\* A press on the scrollbar, which is there while the list overflows, or a drag
\* that began on it.
ScrollTo(r) ==
    /\ Mouse /\ ~overlay
    /\ dragging \/ Count > Height
    /\ dragging' = TRUE
    /\ IF Count > 0 THEN Select(TrackPos(r), FALSE) ELSE Stay
    /\ Handled

Release ==
    /\ Mouse
    /\ dragging' = FALSE
    /\ Stay
    /\ Handled

(***************************************************************************)
(* Filters.                                                                *)
(***************************************************************************)
\* A loop over the positions below n that keeps those of S.
Ascending(S, n) ==
    LET upto[i \in 0..n] ==
            IF i = 0 THEN <<>>
            ELSE IF i - 1 \in S THEN Append(upto[i - 1], i - 1) ELSE upto[i - 1]
    IN  upto[n]

\* rebuild_filter_indices, under the filters a and d.
Rebuilt(a, d) ==
    IF a = "none" /\ d = "none" THEN <<>>
    ELSE <<Ascending({i \in 0..(Len(ring) - 1) : /\ a \in {"none", ring[i + 1].text}
                                                /\ d \in {"none", ring[i + 1].dir}},
                     Len(ring))>>

\* The index is rebuilt and the selection goes to the top; whether the view
\* follows is left as it is.
ToTop ==
    /\ indices' = Rebuilt(active', dirFilter')
    /\ selected' = 0
    /\ chosen' = NumAt(0)'
    /\ shifted' = FALSE
    /\ UNCHANGED follow

\* Keys i and o: the filter on one direction goes on, off, or to the other.
KeyDirection(d) ==
    /\ Normal
    /\ dirFilter' = IF dirFilter = d THEN "none" ELSE d
    /\ UNCHANGED active
    /\ ToTop
    /\ UNCHANGED <<overlay, dragging>>
    /\ Handled

KeySlash ==
    /\ mode = "normal"
    /\ mode' = "filter"
    /\ Stay
    /\ UNCHANGED <<feedVars, filterVars, paused, overlay, search, dragging>>
    /\ Handled

\* Enter with an expression that parses, or with none at all.
EnterFilter(f) ==
    /\ mode = "filter"
    /\ mode' = "normal"
    /\ active' = f
    /\ UNCHANGED <<dirFilter, ring>>
    /\ ToTop
    /\ UNCHANGED <<rx, received, paused, overlay, search, dragging>>
    /\ Handled

\* Esc, a parse error or the name of no saved filter.
LeaveFilter ==
    /\ mode = "filter"
    /\ mode' = "normal"
    /\ Stay
    /\ UNCHANGED <<feedVars, filterVars, paused, overlay, search, dragging>>
    /\ Handled

(***************************************************************************)
(* Search, overlays, pause.                                                *)
(***************************************************************************)
\* Offsets from the selection at which a match for t is, one full turn.
Matches(t) ==
    {off \in 1..Count : t \in {"any", PacketAt((selected + off) % Count).text}}

\* next_search_match: LIVE mode is left as it is.
Jump(t) ==
    IF t = "none" \/ Matches(t) = {} THEN UNCHANGED selVars
    ELSE LET off == CHOOSE o \in Matches(t) : \A n \in Matches(t) : o <= n
             to == (selected + off) % Count
         IN  /\ selected' = to
             /\ chosen' = NumAt(to)
             /\ shifted' = FALSE
             /\ UNCHANGED follow

KeyNext ==
    /\ Normal
    /\ Jump(search)
    /\ UNCHANGED <<filterVars, overlay, dragging>>
    /\ Handled

\* Ctrl-F, in every mode.
KeySearch ==
    /\ mode' = "search"
    /\ Stay
    /\ UNCHANGED <<feedVars, filterVars, paused, overlay, search, dragging>>
    /\ Handled

EnterSearch(t) ==
    /\ mode = "search"
    /\ mode' = "normal"
    /\ search' = t
    /\ Jump(t)
    /\ UNCHANGED <<feedVars, filterVars, paused, overlay, dragging>>
    /\ Handled

\* Esc forgets the search; a pattern that does not compile keeps the old one.
LeaveSearch(old) ==
    /\ mode = "search"
    /\ mode' = "normal"
    /\ search' = IF old THEN search ELSE "none"
    /\ Stay
    /\ UNCHANGED <<feedVars, filterVars, paused, overlay, dragging>>
    /\ Handled

\* Keys t, P, F, T, ', f and Esc.
SetOverlay(o) ==
    /\ Normal
    /\ overlay' = o
    /\ Stay
    /\ UNCHANGED <<filterVars, dragging>>
    /\ Handled

KeyPause ==
    /\ mode = "normal"
    /\ paused' = ~paused
    /\ Stay
    /\ UNCHANGED <<feedVars, filterVars, mode, overlay, search, dragging>>
    /\ Handled

\* q and Ctrl-C: what is left in the channel is lost with it.
Quit ==
    /\ pc = "draw"
    /\ pc' = "quit"
    /\ UNCHANGED <<feedVars, filterVars, selVars, uiVars>>

(***************************************************************************)
(* drain_packets.                                                          *)
(***************************************************************************)
\* PacketRing::push drops the head of a full ring.
Full == Len(ring) >= Capacity

\* The ring has dropped its head: the index keeps every position but the
\* head's, and they move down (retain_mut).
ShiftedIndex(s) ==
    LET kept == Ascending({i \in 0..(Len(s) - 1) : s[i + 1] # 0}, Len(s))
    IN  [i \in 1..Len(kept) |-> s[kept[i] + 1] - 1]

\* PacketRing::push, then the index is brought up to date.
DrainOne ==
    /\ pc = "drain"
    /\ rx # <<>>
    /\ LET p == Head(rx)
           kept == IF Full THEN Tail(ring) ELSE ring
           old == IF Full THEN ShiftedIndex(indices[1]) ELSE indices[1]
       IN /\ ring' = Append(kept, p)
          /\ indices' = IF indices = <<>> THEN <<>>
                        ELSE IF Passes(p) THEN <<Append(old, Len(kept))>>
                        ELSE <<old>>
          /\ shifted' = (shifted \/ (Full /\ Passes(ring[1])))
    /\ rx' = Tail(rx)
    /\ received' = received + 1
    /\ UNCHANGED <<active, dirFilter, selected, follow, chosen, uiVars, pc>>

\* Faulty variants: the selection is not brought back into the list; LIVE
\* takes the ring's last position for the list's.
SettleNot ==
    /\ pc = "drain"
    /\ rx = <<>>
    /\ selected' = IF follow /\ Count > 0 THEN Count - 1 ELSE selected
    /\ pc' = "draw"
    /\ UNCHANGED <<feedVars, filterVars, follow, chosen, shifted, uiVars>>

SettleOnRing ==
    /\ pc = "drain"
    /\ rx = <<>>
    /\ selected' = IF follow THEN AtLeast0(Len(ring) - 1) ELSE AtMost(selected, LastPos)
    /\ pc' = "draw"
    /\ UNCHANGED <<feedVars, filterVars, follow, chosen, shifted, uiVars>>

\* The channel is empty: LIVE goes to the newest packet, BROWSE stays, within
\* the list.
Settle ==
    /\ pc = "drain"
    /\ rx = <<>>
    /\ selected' = IF follow THEN (IF Count > 0 THEN Count - 1 ELSE selected)
                   ELSE AtMost(selected, LastPos)
    /\ pc' = "draw"
    /\ UNCHANGED <<feedVars, filterVars, follow, chosen, shifted, uiVars>>

Keyboard ==
    \/ KeyDown \/ KeyUp \/ KeyEnd \/ KeyHome \/ KeyPageDown \/ KeyPageUp
    \/ \E d \in {"in", "out"} : KeyDirection(d)
    \/ KeySlash \/ LeaveFilter
    \/ \E f \in Texts \cup {"none"} : EnterFilter(f)
    \/ KeyNext \/ KeySearch
    \/ \E t \in Texts \cup {"any"} : EnterSearch(t)
    \/ \E old \in BOOLEAN : LeaveSearch(old)
    \/ \E o \in BOOLEAN : SetOverlay(o)
    \/ KeyPause \/ Quit

MouseEvent ==
    \/ WheelDown \/ WheelUp \/ Release
    \/ \E r \in 0..Height : ClickRow(r) \/ ScrollTo(r)

ListNext ==
    \/ \E k \in Kinds : PacketArrives(k)
    \/ NoEvent \/ Keyboard \/ MouseEvent
    \/ DrainOne \/ Settle

ListSpec == ListInit /\ [][ListNext]_listVars
-----------------------------------------------------------------------------
(***************************************************************************)
(* Properties.                                                             *)
(***************************************************************************)
ViewTypeOK ==
    /\ rx \in Seq(Packet) /\ ring \in Seq(Packet)
    /\ Len(ring) <= Capacity
    /\ received \in 0..MaxPackets /\ received + Len(rx) <= MaxPackets
    /\ active \in Texts \cup {"none"} /\ dirFilter \in {"in", "out", "none"}
    /\ indices = <<>> \/ (Len(indices) = 1 /\ indices[1] \in Seq(Nat))
    /\ selected \in Nat /\ follow \in BOOLEAN /\ paused \in BOOLEAN
    /\ mode \in {"normal", "filter", "search"}
    /\ overlay \in BOOLEAN /\ dragging \in BOOLEAN
    /\ search \in Texts \cup {"none", "any"}
    /\ pc \in {"draw", "drain", "quit"}

\* What the list is meant to show: where in the ring a packet passes.
Passing == {n \in DOMAIN ring : Passes(ring[n])}

\* The index survives every mix of evictions, new packets and filter changes:
\* what the list shows is exactly the packets of the ring that pass both
\* filters, in order (drain_packets, rebuild_filter_indices).
IndexExact ==
    /\ {i + 1 : i \in {Visible[k] : k \in DOMAIN Visible}} = Passing
    /\ \A k, l \in DOMAIN Visible : k < l => Visible[k] < Visible[l]
    /\ indices = <<>> <=> active = "none" /\ dirFilter = "none"

\* Whenever a frame is drawn the selection is a packet of the list, so that
\* the detail pane does not go blank (the clamp at the end of drain_packets),
\* also when the ring turned over or a filter changed while the view was
\* paused.  LIVE leaves the selection alone when no packet passes.
SelectedInList == pc = "draw" /\ Count > 0 => selected < Count

\* The ring holds the newest packets, as many as fit, in the order they came
\* (PacketRing::push).
RingExact ==
    /\ Len(ring) = AtMost(received, Capacity)
    /\ \A n \in DOMAIN ring : ring[n].num = received - Len(ring) + n

\* Ring, index and selection fit one another, within the ring's capacity.
ViewInv == ViewTypeOK /\ RingExact /\ IndexExact /\ SelectedInList

\* In LIVE mode a frame that is not paused shows the newest packet that
\* passes, whatever key or click came before.
LiveShowsNewest ==
    pc = "draw" /\ follow /\ ~paused /\ Passing # {} =>
        \E n \in Passing : /\ \A m \in Passing : m <= n
                           /\ NumAt(selected) = ring[n].num

\* In BROWSE mode the packet the user selected stays selected while packets
\* arrive, and while packets the list does not show are evicted.
BrowseStays ==
    pc = "draw" /\ ~follow /\ chosen # 0 /\ ~shifted => NumAt(selected) = chosen

\* The frame shows what the mode promises: the newest packet, or the one that
\* was chosen.
SelectionExact == LiveShowsNewest /\ BrowseStays
=============================================================================
