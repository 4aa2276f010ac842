# rust-shark in TLA+

rust-shark captures packets, shows them in a terminal UI, and runs as a daemon
that watches which process talks to whom ("monitor") with a client that looks
into the daemon ("inspect"). This directory holds TLA+ models of the parts in
which things happen concurrently, fail, have to be kept in step, or take apart
bytes of any shape; the TLC runs that check them; and TLAPS proofs about the
daemon's worker, its alert engine, its event bus with the inspectors, its life cycle,
the capture pipeline, the packet list, the reassembly of TCP streams, the decoding of
packets, and what packets are annotated with.

Paths below are relative to `src/crates/`; `core/` stands for
`rust-shark-core/src/` and `app/` for `rust-shark-app/src/`.

    tlc -workers 2 -config MCMonitor.cfg MCMonitor   # a run: its cfg, its module
    tlapm MonitorProofs.tla                          # proofs: eight modules, ...Proofs

`PROJECT.json` lists components, runs, theorems and hazards, maps each definition
to the lines it stands for, and names for each property a *mutant*: a plausible
bug (the definitions commented "Faulty variant") with which the property fails.

## The system

```
             packets                 decoded packets
  device or ---------> capture -----------------> decode --------------> JSON / UI
  file      (kernel)   thread   bounded channel   thread  bounded channel  main thread
                          |
                          |  bounded channel                 store (SQLite), one mutex
                          v                                 /
                       worker ---------------------- live table, one mutex
                (flow table, detectors)             \
                                                     event bus -> queue per subscriber
                                                                       |
                                              handler thread -> socket -> inspector
```

| Component | State it keeps | Operations | What makes it hard | What makes it correct |
|---|---|---|---|---|
| Flow table (`core/flow/tracker.rs`) | LRU map of flows, completion queue | `update` | eviction in the middle of a conversation, tuple reuse | within capacity; a final snapshot for each flow that leaves |
| Segments (`core/flow/tracker.rs`, `record_rtt`) | highest sequence number and unacknowledged segments per direction | mark, time | 2^32 wrap, reordering | a mark and a sample are about the right segment |
| Reassembly (`core/flow/reassembly.rs`) | next number, pending bytes, held segments, cap | `insert_segment`, `try_drain` | overlap, wrap, garbage, cap | what is handed out is the sender's stream |
| Monitor worker (`core/monitor/correlate.rs`) | FlowMetas, ids, live table, rows, events | one packet, one closed flow, stop | five tables changed at different moments, store failures, stop anywhere | they agree; no connection is forgotten or counted twice |
| Alert engine (`core/alert/`, `core/store/`) | baseline tables, window, alerts | `evaluate_full` in one transaction | statement fails, crash, restart, clock | whole rows, no alert while learning, none lost, none twice in a cooldown |
| IPC server and bus (`core/ipc/server.rs`) | subscribers' queues | broadcast, query, subscribe, stop | slow or dead subscribers, the gap between query and subscription | one subscriber cannot disturb another |
| Inspector (`app/inspect/`, `core/inspector/state.rs`) | copy of the live table, alert feed | start, apply, refresh, quit | answers and events overtake one another | the copy converges |
| Daemon life cycle (`core/monitor/mod.rs`) | threads, flag, socket path | start, stop, signal, crash | failures of one thread, a second daemon | it ends, and the next one can start |
| Capture pipeline (`core/capture/`, `app/main.rs`) | two channels, a flag | capture, decode, output, leave | threads blocked on full channels while stopping | nothing lost, always ends |
| Packet list (`app/tui/mod.rs`, `core/storage/ring.rs`) | ring, filter index, selection, modes | keys, mouse, drain | positions shift when the ring evicts | index and selection stay consistent |
| Binary identity (`core/identity.rs`) | a cache by path, mtime, size | identify | a file replaced between metadata and hash, rollbacks | the identity is the file's |
| DNS and names (`core/flow/dns_tracker.rs`, `core/enrich/names.rs`) | names by address, unanswered queries | learn, look up, pair | sources in any order, ids asked again, a full table | the name is the best source's latest; a response has its query |
| Volume baseline (`core/alert/baseline.rs`) | open interval, mean, variance per process | `update_volume` | first intervals, gaps, times that go back | no byte uncounted; a spike stands out of earlier intervals |
| Threats (`core/analysis/threat.rs`) | a window of probes per source | `observe` | thresholds, times that go back | scans are told exactly, none is missed |
| Display filters (`core/filter/`) | none | parse, eval | precedence, missing fields | evaluation agrees with the grammar |
| Capture diff (`core/diff/mod.rs`) | none | diff | duplicates | each packet is in one class |
| Process attribution (`core/process/`) | a cache of the OS socket table | lookup | a table that is a second old, port reuse, two protocols | no stale owner |
| Decoders (`core/decode/`) | the HPACK table of an HTTP/2 stream; else none | decode a packet, a message, a hello, a header block | captures cut short, lengths that lie, names that point, two tables in step | what is shown was sent; nothing is read beyond what it belongs to |
| GeoIP, notifications, output, rendering, command line | none that outlives a packet | | | |

Threads share state through: the stop flag; the three mutexes around the store, the live
table and the subscribers (never two together in the worker); the channels; the bus, a
list of bounded queues written with `try_send`. Processes share the socket path and the
SQLite file.

The hazards this leaves, each at its line, are in `PROJECT.json` together with the
properties aimed at them.

## Modules

| Module | Models | Extends |
|---|---|---|
| `FlowTracker` | the flow table | |
| `Monitor` | the worker over it, split where other threads see its state | `FlowTracker` |
| `MonitorProofs` | theorems about `Monitor` and what its clients see, and that it implements `Ledger` | `Monitor` |
| `Ledger` | abstract specification: a book with one account per connection | |
| `Store` | the baseline's tables and what one call does to them | |
| `Baseline` | abstract specification: an observation is learnt and judged in one step | `Store` |
| `AlertEngine` | the detectors statement by statement in a transaction; implements `Baseline` | `Baseline` |
| `EngineProofs` | theorems about `AlertEngine`, and that it implements `Baseline` | `AlertEngine` |
| `InspectorSync` | live table, bus, subscriptions, inspectors | |
| `InspectorProofs` | theorems about `InspectorSync` | `InspectorSync` |
| `Lifecycle` | start, stop, signals, crash of daemons on one state directory | |
| `LifecycleProofs` | theorems about `Lifecycle` and `Locks` | `Lifecycle`, `Locks` |
| `Locks` | the mutexes of the daemon, as worker and handler threads take them | |
| `Pipeline` | capture, decode and main thread of `capture` and `read` | |
| `PipelineProofs` | theorems about `Pipeline` | `Pipeline` |
| `PacketView` | the packet list of the UI | |
| `PacketViewProofs` | theorems about `PacketView` | `PacketView` |
| `SocketCache` | which process holds a packet's port | |
| `IdentityCache` | which binary a process runs | |
| `Threats` | port scans, host sweeps, rare destinations | |
| `Names` | names of addresses, queries and their responses | |
| `Volume` | the volume baseline and its spikes | |
| `AnnotationProofs` | theorems about these five | `SocketCache`, `IdentityCache`, `Threats`, `Names`, `Volume` |
| `Filters` | grammar and meaning of display filters | |
| `SeqSpace` | serial-number arithmetic | |
| `SegmentTracker` | retransmission marks and round-trip samples | `SeqSpace` |
| `Reassembly` | `ReassemblyBuffer` | `SeqSpace` |
| `Conversation` | one direction of a conversation put back together | `Reassembly` |
| `Decode` | a packet taken apart, layer by layer | |
| `DissectionProofs` | theorems about `Conversation`, `SegmentTracker` and `Decode` | these three |
| `DnsMessage` | the DNS parser, against a sender that compresses names | |
| `TlsHello` | TLS handshake records, and the fingerprints of a ClientHello | |
| `Http2` | frames and HPACK, against a sender with its own table | |
| `MC...` | instances for TLC | |

### FlowTracker and Monitor

`flows` is the LRU table, with the packet count at the last touch for recency, `done`
the completion queue, `metas` the `FlowMeta` map, `live` the `LiveState`, `rows` the
table `connections`, `feed` what was broadcast. `wire` counts, per connection id, the
bytes that were really seen: the reference the history is compared with. `Book` is an
instance of `Ledger` over this state: the bytes of `wire` are the accounts, an id is
open while its flow is tracked, the rows are the entries; `KeepsBook` says that the
worker's steps are those of the book. Actions follow `run_worker`: `CheckStop`,
`Receive` (the flow table's whole `update`, then the `or_insert_with` of the meta),
`Evaluate` (the store call, which may fail), `Publish` (the live table), `Announce` (the
broadcast), then per closed flow `TakeClosed`, `Retire` and `InsertRow`, and `Drained`.
Alerts, country and name are left out, and so is a heartbeat, which changes no state
here.

### Store, Baseline and AlertEngine

`Store` has one operator per call of `core/store/mod.rs` that the detectors make. An
evaluation is one SQLite transaction: `Begin`, `StartBaseline`, `RecordDest`,
`RecordProcess`, `CheckIdentity`, `NoteLabel`, `NoteGeo`, `UpdateVolume`, `Commit`,
`Notify`. `tx` is what the transaction sees, `db` what is committed. Any statement may
fail (rollback), a `COMMIT` may fail and leave its transaction open, so that every later
`BEGIN` fails (`stuck`), the daemon may crash between any two statements and restart
with another learning window, and the time of an observation is any of `Times`: the
clock may jump back. Whether an observation closes an anomalous volume interval is part
of the observation. `Baseline` has one step, `Observe`; `AlertEngine` shows with
`Implements` that its transaction amounts to that step or to nothing.

### InspectorSync

The worker changes the live table first and broadcasts later (`out` holds what
is about to be said, in order). The alerts of one packet, up to one per detector, are
committed in one transaction (`RaiseAlerts`) and broadcast one by one when the store is
let go of, so an inspector may ask for the recent ones and subscribe with several of
them committed and not yet broadcast, and shows those twice. `Recents` is what
`query_recent_alerts` may answer: it sorts by the time of the packet, which may go back,
and nothing orders alerts of one time. `queue[i]` is the bounded queue, `inbox[i]` everything
behind it up to the inspector's loop, which is unbounded. `QueryConns`,
`QueryAlerts` and `Subscribe` are steps of their own, as in `run_inspector`;
`Refresh` may come at any time; `HandlerEnds` and the pruning of dead
subscribers in `Broadcast` are those of `handle_conn` and `Bus::broadcast`.
Inspectors in `Suspended` have subscribed and are never scheduled again, like a
program stopped from its terminal; they may be killed.

### SocketCache, IdentityCache, Threats, Names, Volume and Filters

What a packet is annotated with. `SocketCache` is `lookup_socket_proc_linux`: the
table is read under a lock (`Lookup`), the owner searched behind it (`FindPid`),
while other processes open and close sockets and time passes. The files of /proc may
be unreadable, those of the table (one per address family, `failed`) as well as a
process's descriptors (`hidden`: a daemon that is not root sees its own user's).
`IdentityCache`
starts with the process that was found: the link of its executable (`ReadExe`),
the key from the file's metadata (`Stat`), the hash and its caching (`Hash`), while
files are updated, rolled back and removed between any two of them. `Threats` is
`ThreatTracker::observe`, for packets whose times may go back. `Names` hears the messages
that name addresses; it feeds the table of pending queries (`DnsTracker`, which only
tests call) with the same ones. `Volume` is `update_volume` with the verdict of signal
4: the mean and the variance are multiples of 1/`Unit`, fine enough that no rounding occurs
in the run; the theorem holds for any `Unit`, with what the division leaves over dropped.
`Filters` has no state but the text in the filter bar, one word after another;
`ParseFilter` follows the parser rule by rule (ordered choice, repetition that
stops where an operand is missing), `EvalFilter` the evaluation, and `FilterMeans`
compares both with a reading of the text that splits it in every possible way.
`MCAnnotations` runs any one of the six per behaviour: they share no state.

### Decode, DnsMessage, TlsHello and Http2

Each sets a parser against a sender that follows the protocol's own rules, and what
lies between them: a capture that holds the first bytes only, or an octet that was
changed. `Decode` has frames of headers and a body; a decoder that looks where a
header of its kind begins reads it, anywhere else it may read anything of `Junk`. What
is sent is well formed (`SentAssumption`): headers of the lengths and versions the
protocols prescribe, each naming the one behind it.
`DecodeExact` says that the layers tile the bytes captured and are headers of
the frame, and that the summary is about them. `DnsMessage` and `TlsHello` work on
octets, as the parsers do: names are written with pointers to any place where
their rest stands already, extensions in any order, messages across two records.
`MessagesExact` and `HelloExact` compare what is read with what was written, and
bound what a damaged message may yield. `Http2` is a pair of HPACK tables:
the reader does not decode Huffman strings and skips blocks that are padded, carry
a priority or are continued, and it counts a text that is not UTF-8 by the length of
what replaces it, so that its table may drift; `HeadersExact` says when it may not, and
that the reader's size always is the sum of its entries.
`MCDissection` runs one of the four, `SegmentTracker`, `Conversation` or `PacketView`, per
behaviour; `MCThreads` runs `Pipeline`, `Lifecycle` or `Locks`.

### Lifecycle, Locks, Pipeline, PacketView, SegmentTracker, Conversation

`Locks` gives each thread the locks and unlocks of its current pass: those of
`handle_update`, `persist_closed` and `heartbeat` for the worker, of `handle_query`,
`Subscribe` for a handler, which may panic with a mutex in hand. `Lifecycle` has a
program counter for the main, capture and server thread of each daemon and one shared
socket path. `Pipeline` has one for each of its three threads and the two channels; a
send or receive on a channel whose other end is gone fails, as in crossbeam.
`PacketView` has the frame of `run_tui` (draw, at most one event, drain) and every key
and mouse event that moves the selection, the filters or the modes. `SegmentTracker` and
`Conversation` see a sender's segments in any order, the one as `update` and `record_rtt`
of the flow table do, the other through the reassembly buffer; a byte is represented
by its position in the sender's stream, and `SeqSpan` stands for 2^32. The tracker's
stream may run through the space several times. `Read` may happen at any time:
`ReassemblyBuffer` allows it, `build_stream` reads once at the end.

## Runs

| Run | Question | Distinct states |
|---|---|---|
| `MCMonitor` | Do flow table, metas, live table, history and event stream stay in step, are they the book of `Ledger`, and does the worker end? | 449,546 |
| `MCMonitorTotals` | *violated:* "the daemon never loses a connection's totals" | |
| `MCAlertEngine` | Whole, silent while learning, complete, with failures, crashes and clock jumps; does it implement `Baseline`? | 3,109,328 |
| `MCAlertEngineInbound` | *violated:* "a binary's first-ever outbound connection" raises an alert | |
| `MCInspectorSync` | Is a subscriber's stream exact beside one that reads nothing, does its view converge, is its feed newest first, is everything delivered? | 747,456 |
| `MCThreads` | Is nothing lost, reordered or repeated between the threads of a capture, and does each process end when told? Does a daemon take over after a crash? Does no thread wait in a circle for a mutex, and the worker always return? | 64,308 |
| `MCDissection` | Is a packet taken for what was sent, layer by layer and message by message; is the stream the sender's, are marks and samples right, across the wrap; do ring, index and selection of the packet list stay consistent? | 1,718,120 |
| `MCHttp2Fully` | *violated:* "indexed and non-Huffman literals decode fully" | |
| `MCConversationStranded` | *violated:* "out of order, duplicated, or overlapping" segments are reassembled | |
| `MCAnnotations` | Is the process the port's, the identity the file's, the scan what was probed, the name the wire's, the volume all that was sent, the filter what is typed? | 4,587,501 |
| `MCAnnotationsProtocol` | *violated:* "map a flow's local `(addr, port)` to the owning process" of its protocol | |
| `MCAnnotationsIdentity` | *violated:* "resolve the identity of the executable at `path`" | |

Each run checks the type invariant of its modules together with the bounds of their
tables and channels as a conjunct of one invariant: `IInv`, `EngineInv`, `SyncInv`,
`ViewInv`, `PipelineInv`, `LifecycleInv`, `BufferInv`, and in `MCAnnotations` and for
the four parsers the exactness of what they state. The other properties are stated where
they are defined, with the code they are about.

### Bounds and why they are enough

- `MCMonitor`: three connections of three kinds (one end local, the other end local,
  both), of which one is TCP, and a table of two, so a third evicts; four packets
  suffice for open, evict, reopen and close in one behaviour, which is what a stale meta
  needs. Store calls succeed or fail freely. No process is named (`Procs = {}`): the
  process of a connection is only ever copied, none of the properties depends on it, and
  the theorems hold for any set of processes.
- `MCAlertEngine`: one process, because rows of different processes meet only in the
  table of destinations, which the unattributed flow also writes; two destinations that
  share a country but not a network; a signed program, its update, another signer, no
  signature and an unreadable file; three observations and one fault at three times with
  a cooldown of two, so that an alert may be suppressed and come back. Learning windows
  0 and 1 put observations on either side of the end.
- `MCInspectorSync`: two connections, three events, queues of two: one can overflow, and
  a connection can close while another opens. A packet raises one or two alerts at one of
  two times; the query asks for two of up to four, and the feed holds four, so it can have
  two alerts twice and is cut when it would be longer. Of two inspectors one is suspended from
  the beginning, which is the slowest a subscriber can be; both may be killed.
- `MCDissection`, `PacketView`: a ring of two, four packets, a screen of one row and a
  page of two: eviction, scrolling and page moves past both ends all happen.
- `MCThreads`, `Pipeline`: six packets through channels of two, so both channels fill
  while every thread holds one packet; six command lines.
- `MCThreads`, `Lifecycle` and `Locks`: two daemons, every fault. A daemon starts
  once. Three handler threads and four requests: one more than threads, so that a
  handler comes back for a mutex that another one poisoned.
- `MCAnnotations`: three sockets on one port, in two protocols and of two processes,
  over three ticks, with the table read again when it is more than one old, any of its
  readings failing; processes (and paths) are interchangeable (`Alike`); two files with
  two contents each and three replacements, so that a content returns; four probes of
  two sources, thresholds of three ports and two hosts, a window of one tick and three
  times in any order; five packets that name an address or ask under one of three ids,
  with room for two queries; seven packets at seven times of three sizes, over up to
  four intervals of two ticks, three of them asked for before a spike, with
  `volume_alpha` 1/2, the code's threshold of four and a `Unit` that four halvings
  divide; filter texts of six words over
  connectives and parentheses, five with `not`, and five or four with fields, values and
  `contains`, each against five packets.
- `MCDissection`, `Conversation`: six bytes across the boundary of a space of 32
  numbers, cut in three and again in two other ways, a stray segment that lies too far ahead until
  the second segment came, six captures; a cap of seven bytes, a gap limit of a quarter
  of the space as in the code. Comparisons depend on the quarter and the half of the space only, and
  all distances that matter to them occur. `MCConversationStranded` is the same
  instance.
- `MCDissection`, `SegmentTracker`: segments up to 70 bytes into the same space, so over
  two laps of it, each within half of it from the next; one of the first is cut in another
  way, the last are a lap away from the first; seven captures, five acknowledgements, a
  send-time table of two.
- `MCDissection`, `Decode`: each chain of decoders once, with and without a link header,
  with IP options, padding and later fragments, cut at every byte.
- `MCDissection`, `DnsMessage`: two names of which one is the rest of the other, so that
  a name may be written in full, as a pointer, or as a label with a pointer; two
  records; one octet changed to any of four values, among them both kinds of length
  octet and a pointer, in a message of at most one record (`MaxChanged`), since what
  follows a changed octet is read like any record. Loops are cut off at `MaxDepth` 4
  instead of 128: a name of these messages follows at most two pointers.
- `MCDissection`, `TlsHello`: up to three of seven extensions, each kind that is read
  and one that is not; `Prelude` stands for the 34 octets of version and random, of
  which only the first two are read.
- `MCDissection`, `Http2`: a static table of one entry, four representations, one text
  that is not UTF-8 and one that is Huffman-coded, and
  announced limits of none and of two entries, so that entries are evicted and the table
  emptied. `MaxFrames` 3 instead of 128: one frame more may be sent than is read.
  `MCHttp2Fully` is the same without Huffman.

Deadlock is not checked: in every model the system may really stop (the worker
or the process ends, or a bound of the model is used up).

### Fairness

- `Monitor`: weak fairness of the worker as a whole. Its thread runs, `recv_timeout`
  returns after at most 500 ms, and store calls return. Nothing is assumed of packets,
  signals or the capture thread.
- `InspectorSync`: weak fairness of the worker's pending broadcast, of the handler
  thread, and of the inspector's reader and loop: threads that are runnable. None of
  queries, refreshes, or anything a user does.
- `Pipeline`: weak fairness of each of the three threads while the process is there.
  None of the user quitting or of a device yielding packets: what `LeavingEnds` says of
  `read` is about files.
- `Locks`: weak fairness of each thread. Nothing is assumed of the order in which a
  mutex wakes its waiters; requests are finite in number (`MaxRequests`), so that
  `WorkerReturns` says that nobody waits in a circle, not that a mutex is fair: endless
  requests could starve the worker of an unfair one.
- `Lifecycle`: weak fairness of the start and end of `run_monitor`, the accept loop and
  the thread that relays the signal; of the capture thread only once the flag is set,
  because it reads with a timeout. None of signals and commands.

## Proofs

Eight modules of theorems. Each holds for every value of the constants under the
assumptions named where the constants are declared (their types, and that
bounds are natural numbers), whatever the bounds of the runs.

| Module | Theorem | |
|---|---|---|
| `MonitorProofs` | `WorkerInvariant` | `Spec => []IInv` |
| | `TypeCorrect` | types, and at most `MaxFlows` flows |
| | `TablesAlwaysAgree`, `HistoryIsExact`, `NothingIsForgotten` | the properties of the same names |
| | `IdsAreUnique` | `IdsUnique`, a part of `TablesAgree` |
| | `FeedIsExact`, `LiveTableAgrees` | `FeedExact`, `LiveAgrees` |
| | `BookIsKept` | the worker implements `Ledger`: `Spec => KeepsBook` |
| `EngineProofs` | `EngineImplementsBaseline` | the chain implements `Baseline`: `EngineSpec => Implements` |
| | `CooldownIsKept`, `LearningIsSilent` | `CooldownKept`, `SilentWhileLearning` |
| | `AlertsAreComplete` | `AlertsComplete` |
| | `EngineIsSound` | `EngineInv` |
| `InspectorProofs` | `StreamIsExact`, `ViewsConverge`, `InspectorsSound` | `StreamExact`, `ViewConverges`, `SyncInv` |
| `AnnotationProofs` | `OwnerIsExact` | `SocketSpec => []OwnerExact` |
| | `IdentityIsExact` | `IdentitySpec => []IdentityExact` |
| | `ScansAreTold` | `ThreatSpec => []ScansTold` |
| | `NamingIsExact` | `NameSpec => []NamingExact` |
| | `VolumeIsExact` | `VolumeSpec => []VolumeExact` |
| `LifecycleProofs` | `LifecycleIsSound` | `LifecycleInv` |
| | `NobodyWaitsInACircle` | `LocksSpec => []NoCircle` |
| `PipelineProofs` | `PipelineIsSound`, `OutputIsComplete` | `PipelineInv`, `OutputComplete` |
| `PacketViewProofs` | `ListIsExact`, `SelectionIsExact` | `ViewInv`, `SelectionExact` |
| `DissectionProofs` | `HandedOutExactly`, `BufferSound` | `StreamExact`, `BufferInv` |
| | `CleanFlow` | `CleanStreamFlows` |
| | `TrackingSound` | `TrackSpec => TrackingExact` |
| | `DecodeIsExact` | `DecodeSpec => []DecodeExact` |

**The worker.** Its four properties are not inductive: each
speaks of the moments between packets, or of rows already written. `IInv` says the
same for each place in the loop: `HandInv` what the worker holds (the update or the
closed flow in hand), `QueueInv` that a queued snapshot's flow has left the table and
is queued once, `MetaInv` that metas are exactly the tracked and the queued flows and
carry the id their bytes are counted under, `TotalsInv` that tracked flows and queued
snapshots have the bytes of the wire, `LiveInv` that the live table lacks at most the
connection whose first packet is in hand, `LedgerInv` that every id is known, closing,
recorded or lost. The proof has a lemma per action. `ReceiveInv` is the large one: a
packet may at once evict one flow, open another and close it, so lemmas describe
the table (`FlowsAfter`), the queue (`QueueAfter`), the bytes (`WireAfter`) and the
metas (`MetasAfter`) after it.

**What clients see.** `FeedInv` follows the event stream through the loop: what is
announced and not closed is live or being retired, what is live is announced or the
connection in hand, and no closed id is known any more. `ShownInv` counts the bytes
the live table shows together with those in the worker's hand; they are the bytes of the
wire, in the direction `handle_update` chose, which is the one `make_snapshot` chooses.

**Attribution.** `KernelInv` says that two sockets of one protocol follow each other at an
end; `EntriesInv` that every entry was open when the table was read, and that what was
open then has an entry, unless the file of its family could not be read. So a socket
older than the interval is the one its end leads to: a second one there would have been
open at the same time. A table that could not be read counts as read (`last_refresh` is
set), so what it leaves out is missing for an interval: `OwnerExact` claims that a
process that is named is the right one in any case, and that one is named if the file
could be read when the table was and the owner's descriptors when they were searched.
For identities, whatever the
file holds between link and answer has been seen (`AskedInv`), so only a row written
earlier can tell something else, and that row is torn.

**Scans.** `WindowInv` speaks of sets: a window holds every probe that no later one of its
source has left behind, and is sorted if they came in order. Pruning keeps a tail
(`PrunedTail`) and drops only what the new probe leaves behind. That the verdict misses
nothing is then monotonicity of the counts (`CountsGrow`).

**Names.** `KnowsName` says of each address that its entry is the latest packet of the
best source that named it, with that source's priority. `TableInv` relates the table of
pending queries to the packets heard: it is ordered by age, has an id once, with its
latest query, and holds every query that still waits unless `Capacity` ids were asked
for behind it. The last part is what makes "freshest" true: a query leaves a full table
only from its old end, so every other entry is an id asked later (`DropsOldest`), and
fresher ids stay fresher (`PairsInv` then only looks back).

**The inspector.** What an inspector will apply is `Ahead`: what is behind its socket,
then its queue, then what the worker is about to broadcast. `ConvergeInv` says that
`Ahead` *leads* from its view to the live table: the last event about a connection says
what the live table says of it, and where no event is about it the two agree already. So
an event may be applied to a table that has run ahead of it, as happens between the
queries and the subscription. `StreamInv` carries the log since subscription, exact
without overflow and a subsequence otherwise; `LinkInv` says who has a queue and that
the end of the stream is the last that is read. `OutInv` ties the pending broadcasts to
the table the worker changed before, and says that pending alerts are the last of the
store, all of one observation. `FeedInv` splits the feed: above, what was streamed, newest
row first; below, what was queried, latest time first (`Ordered`). Alerts still to come
are in the order of their rows, behind those that were streamed and of no earlier
observation than what was queried (`Continues`). So what stands in both parts is of the
observation that was being broadcast when the inspector asked, and nothing is there three
times.

**The packet list.** `ListInv`: the index lists in ascending order exactly the ring
positions that pass the filters. An eviction shifts all positions by one, and the index
with them, dropping its first entry if that was position 0 (`ShiftedLists`); a list in
ascending order is determined by its set, so the shifted index is what rebuilding would
have given. `Ascending`, the loop that rebuilds it, is a recursive function; that it is
one (`LoopExists`) and what it lists (`AscendingLists`) is shown by a least
counterexample instead of induction. `RingExact` gives positions their packets, so that
`SelInv` can follow the packet that was selected, in BROWSE mode, and the newest that
passes, in LIVE mode, through draining, filtering, keys and clicks.

**The book.** With `IInv` at hand, each step of the worker is shown to be one of
`Ledger` or none: `Receive` an `Observe` whose account is the one the meta names and
which leaves behind what the table keeps, `InsertRow` an `Enter` or a `Miss` of an
account that is due.

**The alert engine.** What the open transaction has done at each statement is a function
of the tables before it (`AfterDest`, `Processed`, ..., `Finished`), and `ChainInv` says
that `tx` is that function of `db`; at `COMMIT` it is `Learnt`. Two things keep this
from being a matter of unfolding. The signals are judged by the tables as earlier
statements of the same transaction left them, so what each looks at has to be shown
untouched until then (`SameKeys`). And alerts are inserted one signal after another,
with the cooldown consulted each time, where `Learnt` inserts them at once: `AddedTwice`
shows that what an earlier insertion adds only holds back what it has added itself. The
other theorems are proved of `Baseline` and carried over: `LearnInv` adds that an active
baseline has seen an observation at or behind the window's end, `KnowInv` that labels
and places known were seen and that the current identity is the one observed last, so
that what was never seen is judged to be new, and `RowsInv` that an observation writes
all rows of its process. `EngineIsSound` also needs `TxInv`: the alerts collected are in
the tables of the transaction, and forgotten with it.

**The life cycle.** `LifecycleInv` is inductive itself. Two of its parts are there for
that: until it binds, the path does not lead to a daemon (`BoundByWorkers`), and daemons
that are up at once have met (`MeetingsKnown`).

**The mutexes.** `NoCircle` speaks of who holds what; what makes it true is the code a
thread has still before it. `LocksInv` ties the two together. The worker has pairs of a
lock and its unlock before it (`WorkerHas`), so it holds one mutex at most, the one it is
about to give back. A handler is at one of the places in one of its passes
(`HandlerHas`), each of which fixes what it holds; the only one that waits with a mutex
in hand is `handle_query` before the live table, with the store. Hence a chain of waits
is one long: whoever holds the live table never waits (`CircleFree`). A panic empties
both sides at once. `WorkerReturns`, that the worker then does come back, is a matter of
fairness and left to TLC.

**The pipeline.** `PIInv`: packets carry consecutive numbers from the first one written
to the last one in the decoder's hand, and again from there to the last one read; both
runs join while nothing was given up (`Consecutive`); a thread whose input ended has
nothing left before it (`EndTravels`); and `--count` stops at its number
(`SampleFills`).

**The stream.** `ReassemblyInv`: what came out is one run of bytes from the first captured
segment on, all of them captured, up to the end of a captured segment, where the next
byte is expected; what is held are captured segments, each under its own number; and the
total counts both. The lemmas below it say what serial-number arithmetic tells about
positions less than a lap apart (`LtOf`, `MinusOf`), what is left of an overlapping
segment (`FreshBytes`), and what the loop over held segments returns (`PullResult`: each
pass keeps `PullTo`, and it stops because each pass uses up one held segment).
`HeldBytes` is a fold over a set in an order nobody knows; `AnyFirst` shows that the order
does not matter. `CleanFlow` needs `FlowInv`: every captured segment is handed out up to
its end, or held ahead of the next byte, or lies behind a byte that is never sent; the
loop leaves no segment at the next byte, and among segments that do not overlap the run
cannot pass into the middle of one. The proofs
rest on two assumptions about what is captured of one connection. Modulo 2^32 a
sequence number names no position, so everything put together lies within three quarters
of the space (`LapAssumption`, for `HandedOutExactly` and `BufferSound`);
and what lies more than the 1 GiB of `MAX_FORWARD_GAP` ahead is garbage
(`GapAssumption`, for `CleanFlow`). Longer streams are outside these three theorems.

**The tracker.** `TrackingSound` is about streams of any length, the "4GB+ flows" of
`seq_wrapping_leq` among them. `TrackerInv` says that the largest number is that of the
farthest byte seen, as long as every segment ended within half of the space from the
farthest one before it (`near`, which remembers whether that was so): there serial
comparison is the order of the stream (`LeqOf`). Entries are filed under their own
numbers, and what was timed has no larger number than what was acknowledged; that orders
their positions only within one lap, and across laps the code does time segments on
acknowledgements of earlier bytes (`TimedWhenAcked` is therefore about one lap at a time).

**The layers.** `DecodeInv` says of a packet half taken apart that its layers rise in the
order the decoders come in (`Rising`), tile the data up to `offset` (`RangesTile`,
`Continues`) and, unless it is a later fragment, are the first `k` headers that were
sent, where decoding goes on with header `k + 1`, or stops because there is none or
because it does not end within the capture (`Found`). A decoder looks at a header that
was sent and at no other because none is empty, so that no two begin at one position
(`StartsGrow`, `OnlyOne`); what it makes of it is case analysis (`Decoders`). `Rising`
is what the summary needs: there is one network layer, so the one that overwrites the
source is the one `ip_pair` finds. Positions and summary are folds over a sequence;
that a fold has a value for each beginning of the sequence, each from the one before it,
is shown for any fold (`FoldThere`, `FoldClimbs`) by a least counterexample.

**The volume.** `VolumeInv` carries the sum over the closed intervals, the boundary the
open one began at and bounds on the mean. An average rounded down moves toward the new
value and not past it (`Towards`), so the mean stays among the intervals it is the mean
of, and while all are equal it stays where it is and the variance at zero (`Spread`). A
spike is above the mean, therefore above the least interval before it. That the sum grows
by what is appended, and by nothing else, needs the fold over `closed` to agree with the
fold over its beginning (`SumAppends`).

TLC checks `IInv` in `MCMonitor`, and each theorem's property in its run; the parts of
`MCAnnotations`, `MCDissection` and `MCThreads` are specifications of their own in the
theorems.

Only model-checked: `EndIsObeyed`, `EventuallyShown`, `LeavingEnds`, `EndsWhenTold` and
`WorkerReturns`, which are liveness and need `ENABLED`, beyond this prover; and the
properties of `DnsMessage`, `TlsHello`, `Http2` and `Filters`. What the first two compute
is a recursion over octets and what `Filters` computes one over words (by `RECURSIVE`
operators, with which no theorem can be stated in or above the module). `HeadersExact`
rests on where a reader stands in a block, that is on an integer's octets being as many
as its encoder wrote, which is induction over data too. Their runs compare all inputs
within bounds instead.

## Where code and documentation differ

Checked by a run (see `findings`):

1. Connections that are live when the daemon stops never reach the history
   (`MCMonitorTotals`).
2. A process first seen on an inbound flow never raises signal 2 when it connects
   out (`MCAlertEngineInbound`).
3. A segment that overlaps a held one leaves the held one stranded
   (`MCConversationStranded`).
4. A lookup is answered from the socket table of the other protocol
   (`MCAnnotationsProtocol`).
5. A file that is replaced between its metadata and its hash leaves a wrong identity in
   the cache, which is told when the earlier file is put back (`MCAnnotationsIdentity`).
6. A header text that is not UTF-8 is counted longer than it was sent, so that the HPACK
   table drops entries the sender still has (`MCHttp2Fully`).

Noticed while modelling, and true of the models, with no run of their own:

7. The last ACK behind a close opens a flow, an id and a live entry again, which
   last until eviction (`core/flow/tracker.rs:87`).
8. A socket lookup that finds nothing erases the process the row would have named
   (`core/monitor/correlate.rs:159`).
9. An unreadable identity becomes the baseline, so A, unreadable, B raises nothing
   (`core/alert/detectors.rs:167`). `IdentityChangeAlerts` therefore compares with
   the identity observed last and makes no claim about unreadable ones.
10. A daemon started with `--demo` on a store that is still learning keeps the old
   window (`core/alert/baseline.rs:15`).
11. A connection that closes between the inspector's query and its subscription
   stays listed until a refresh (`app/inspect/mod.rs:81`); `ViewConverges`
   excludes such views.
12. A search jump in LIVE mode is undone in the same frame; a click on the bottom
    border selects a row that is not drawn (`app/tui/mod.rs:191`, `:764`).
13. A second daemon on one state directory takes over, and later removes, the
    socket path of the first (`core/monitor/mod.rs:81`).
14. In BROWSE mode the selection moves to newer packets when the ring evicts a packet
    of the list, against the comment "the selection stays put"
    (`app/tui/mod.rs:844`); `BrowseStays` makes no claim after such an eviction.
15. A hash that fails once is cached as unreadable for as long as the file keeps its
    mtime and size (`core/identity.rs:59`).
16. `ThreatTracker` never forgets a source, and after a jump of the clock its "within
    10s" also counts probes that are older (`core/analysis/threat.rs:66`, `:98`).
17. Padding behind a short Ethernet frame counts as TCP payload
    (`core/decode/tcp.rs:30`, `core/flow/tracker.rs:102`).
18. Later fragments of an IPv4 packet are decoded as if a transport header began them
    (`core/decode/ipv4.rs:30`).
19. DNS over TCP is parsed without skipping its length prefix
    (`core/decode/mod.rs:541`).
20. A name that ends in a pointer to the root gets a trailing dot
    (`core/decode/dns.rs:256`).
21. The version a TLS 1.3 ServerHello selects is read as a list and not found, so 1.2 is
    shown (`core/decode/tls.rs:199`); a ClientHello cut over two records is
    fingerprinted by its first part.
22. The HPACK table leaves the sender's behind a Huffman string or a block it skips,
    and later indices name other fields (`core/decode/http2.rs`).
23. Behind a `COMMIT` that failed and left its transaction open, every evaluation fails
    until the daemon is restarted (`core/store/mod.rs:57`).
24. Acknowledgements are compared without wrapping, against "leaving only the acked
    entries", so a segment behind a boundary of 2^32 is timed on an acknowledgement of
    bytes before it (`core/flow/tracker.rs:351`).

## Not modelled

- SQLite, the kernel's buffers, crossbeam's and the socket's internals: taken to do what
  they promise.
- Rounding in the volume baseline. `AlertEngine` takes its verdict as an input.
- Filter texts in which words stand together without spaces: a value that is a word then
  takes in what follows it (`tls.sni contains a.com&&udp`).
- The handshake round trip and the smoothing of samples.
- Sockets that several processes share, ports that several sockets share, and process
  numbers that are used again: `find_pid_for_inode` takes the first it meets. Files that
  are written in place while they are hashed. Attribution on macOS and Windows.
- `mark_fin` and `is_complete` of `ReassemblyBuffer`, called by tests only.
- Of the decoders: the texts of HTTP/1, QUIC headers and ICMP, hashes (what is hashed
  stands for them), names of ciphers and types.
- GeoIP, notifications, output formats, rendering, configuration: no state between
  packets, or pure output. The diff of two captures: a pure function of two files.

## Plan

Done, in this order, most important first: flow table and worker; its proofs; alert
engine and its abstraction; inspector and bus; packet list; pipeline; life cycle;
segments and reassembly; annotations (socket table, identities, threats); names, volume,
filters; decoders; the book of accounts and the refinement by the worker; mutexes;
proofs about life cycle, pipeline, alert engine, event stream, attribution and threats;
proofs about inspector and bus, packet list, names, the stream, the volume baseline, the
decoding of packets and the mutexes.

Left, for whoever goes on:

1. Two engines on one store: identities, labels and cooldowns of two daemons mix.
2. `Names` inside `Monitor`: the name a connection is published and recorded with.
3. The diff of two captures (`core/diff/mod.rs`) as an operator against a reference.
4. A lossy channel as the abstract specification of the bus of `InspectorSync`.
5. The stream theorems for conversations longer than the sequence space, with segments
   that are captured in their window.
