------------------------------ MODULE Pipeline ------------------------------
(***************************************************************************)
(* The three threads of rust-shark capture and rust-shark read             *)
(* (rust-shark-app/src/main.rs): the capture thread (capture_loop in       *)
(* src/capture/mod.rs) sends raw packets over a bounded channel to the     *)
(* decode thread, which sends decoded packets over another to the main     *)
(* thread: json_output_loop or the terminal UI.  They stop through one     *)
(* flag and through the ends of the channels: a receive fails once the     *)
(* sender is gone and the channel is empty, a send fails once the receiver *)
(* is gone.                                                                *)
(*                                                                         *)
(* A packet is its number.  What the decoders make of it, and what the UI  *)
(* does with it, are not the subject here.                                 *)
(***************************************************************************)
EXTENDS Naturals, Sequences

CONSTANTS
    Supply,      \* packets the source has (a file) or will see (a device)
    Cap,         \* CHANNEL_CAPACITY
    Options      \* command lines: [live, json, count, timed]

ASSUME PipelineAssumption ==
    /\ Supply \in Nat
    /\ Cap \in Nat \ {0}
    /\ \A o \in Options :
         /\ o.live \in BOOLEAN /\ o.json \in BOOLEAN /\ o.timed \in BOOLEAN
         /\ o.count \in Nat

VARIABLES
    opts,        \* live: a device, not a file; json: --json, not the UI;
                 \* count: --count, 0 for none; timed: --duration
    stopFlag,    \* the shared flag
    capPc,       \* the capture thread
    next,        \* the last packet it has read
    broken,      \* the source failed (history variable)
    raw,         \* the first channel
    decPc,       \* the decode thread
    held,        \* the packet it works on
    decoded,     \* the second channel
    mainPc,      \* the main thread
    out,         \* packets written or shown
    failed       \* main returns an error: output could not be written

sourceVars == <<capPc, next, broken>>
decodeVars == <<decPc, held>>
mainVars == <<mainPc, out, failed>>
pipelineVars == <<opts, stopFlag, sourceVars, raw, decodeVars, decoded, mainVars>>

PipelineInit ==
    /\ opts \in Options
    /\ stopFlag = FALSE
    /\ capPc = "check" /\ next = 0 /\ broken = FALSE
    /\ raw = <<>>
    /\ decPc = "check" /\ held = 0
    /\ decoded = <<>>
    /\ mainPc = "check" /\ out = <<>> /\ failed = FALSE

\* The process is there, and its threads with it.
Running == mainPc # "exit"

\* The main thread still holds the receiver of the second channel.
Consuming == mainPc \in {"check", "recv", "leaving"}

-----------------------------------------------------------------------------
(***************************************************************************)
(* Capture thread: capture_loop.                                           *)
(***************************************************************************)
CaptureCheck ==
    /\ capPc = "check"
    /\ capPc' = IF stopFlag THEN "end" ELSE "read"
    /\ UNCHANGED <<opts, stopFlag, next, broken, raw, decodeVars, decoded, mainVars>>

CaptureRead ==
    /\ capPc = "read"
    /\ next < Supply
    /\ next' = next + 1
    /\ capPc' = "send"
    /\ UNCHANGED <<opts, stopFlag, broken, raw, decodeVars, decoded, mainVars>>

\* TimeoutExpired, from a device only.
CaptureIdle ==
    /\ capPc = "read"
    /\ opts.live
    /\ capPc' = "check"
    /\ UNCHANGED <<opts, stopFlag, next, broken, raw, decodeVars, decoded, mainVars>>

\* NoMorePackets, from a file only.
CaptureEof ==
    /\ capPc = "read"
    /\ ~opts.live /\ next = Supply
    /\ capPc' = "end"
    /\ UNCHANGED <<opts, stopFlag, next, broken, raw, decodeVars, decoded, mainVars>>

\* Any other error: the device is gone, the file is damaged.
CaptureBreaks ==
    /\ capPc = "read"
    /\ capPc' = "end"
    /\ broken' = TRUE
    /\ UNCHANGED <<opts, stopFlag, next, raw, decodeVars, decoded, mainVars>>

CaptureSend ==
    /\ capPc = "send"
    /\ IF decPc = "end" THEN capPc' = "end" /\ UNCHANGED raw
       ELSE /\ Len(raw) < Cap
            /\ raw' = Append(raw, next)
            /\ capPc' = "check"
    /\ UNCHANGED <<opts, stopFlag, next, broken, decodeVars, decoded, mainVars>>

Capture ==
    \/ CaptureCheck \/ CaptureRead \/ CaptureIdle \/ CaptureEof
    \/ CaptureBreaks \/ CaptureSend

-----------------------------------------------------------------------------
(***************************************************************************)
(* Decode thread: decode_thread.                                           *)
(***************************************************************************)
DecodeCheck ==
    /\ decPc = "check"
    /\ decPc' = IF stopFlag THEN "end" ELSE "recv"
    /\ UNCHANGED <<opts, stopFlag, sourceVars, raw, held, decoded, mainVars>>

DecodeReceive ==
    /\ decPc = "recv"
    /\ raw # <<>>
    /\ held' = Head(raw)
    /\ raw' = Tail(raw)
    /\ decPc' = "send"
    /\ UNCHANGED <<opts, stopFlag, sourceVars, decoded, mainVars>>

DecodeTimeout ==
    /\ decPc = "recv"
    /\ raw = <<>> /\ capPc # "end"
    /\ decPc' = "check"
    /\ UNCHANGED <<opts, stopFlag, sourceVars, raw, held, decoded, mainVars>>

DecodeDisconnected ==
    /\ decPc = "recv"
    /\ raw = <<>> /\ capPc = "end"
    /\ decPc' = "end"
    /\ UNCHANGED <<opts, stopFlag, sourceVars, raw, held, decoded, mainVars>>

\* Faulty variants: a full channel loses the packet; a send does not notice
\* that the receiver is gone.
DecodeTrySend ==
    /\ decPc = "send"
    /\ decPc' = IF Consuming THEN "check" ELSE "end"
    /\ decoded' = IF Len(decoded) < Cap THEN Append(decoded, held) ELSE decoded
    /\ held' = 0
    /\ UNCHANGED <<opts, stopFlag, sourceVars, raw, mainVars>>

DecodeSendBlindly ==
    /\ decPc = "send"
    /\ Len(decoded) < Cap
    /\ decoded' = Append(decoded, held)
    /\ decPc' = "check"
    /\ held' = 0
    /\ UNCHANGED <<opts, stopFlag, sourceVars, raw, mainVars>>

DecodeSend ==
    /\ decPc = "send"
    /\ IF Consuming
       THEN /\ Len(decoded) < Cap
            /\ decoded' = Append(decoded, held)
            /\ decPc' = "check"
       ELSE decPc' = "end" /\ UNCHANGED decoded
    /\ held' = 0
    /\ UNCHANGED <<opts, stopFlag, sourceVars, raw, mainVars>>

Decode ==
    \/ DecodeCheck \/ DecodeReceive \/ DecodeTimeout \/ DecodeDisconnected
    \/ DecodeSend

-----------------------------------------------------------------------------
(***************************************************************************)
(* Main thread with --json: json_output_loop.                              *)
(***************************************************************************)
\* Faulty variant: one packet too many.
SampleOverfull(n) == opts.count # 0 /\ n > opts.count

SampleFull(n) == opts.count # 0 /\ n >= opts.count

\* The head of the loop: the flag, and the time when there is a limit.
JsonCheck ==
    /\ opts.json /\ mainPc = "check"
    /\ \/ stopFlag /\ mainPc' = "leaving"
       \/ ~stopFlag /\ mainPc' = "recv"
       \/ ~stopFlag /\ opts.timed /\ mainPc' = "leaving"
    /\ stopFlag' = (stopFlag \/ mainPc' = "leaving")
    /\ UNCHANGED <<opts, sourceVars, raw, decodeVars, decoded, out, failed>>

JsonReceive ==
    /\ opts.json /\ mainPc = "recv"
    /\ decoded # <<>>
    /\ out' = Append(out, Head(decoded))
    /\ decoded' = Tail(decoded)
    /\ mainPc' = IF SampleFull(Len(out')) THEN "leaving" ELSE "check"
    /\ stopFlag' = (stopFlag \/ mainPc' = "leaving")
    /\ UNCHANGED <<opts, sourceVars, raw, decodeVars, failed>>

JsonTimeout ==
    /\ opts.json /\ mainPc = "recv"
    /\ decoded = <<>> /\ decPc # "end"
    /\ mainPc' = "check"
    /\ UNCHANGED <<opts, stopFlag, sourceVars, raw, decodeVars, decoded, out, failed>>

JsonDisconnected ==
    /\ opts.json /\ mainPc = "recv"
    /\ decoded = <<>> /\ decPc = "end"
    /\ mainPc' = "leaving"
    /\ stopFlag' = TRUE
    /\ UNCHANGED <<opts, sourceVars, raw, decodeVars, decoded, out, failed>>

(***************************************************************************)
(* Main thread with the terminal UI: it takes packets in every frame that  *)
(* is not paused, and only the user ends it.                               *)
(***************************************************************************)
UiTakes ==
    /\ ~opts.json /\ mainPc = "check"
    /\ decoded # <<>>
    /\ out' = Append(out, Head(decoded))
    /\ decoded' = Tail(decoded)
    /\ UNCHANGED <<opts, stopFlag, sourceVars, raw, decodeVars, mainPc, failed>>

UiQuits ==
    /\ ~opts.json /\ mainPc = "check"
    /\ mainPc' = "leaving"
    /\ UNCHANGED <<opts, stopFlag, sourceVars, raw, decodeVars, decoded, out, failed>>

(***************************************************************************)
(* Main thread: the end of both.                                           *)
(***************************************************************************)
\* Writing a line, or drawing, fails: main returns without joining anybody.
OutputFails ==
    /\ mainPc \in {"check", "recv"}
    /\ mainPc' = "exit"
    /\ failed' = TRUE
    /\ UNCHANGED <<opts, stopFlag, sourceVars, raw, decodeVars, decoded, out>>

\* The loop returns and drops the receiver it owns.
Return ==
    /\ mainPc = "leaving"
    /\ mainPc' = "stopping"
    /\ UNCHANGED <<opts, stopFlag, sourceVars, raw, decodeVars, decoded, out, failed>>

SetStop ==
    /\ mainPc = "stopping"
    /\ stopFlag' = TRUE
    /\ mainPc' = "join"
    /\ UNCHANGED <<opts, sourceVars, raw, decodeVars, decoded, out, failed>>

\* Both handles are joined, one after the other.
Join ==
    /\ mainPc = "join"
    /\ capPc = "end" /\ decPc = "end"
    /\ mainPc' = "exit"
    /\ UNCHANGED <<opts, stopFlag, sourceVars, raw, decodeVars, decoded, out, failed>>

Json == JsonCheck \/ JsonReceive \/ JsonTimeout \/ JsonDisconnected
Main == Json \/ UiTakes \/ UiQuits \/ OutputFails \/ Return \/ SetStop \/ Join

PipelineNext == Running /\ (Capture \/ Decode \/ Main)

PipelineSpec == PipelineInit /\ [][PipelineNext]_pipelineVars

\* Every thread is scheduled; whether the user quits, and whether output
\* fails, is up to the world.
PipelineFair ==
    /\ WF_pipelineVars(Running /\ Capture)
    /\ WF_pipelineVars(Running /\ Decode)
    /\ WF_pipelineVars(Json \/ UiTakes \/ Return \/ SetStop \/ Join)

-----------------------------------------------------------------------------
(***************************************************************************)
(* Properties.                                                             *)
(***************************************************************************)
PipelineTypeOK ==
    /\ opts \in Options /\ stopFlag \in BOOLEAN
    /\ capPc \in {"check", "read", "send", "end"}
    /\ next \in 0..Supply /\ broken \in BOOLEAN
    /\ raw \in Seq(1..Supply) /\ Len(raw) <= Cap
    /\ decPc \in {"check", "recv", "send", "end"} /\ held \in 0..Supply
    /\ decoded \in Seq(1..Supply) /\ Len(decoded) <= Cap
    /\ mainPc \in {"check", "recv", "leaving", "stopping", "join", "exit"}
    /\ out \in Seq(1..Supply) /\ failed \in BOOLEAN

Upto(n) == [i \in 1..n |-> i]
Held == IF decPc = "send" THEN <<held>> ELSE <<>>
Unsent == IF capPc = "send" THEN <<next>> ELSE <<>>

\* Until somebody has left, every packet that was read is somewhere between
\* the source and the output, once, in order: two bounded channels and a
\* blocking send each lose nothing (capture_loop, decode_thread).
NothingLost ==
    Consuming /\ decPc # "end" =>
        out \o decoded \o Held \o raw \o Unsent = Upto(next)

\* What was written or shown is always the first packets of the source.
OutputInOrder == out = Upto(Len(out))

\* Both channels stay within their capacity and lose nothing, and what comes
\* out of them is in order, also after somebody has left.
PipelineInv == PipelineTypeOK /\ NothingLost /\ OutputInOrder

\* rust-shark read --json ends with the whole file written, although three
\* threads stop at different times: the end of the source reaches each of them
\* behind the last packet.
ReadComplete ==
    mainPc = "exit" /\ ~failed /\ ~broken /\ opts.json /\ ~opts.live
        /\ opts.count = 0 /\ ~opts.timed
      => out = Upto(Supply)

\* --json --count n writes n packets and no more; it writes fewer only if the
\* source ended or the time was up ("one-shot: 100 packets as JSON").
SampleExact ==
    opts.json /\ opts.count # 0 =>
        /\ Len(out) <= opts.count
        /\ mainPc = "exit" /\ ~failed /\ ~opts.timed /\ ~broken /\ opts.live
             => Len(out) = opts.count

\* rust-shark --json writes what it was asked for: the file, or the sample.
OutputComplete == ReadComplete /\ SampleExact

\* Once the main thread leaves its loop the process ends, whoever is blocked
\* on a full channel at that time; and rust-shark read --json ends by itself,
\* although nobody sets the flag.
LeavingEnds ==
    /\ mainPc = "leaving" ~> mainPc = "exit"
    /\ opts.json /\ ~opts.live ~> mainPc = "exit"

=============================================================================
